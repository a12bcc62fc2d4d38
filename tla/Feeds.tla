------------------------------- MODULE Feeds -------------------------------
\* Following the journal: one follower over the store and its broadcast, and the
\* following feeds of GET /v1/events that are written from it.
EXTENDS Integers, Sequences, FiniteSets, FiniteSetsExt, Naturals, SequencesExt

-----------------------------------------------------------------------------
(***************************************************************************)
(* A follower of one object (internal/events/follow.go) over the store's   *)
(* journal and its broadcast (internal/store/broadcast.go, events.go), as  *)
(* serveFollow of internal/api/follow.go drives it.                        *)
(*                                                                         *)
(* On the memory store a commit publishes its row under the mutex.  On a   *)
(* shared store the row is published after the commit, outside any lock,   *)
(* so two rows may be published in the other order, another replica's are  *)
(* never published here, and the follower also polls the journal.          *)
(***************************************************************************)

CONSTANTS
    Worlds,             \* whether the store is shared: a subset of BOOLEAN
    MaxSeq,             \* records appended
    SubscriptionBuffer, \* rows one subscription holds unread
    FollowBatch,        \* records one read of the journal returns
    MaxPrunes           \* records the retention or the ring takes

VARIABLES
    shared,             \* the world
    kept,               \* sequences of the rows the journal holds
    newest,             \* the newest sequence
    unpublished,        \* committed here, not yet handed to the broadcast
    sub,                \* the subscription: its channel, and whether it is open
    reader,                  \* the follower
    queue,              \* records of one Next, still to be written out
    sent,               \* the newest sequence written to the caller
    prunes

followerVars == <<shared, kept, newest, unpublished, sub, reader, queue, sent, prunes>>

NoSub == [open |-> FALSE, rows |-> <<>>, behind |-> FALSE]
Open == [open |-> TRUE, rows |-> <<>>, behind |-> FALSE]

FollowerInit ==
    /\ shared \in Worlds
    /\ newest \in 0 .. 1
    /\ kept = 1 .. newest
    /\ unpublished = {}
    /\ sub = NoSub
    /\ reader = [pc |-> "watch", after |-> -1, last |-> 0, behind |-> FALSE]
    /\ queue = <<>> /\ sent = 0
    /\ prunes = 0

Upto(q, s) == [q EXCEPT !.rows = Append(@, s)]
(***************************************************************************)
(* Broadcast.Publish: a full channel ends the subscription with ErrBehind. *)
(***************************************************************************)
Published(s) ==
    IF ~sub.open THEN sub
    ELSE IF Len(sub.rows) < SubscriptionBuffer THEN Upto(sub, s)
    ELSE [sub EXCEPT !.open = FALSE, !.behind = TRUE]

AppendHere ==
    /\ newest < MaxSeq
    /\ newest' = newest + 1
    /\ kept' = kept \cup {newest'}
    /\ IF shared
       THEN unpublished' = unpublished \cup {newest'} /\ UNCHANGED sub
       ELSE sub' = Published(newest') /\ UNCHANGED unpublished
    /\ UNCHANGED <<shared, reader, queue, sent, prunes>>

AppendElsewhere ==
    /\ shared
    /\ newest < MaxSeq
    /\ newest' = newest + 1
    /\ kept' = kept \cup {newest'}
    /\ UNCHANGED <<shared, unpublished, sub, reader, queue, sent, prunes>>

Publish ==
    \E s \in unpublished :
        /\ unpublished' = unpublished \ {s}
        /\ sub' = Published(s)
        /\ UNCHANGED <<shared, kept, newest, reader, queue, sent, prunes>>

(* The retention forgets finished rows but the newest; the ring its oldest. *)
Prune ==
    /\ prunes < MaxPrunes
    /\ prunes' = prunes + 1
    /\ \E s \in kept \ {newest} :
        /\ ~shared => s = Min(kept)
        /\ kept' = kept \ {s}
    /\ UNCHANGED <<shared, newest, unpublished, sub, reader, queue, sent>>

-----------------------------------------------------------------------------
(***************************************************************************)
(* Emitter.Follow: it subscribes, then start reads the newest record and   *)
(* the one after the position, each in a transaction of its own.           *)
(***************************************************************************)
Watch ==
    /\ reader.pc = "watch"
    /\ sub' = Open
    /\ \E after \in -1 .. MaxSeq : reader' = [reader EXCEPT !.pc = "newest", !.after = after]
    /\ UNCHANGED <<shared, kept, newest, unpublished, queue, sent, prunes>>

StartNewest ==
    /\ reader.pc = "newest"
    /\ CASE reader.after = -1 ->
              reader' = [reader EXCEPT !.pc = "run", !.last = newest] /\ sent' = newest
         [] reader.after > newest ->
              reader' = [reader EXCEPT !.pc = "ahead"] /\ UNCHANGED sent
         [] OTHER ->
              reader' = [reader EXCEPT !.pc = "next"] /\ UNCHANGED sent
    /\ UNCHANGED <<shared, kept, newest, unpublished, sub, queue, prunes>>

AfterSeq(s) == {k \in kept : k > s}
StartNext ==
    /\ reader.pc = "next"
    /\ LET later == AfterSeq(reader.after) IN
        IF later # {} /\ Min(later) # reader.after + 1
        THEN reader' = [reader EXCEPT !.pc = "expired"] /\ UNCHANGED sent
        ELSE reader' = [reader EXCEPT !.pc = "run", !.last = reader.after, !.behind = TRUE] /\ sent' = reader.after
    /\ UNCHANGED <<shared, kept, newest, unpublished, sub, queue, prunes>>

(***************************************************************************)
(* Follower.Next while serveFollow asks: a follower that may be behind     *)
(* reads the journal, and takes the run that follows its position.         *)
(***************************************************************************)
Asks == reader.pc = "run" /\ queue = <<>>

(* Journal.After: the rows above s, oldest first, at most FollowBatch. *)
Batch(s) ==
    LET later == AfterSeq(s)
        firsts == {k \in later : Cardinality({j \in later : j < k}) < FollowBatch}
    IN  firsts

Run(s, batch) == {k \in batch : (s + 1) .. k \subseteq batch}

Ordered(set) == [i \in 1 .. Cardinality(set) |-> Min(set) + i - 1]

CatchUp ==
    LET batch == Batch(reader.last)
        run == Run(reader.last, batch)
        full == Cardinality(batch) = FollowBatch
    IN  /\ Asks
        /\ reader.behind
        /\ CASE batch = {} -> reader' = [reader EXCEPT !.behind = full] /\ UNCHANGED queue
             [] batch # {} /\ run = {} -> reader' = [reader EXCEPT !.pc = "expired"] /\ UNCHANGED queue
             [] OTHER -> /\ reader' = [reader EXCEPT !.behind = full \/ run # batch, !.last = Max(run)]
                         /\ queue' = Ordered(run)
        /\ UNCHANGED <<shared, kept, newest, unpublished, sub, sent, prunes>>
(***************************************************************************)
(* A committed record is sent where its sequence is the next one; a later  *)
(* one sends the follower back to the journal; an earlier one was sent.    *)
(***************************************************************************)
Receive ==
    /\ Asks
    /\ ~reader.behind
    /\ sub.rows # <<>>
    /\ LET s == Head(sub.rows) IN
        /\ sub' = [sub EXCEPT !.rows = Tail(@)]
        /\ CASE s = reader.last + 1 -> reader' = [reader EXCEPT !.last = s] /\ queue' = <<s>>
             [] s > reader.last + 1 -> reader' = [reader EXCEPT !.behind = TRUE] /\ UNCHANGED queue
             [] OTHER -> UNCHANGED <<reader, queue>>
    /\ UNCHANGED <<shared, kept, newest, unpublished, sent, prunes>>

(* The poll interval of a shared journal passes. *)
Poll ==
    /\ Asks
    /\ ~reader.behind
    /\ shared
    /\ reader' = [reader EXCEPT !.behind = TRUE]
    /\ UNCHANGED <<shared, kept, newest, unpublished, sub, queue, sent, prunes>>
(* Bug: a new subscription, and the journal is not read. *)
ResubscribeQuiet ==
    /\ Asks
    /\ ~reader.behind
    /\ sub.behind /\ sub.rows = <<>>
    /\ sub' = Open
    /\ UNCHANGED <<reader, shared, kept, newest, unpublished, queue, sent, prunes>>

(* A drained channel that was closed on a full buffer: subscribe again, then read. *)
Resubscribe ==
    /\ Asks
    /\ ~reader.behind
    /\ sub.behind /\ sub.rows = <<>>
    /\ sub' = Open
    /\ reader' = [reader EXCEPT !.behind = TRUE]
    /\ UNCHANGED <<shared, kept, newest, unpublished, queue, sent, prunes>>

WriteLine ==
    /\ reader.pc = "run"
    /\ queue # <<>>
    /\ sent' = Head(queue)
    /\ queue' = Tail(queue)
    /\ UNCHANGED <<shared, kept, newest, unpublished, sub, reader, prunes>>

(* The caller leaves, the bearer expires or the server drains. *)
Leave ==
    /\ reader.pc = "run"
    /\ reader' = [reader EXCEPT !.pc = "left"]
    /\ sub' = NoSub /\ queue' = <<>>
    /\ UNCHANGED <<shared, kept, newest, unpublished, sent, prunes>>

FollowerNext ==
    \/ AppendHere \/ AppendElsewhere \/ Publish \/ Prune
    \/ Watch \/ StartNewest \/ StartNext
    \/ CatchUp \/ Receive \/ Poll \/ Resubscribe \/ WriteLine \/ Leave

(***************************************************************************)
(* serveFollow loops, a commit is published by the call that committed,    *)
(* and the poll timer fires.                                               *)
(***************************************************************************)
FollowerFairness ==
    /\ WF_followerVars(Watch) /\ WF_followerVars(StartNewest) /\ WF_followerVars(StartNext)
    /\ WF_followerVars(CatchUp) /\ WF_followerVars(WriteLine) /\ WF_followerVars(Publish) /\ WF_followerVars(Resubscribe)
    /\ WF_followerVars(Receive) /\ WF_followerVars(Poll)

FollowerSpec == FollowerInit /\ [][FollowerNext]_followerVars /\ FollowerFairness

-----------------------------------------------------------------------------
(* The channel never holds more than its buffer, nor the follower more than it read. *)
FollowerTypeOK ==
    /\ kept \subseteq 1 .. newest
    /\ Len(sub.rows) <= SubscriptionBuffer
    /\ sent <= reader.last \/ reader.pc \in {"watch", "newest", "next", "ahead", "expired"}
    /\ reader.last <= newest

(***************************************************************************)
(* The follower implements the feed: whatever order rows are published in, *)
(* however often the subscription falls behind and whatever the retention  *)
(* takes, each record goes out after the one before it.                    *)
(***************************************************************************)
F == INSTANCE Feed WITH
        state <- CASE reader.pc \in {"watch", "newest", "next"} -> "opening"
                   [] reader.pc = "run" -> "open"
                   [] OTHER -> "ended"

InOrder == F!Spec

(***************************************************************************)
(* A feed is refused or ended as expired only where a record after its     *)
(* position is really gone (follow.go:15-19).                              *)
(***************************************************************************)
ExpiredMeansGone ==
    reader.pc = "expired" =>
        \E s \in 1 .. newest : s \notin kept /\ s > (IF reader.behind THEN reader.last ELSE reader.after)

(***************************************************************************)
(* A reader that stays receives every record: what it subscribed to before *)
(* it read, what arrived out of order, and what another replica appended.  *)
(***************************************************************************)
CatchesUp == \A s \in 1 .. MaxSeq : (reader.pc = "run" /\ newest >= s) ~> (sent >= s \/ reader.pc # "run")

-----------------------------------------------------------------------------
(***************************************************************************)
(* GET /v1/events (internal/api/events.go, internal/api/follow.go): a page *)
(* of one object's records, and the following feeds of one object or of    *)
(* every object the caller may read.  A feed takes one of the process's    *)
(* places, is authorized, subscribes, and then writes records until the    *)
(* object's delete record, the bearer's expiry, the server's drain, a      *)
(* failure, or the caller going away.  A feed of every object asks the     *)
(* authorizer about each record and holds the answers for its life.        *)
(*                                                                         *)
(* Follower.Next (internal/events/follow.go) is what module Follower shows *)
(* of it: an object's records in sequence, none skipped.                   *)
(***************************************************************************)

CONSTANTS
    Objects,      \* the objects records are about
    Clients,      \* the requests that follow
    FollowLimit,  \* Options.FollowLimit: the feeds one process holds open
    ReadCache,    \* readCache: the read decisions one feed holds
    MaxRecords,   \* bound: records the journal takes
    MaxChanges    \* bound: policy changes, unanswered questions and callers that go away

All == "all"
Unasked == "unasked"
Verdicts == {Unasked, "allowed", "refused"}

VARIABLES
    journal,    \* the records in commit order: [object, ends]
    gone,       \* the objects the controller no longer holds
    allowed,    \* the objects the authorizer lets the caller read
    following,  \* handler.following
    feeds,      \* one record for each request
    draining,   \* Options.Draining is closed
    expired,    \* the bearer's exp has passed
    changes

feedVars == <<journal, gone, allowed, following, feeds, draining, expired, changes>>

\* A feed: the step it is at, what it follows, the value its Add returned, how
\* many records of the journal it has looked at and where it began, its cached
\* decisions, what it wrote, the last line, and the objects that were readable
\* at some moment of its life.
Idle == [at |-> "idle", of |-> All, turn |-> 0, from |-> 0, pos |-> 0, reads |-> [o \in Objects |-> Unasked],
         sent |-> {}, last |-> "none", seen |-> {}]

\* A feed that is over: what it wrote is kept where the object's end ended it.
Over(f) == IF f.last = "ended" THEN [f EXCEPT !.at = "over", !.reads = Idle.reads]
           ELSE [Idle EXCEPT !.at = "over", !.last = f.last]

InProgress == {c \in Clients : feeds[c].at \notin {"idle", "over"}}

FeedInit ==
    /\ journal = <<>>
    /\ gone = {}
    /\ allowed \in {Objects, {}}
    /\ following = 0
    /\ feeds = [c \in Clients |-> Idle]
    /\ draining = FALSE
    /\ expired = FALSE
    /\ changes = 0

--------------------------------------------------------------------------
(* What the feeds are about.                                               *)

\* The last record an object has: Ends of internal/events/follow.go.
Ends(r) == r.ends

\* handler.emit: an operation's record, written after the operation on a
\* context the request's end does not cancel, so it may follow the delete.
emit(o) ==
    /\ Len(journal) < MaxRecords
    /\ o \in gone => Len(journal) > 0
    /\ journal' = Append(journal, [object |-> o, ends |-> FALSE])
    /\ UNCHANGED <<gone, allowed, following, feeds, draining, expired, changes>>

\* The controller deletes an object: the object is gone from its lookups and
\* the delete record commits with it.
Delete(o) ==
    /\ o \notin gone
    /\ Len(journal) < MaxRecords
    /\ gone' = gone \cup {o}
    /\ journal' = Append(journal, [object |-> o, ends |-> TRUE])
    /\ UNCHANGED <<allowed, following, feeds, draining, expired, changes>>

\* The authorizer's policy changes what the caller may read.
Policy(o) ==
    /\ changes < MaxChanges
    /\ changes' = changes + 1
    /\ allowed' = IF o \in allowed THEN allowed \ {o} ELSE allowed \cup {o}
    /\ feeds' = [c \in Clients |-> IF c \in InProgress
                                   THEN [feeds[c] EXCEPT !.seen = @ \cup allowed'] ELSE feeds[c]]
    /\ UNCHANGED <<journal, gone, following, draining, expired>>

\* The server begins to stop, or the bearer's exp passes: one of the two is
\* enough to end every feed.
Drain ==
    /\ ~draining /\ ~expired
    /\ draining' = TRUE
    /\ UNCHANGED <<journal, gone, allowed, following, feeds, expired, changes>>

Expire ==
    /\ ~draining /\ ~expired
    /\ expired' = TRUE
    /\ UNCHANGED <<journal, gone, allowed, following, feeds, draining, changes>>

--------------------------------------------------------------------------
(* Opening a feed.                                                         *)

\* followFeed's first line: the place is taken and the count it made returned
\* in one atomic step; what is asked is fixed with it.
Enter(c, of) ==
    /\ feeds[c].at = "idle"
    /\ ~draining
    /\ following' = following + 1
    /\ feeds' = [feeds EXCEPT ![c] = [Idle EXCEPT !.at = "entered", !.of = of, !.turn = following + 1,
                                                  !.seen = allowed]]
    /\ UNCHANGED <<journal, gone, allowed, draining, expired, changes>>

Within(turn) == turn <= FollowLimit

\* followFeed refuses, or any of its early returns after the place is taken:
\* the deferred Add(-1) gives the place back.
End(c, line) ==
    /\ feeds' = [feeds EXCEPT ![c] = Over([@ EXCEPT !.last = line])]
    /\ following' = following - 1

\* feedObject and the decision under the object's own kind; a feed of every
\* object is opened under the list action, which this caller has.
feedObject(f) == f.of = All \/ f.of \notin gone
Decided(f) == f.of = All \/ f.of \in allowed

followFeed(c) ==
    /\ feeds[c].at = "entered"
    /\ IF Within(feeds[c].turn) /\ feedObject(feeds[c]) /\ Decided(feeds[c])
       THEN /\ feeds' = [feeds EXCEPT ![c].at = "decided", ![c].turn = 0]
            /\ UNCHANGED following
       ELSE End(c, "refused")
    /\ UNCHANGED <<journal, gone, allowed, draining, expired, changes>>

\* The records of an object the journal holds.
RecordsOf(o) == {i \in 1..Len(journal) : journal[i].object = o}

\* Emitter.Follow from a position, which is a number of the object's records,
\* or from now; Emitter.FollowAll from now.  ErrAhead cannot be: the cursor is
\* a seq the caller holds.
Follow(c) ==
    /\ feeds[c].at = "decided"
    /\ \E from \in 0..Len(journal) :
          /\ feeds[c].of = All => from = Len(journal)
          /\ from \in {0, Len(journal)}
          /\ feeds' = [feeds EXCEPT ![c].at = "open", ![c].from = from, ![c].pos = from]
    /\ UNCHANGED <<journal, gone, allowed, following, draining, expired, changes>>

--------------------------------------------------------------------------
(* Serving it.                                                             *)

\* context.Cause(ctx): what has ended the feed's context.
Ended(c) == draining \/ expired

\* recordGate.allows: the decision held for the feed, or the authorizer's now.
allows(f, o) == IF f.reads[o] # Unasked THEN f.reads[o]
                ELSE IF o \in allowed THEN "allowed" ELSE "refused"

\* The read decisions once this one is held: a full cache is cleared first.
Held(f, o) ==
    IF f.of # All \/ f.reads[o] # Unasked THEN f.reads
    ELSE LET remaining == IF Cardinality({x \in Objects : f.reads[x] # Unasked}) >= ReadCache
                     THEN Idle.reads ELSE f.reads
         IN [remaining EXCEPT ![o] = allows(f, o)]

\* The records Next has still to hand this feed.
Ahead(f) == {i \in (f.pos + 1)..Len(journal) : f.of \in {All, journal[i].object}}
\* Bug: the newest record that arrived is handed out though earlier ones wait.
NextOfNewest(f) == CHOOSE i \in Ahead(f) : \A j \in Ahead(f) : i >= j
NextOf(f) == CHOOSE i \in Ahead(f) : \A j \in Ahead(f) : i <= j

\* serveFollow hands out the next record: skipped where the gate refuses it,
\* written otherwise, and the feed of one object ends with its delete record.
LastLine(f, r) == f.of # All /\ Ends(r)

Serve(c) ==
    LET f == feeds[c]
        i == NextOf(f)
        o == journal[i].object
        written == f.of = All => allows(f, o) = "allowed"
        next == [f EXCEPT !.pos = i, !.reads = Held(f, o), !.sent = IF written THEN @ \cup {i} ELSE @]
    IN /\ f.at = "open"
       /\ Ahead(f) # {}
       /\ IF LastLine(f, journal[i])
          THEN /\ feeds' = [feeds EXCEPT ![c] = Over([next EXCEPT !.last = "ended"])]
               /\ following' = following - 1
          ELSE /\ feeds' = [feeds EXCEPT ![c] = next]
               /\ UNCHANGED following
       /\ UNCHANGED <<journal, gone, allowed, draining, expired, changes>>

\* A record whose question the authorizer does not answer ends the feed of
\* every object with an error line, and so does a subscription that fell
\* behind.
Fail(c) ==
    /\ feeds[c].at = "open"
    /\ feeds[c].of = All
    /\ Ahead(feeds[c]) # {}
    /\ changes < MaxChanges
    /\ changes' = changes + 1
    /\ End(c, "error")
    /\ UNCHANGED <<journal, gone, allowed, draining, expired>>

\* Next returns the context's error: a drain ends the feed without a line, an
\* expired bearer with one.
Stops(c) == Ended(c)

Stop(c) ==
    /\ feeds[c].at = "open"
    /\ Stops(c)
    /\ End(c, IF draining THEN "silent" ELSE "error")
    /\ UNCHANGED <<journal, gone, allowed, draining, expired, changes>>

\* writeLine fails or the request's context ends: the caller went away.
Hangup(c) ==
    /\ feeds[c].at = "open"
    /\ changes < MaxChanges
    /\ changes' = changes + 1
    /\ End(c, "silent")
    /\ UNCHANGED <<journal, gone, allowed, draining, expired>>

FeedNext ==
    \/ \E o \in Objects : emit(o) \/ Delete(o) \/ Policy(o)
    \/ Drain
    \/ Expire
    \/ \E c \in Clients : \/ \E of \in Objects \cup {All} : Enter(c, of)
                          \/ followFeed(c) \/ Follow(c) \/ Serve(c) \/ Fail(c) \/ Stop(c) \/ Hangup(c)

\* A request's goroutine runs; its context's timers and the subscription wake
\* it.
FeedFairness ==
  /\ \A c \in Clients : WF_feedVars(followFeed(c) \/ Follow(c) \/ Serve(c) \/ Stop(c))

FeedSpec == FeedInit /\ [][FeedNext]_feedVars /\ FeedFairness

--------------------------------------------------------------------------
\* The state has its shape, and handler.following counts exactly the requests
\* between followFeed's Add(1) and its Add(-1): no return of the handler leaks
\* a place or gives one back twice.
FeedTypeOK ==
    /\ \A i \in 1..Len(journal) : journal[i] \in [object : Objects, ends : BOOLEAN]
    /\ gone \subseteq Objects /\ allowed \subseteq Objects
    /\ \A c \in Clients : feeds[c].pos \in 0..Len(journal) /\ feeds[c].reads \in [Objects -> Verdicts]
    /\ following = Cardinality(InProgress)

\* However requests race for the last place, the feeds that are served stay
\* within Options.FollowLimit: the place is taken before it is compared.
FeedsWithinLimit == Cardinality({c \in Clients : feeds[c].at \in {"decided", "open"}}) <= FollowLimit

\* A record reaches a feed of every object only if the authorizer allowed its
\* object's read at some moment of the feed's life (recordGate.allows), though
\* the decision is held and the policy moves on.
SentWasReadable == \A c \in Clients : \A i \in feeds[c].sent : journal[i].object \in feeds[c].seen

\* A feed of one object has written every record of the object from where it
\* began to where it is, and a feed that is over because the object ended wrote
\* the delete record last: no record a late operation wrote after it
\* (handler.emit outlives the request) is sent.
WholeUpToTheDelete ==
    \A c \in Clients :
        LET f == feeds[c]
            due == {i \in RecordsOf(f.of) : i > f.from /\ i <= f.pos}
        IN f.of # All /\ f.at \in {"open", "over"} /\ f.pos > 0 =>
              /\ f.sent = due
              /\ \A i \in f.sent : Ends(journal[i]) => f.last = "ended" /\ \A j \in f.sent : j <= i

\* A feed that is open when the server drains is over in the end, whatever
\* records keep arriving.
DrainEnds == \A c \in Clients : (draining /\ feeds[c].at = "open") ~> feeds[c].at = "over"

\* A feed of one object that began before the object's delete record ends: the
\* follower is handed the record and serveFollow returns on it.
EndsWithItsObject ==
    \A c \in Clients :
        (/\ feeds[c].at = "open" /\ feeds[c].of \in gone
         /\ \E i \in RecordsOf(feeds[c].of) : i > feeds[c].from /\ Ends(journal[i]))
            ~> feeds[c].at = "over"

=============================================================================
