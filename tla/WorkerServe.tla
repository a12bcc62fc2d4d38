---------------------------- MODULE WorkerServe ----------------------------
\* A worker's side of its stream: what it reports, and the gate between the
\* stream and its driver.
EXTENDS Integers, Sequences, FiniteSets, Naturals

-----------------------------------------------------------------------------
(***************************************************************************)
(* What the control plane knows of the sandboxes a worker runs.  The       *)
(* worker's server (runtime/remote/serve.go, execute.go watch) runs        *)
(* operations beside its periodic report and its driver's watch, all of    *)
(* them sending on one ordered stream; the hub (hub.go) applies what       *)
(* arrives and the remote driver (remote.go) answers reads from it.  The   *)
(* gate before the driver is worker/policy.go.                             *)
(*                                                                         *)
(* One sandbox is followed.  Its state is a number, a new one for every    *)
(* change the driver makes, 0 while there is none.                         *)
(***************************************************************************)

CONSTANTS
    Ops,         \* operations callers issue that change the sandbox
    WatchQueue,  \* events a consumer may leave undelivered (256 in the code)
    MaxChanges,  \* bound: changes nobody asked for (an exit, an eviction)
    MaxDrops,    \* bound: connections lost, and driver watches closed
    MaxFrames    \* bound: frames under way

VARIABLES
    drv,       \* the sandbox's state in the driver
    asked,        \* the operations, on both sides
    report,    \* the worker's periodic report, between its List and its Send
    watched,   \* the driver's channel of events, and whether it is open
    conn, up,  \* the stream: up or not, and the frames the worker sent
    observed,  \* environment.observed, None before a first report
    creates,   \* Hub.creates: operations whose held frame is passed on
    listing,   \* the List a relist asked for
    queue,     \* a subscription's queue
    know,      \* what that consumer last read
    changes, drops, closes,
    newest,    \* history: the newest state the hub applied
    late       \* history: a state older than that one was applied after it

reportsVars == <<drv, asked, report, watched, conn, up, observed, creates, listing, queue, know, changes, drops, closes, newest, late>>
worker == <<drv, asked, report, watched>>
history == <<newest, late>>
hub == <<observed, creates, listing, queue, know, history>>

None == -1
Relist == -2      \* a relist in a consumer's queue
Idle == [at |-> "none", wrote |-> 0, snap |-> None, result |-> "none", held |-> FALSE]

ReportsInit ==
    /\ drv = 0 /\ asked = [o \in Ops |-> Idle] /\ report = None
    /\ watched = [open |-> FALSE, q |-> <<>>, gap |-> FALSE]
    /\ conn = "down" /\ up = <<>> /\ observed = None /\ creates = {}
    /\ listing = [at |-> "idle", again |-> FALSE, snap |-> None]
    /\ queue = <<>> /\ know = None
    /\ changes = 0 /\ drops = 0 /\ closes = 0 /\ newest = None /\ late = FALSE

Frame(k, v, o) == [kind |-> k, v |-> v, o |-> o]
Send(f) == conn = "up" /\ Len(up) < MaxFrames /\ up' = Append(up, f)
OpAt(o, s) == asked[o].at = s
Move(o, s) == asked' = [asked EXCEPT ![o].at = s]

\* The driver's state moves on, and an open watch says so.
Change(v) ==
    /\ drv' = v
    /\ watched' = IF watched.open THEN [watched EXCEPT !.q = Append(@, v)] ELSE watched

-----------------------------------------------------------------------------
(* The worker.                                                             *)

\* Server.Run: the hello, and the first report.  The hub answers the hello of a
\* watching driver with its Watch, which closes what an earlier one left.
Connect ==
    /\ conn = "down" /\ \A o \in Ops : asked[o].at \in {"none", "returned"}
    /\ conn' = "up" /\ up' = <<Frame("state", drv, "none")>>
    /\ watched' = [open |-> TRUE, q |-> <<>>, gap |-> FALSE]
    /\ UNCHANGED <<drv, asked, report, hub, changes, drops, closes>>

\* beat: a report's List, and its Send.
Lists == conn = "up" /\ report = None /\ report' = drv
         /\ UNCHANGED <<drv, asked, watched, conn, up, hub, changes, drops, closes>>
Reports == report # None /\ Send(Frame("state", report, "none")) /\ report' = None
           /\ UNCHANGED <<drv, asked, watched, conn, hub, changes, drops, closes>>

\* gate.admit: built-in checks and the policy.  A create the policy has not
\* answered is held, once; past the admit timeout it is refused as by a verdict.
Hold(o) ==
    /\ OpAt(o, "asking") /\ ~asked[o].held
    /\ Send(Frame("held", 0, o))
    /\ asked' = [asked EXCEPT ![o].held = TRUE]
    /\ UNCHANGED <<drv, report, watched, conn, hub, changes, drops, closes>>

Admit(o) ==
    /\ OpAt(o, "asking")
    /\ \/ Move(o, "admitted")
       \/ asked' = [asked EXCEPT ![o].at = "executed", ![o].result = "refused"]
    /\ UNCHANGED <<drv, report, watched, conn, up, hub, changes, drops, closes>>

\* Execute: the driver does it, or fails having changed nothing.
Execute(o) ==
    /\ OpAt(o, "admitted")
    /\ \/ /\ Change(drv + 1)
          /\ asked' = [asked EXCEPT ![o].at = "executed", ![o].wrote = drv + 1, ![o].result = "ok"]
       \/ /\ asked' = [asked EXCEPT ![o].at = "executed", ![o].result = "failed"]
          /\ UNCHANGED <<drv, watched>>
    /\ UNCHANGED <<report, conn, up, hub, changes, drops, closes>>


\* start, after Execute: the operation's own report, List then Send, then its answer.
Answer(o) ==
    /\ \/ OpAt(o, "executed") /\ asked' = [asked EXCEPT ![o].at = "listed", ![o].snap = drv] /\ UNCHANGED up
       \/ OpAt(o, "listed") /\ Send(Frame("state", asked[o].snap, "none")) /\ Move(o, "reported")
       \/ OpAt(o, "reported") /\ Send(Frame("answer", 0, o)) /\ Move(o, "answered")
    /\ UNCHANGED <<drv, report, watched, conn, hub, changes, drops, closes>>

\* The sandbox changes by itself: its process exits, its node goes.
Exits ==
    /\ changes < MaxChanges /\ drv > 0 /\ changes' = changes + 1 /\ Change(drv + 1)
    /\ UNCHANGED <<asked, report, conn, up, hub, drops, closes>>

\* watch: one event relayed; a channel the driver closed is watched again, and
\* then a relist is sent.
Relay ==
    /\ \/ /\ watched.open /\ watched.q # <<>>
          /\ Send(Frame("event", Head(watched.q), "none"))
          /\ watched' = [watched EXCEPT !.q = Tail(@)]
       \/ /\ ~watched.open /\ watched.q = <<>> /\ ~watched.gap
          /\ watched' = [watched EXCEPT !.open = TRUE, !.gap = TRUE] /\ conn = "up" /\ UNCHANGED up
       \/ /\ watched.gap
          /\ Send(Frame("relist", 0, "none")) /\ watched' = [watched EXCEPT !.gap = FALSE]
    /\ UNCHANGED <<drv, asked, report, conn, hub, changes, drops, closes>>

\* The driver closes its channel; what it had not handed over is lost.
WatchCloses ==
    /\ watched.open /\ ~watched.gap /\ drops + closes < MaxDrops /\ closes' = closes + 1
    /\ watched' = [open |-> FALSE, q |-> <<>>, gap |-> FALSE]
    /\ UNCHANGED <<drv, asked, report, conn, up, hub, changes, drops>>

\* The List of a relist, run by the worker as an operation: it reads and answers.
AnswersList ==
    /\ listing.at = "asked" /\ Send(Frame("listed", drv, "none"))
    /\ listing' = [listing EXCEPT !.at = "sent"]
    /\ UNCHANGED <<worker, conn, observed, creates, queue, know, history, changes, drops, closes>>

-----------------------------------------------------------------------------
(* The hub.                                                                *)

\* transport.Open on a live link: the row, the create's record, the frame down.
Open(o) ==
    /\ OpAt(o, "none") /\ conn = "up" /\ observed # None
    /\ Move(o, "asking") /\ creates' = creates \cup {o}
    /\ UNCHANGED <<drv, report, watched, conn, up, observed, listing, queue, know, history, changes, drops, closes>>

\* subscription.push
Push(q, e) == IF Len(q) >= WatchQueue THEN <<Relist>> ELSE Append(q, e)

\* observe with Relist set: what arrives replaces what is held, whatever its age.
Observe(v) ==
    /\ observed' = v
    /\ newest' = IF v > newest THEN v ELSE newest
    /\ late' = (late \/ v < newest)

\* The read pump takes the next frame.
Receive ==
    /\ conn = "up" /\ up # <<>> /\ up' = Tail(up)
    /\ LET f == Head(up) IN
       \/ /\ f.kind = "state" /\ Observe(f.v)
          /\ UNCHANGED <<asked, creates, listing, queue>>
       \/ /\ f.kind = "event"                                  \* Hub.event
          /\ Observe(f.v) /\ queue' = Push(queue, f.v)
          /\ UNCHANGED <<asked, creates, listing>>
       \/ /\ f.kind = "relist"                                 \* connection.relist
          /\ listing' = IF listing.at = "idle" THEN [listing EXCEPT !.at = "asked"]
                        ELSE [listing EXCEPT !.again = TRUE]
          /\ UNCHANGED <<asked, creates, queue, observed, history>>
       \/ /\ f.kind = "listed" /\ listing' = [listing EXCEPT !.at = "got", !.snap = f.v]
          /\ UNCHANGED <<asked, creates, queue, observed, history>>
       \/ /\ f.kind = "held"                                   \* Hub.held
          /\ UNCHANGED <<asked, creates, queue, observed, listing, history>>
       \/ /\ f.kind = "answer" /\ asked' = [asked EXCEPT ![f.o].at = "returned", ![f.o].snap = None]        \* hubStream.Result
          /\ creates' = creates \ {f.o}
          /\ UNCHANGED <<queue, observed, listing, history>>
    /\ UNCHANGED <<drv, report, watched, conn, know, changes, drops, closes>>

\* list: the answer replaces what is held, the consumers are told, and a relist
\* that arrived meanwhile asks again.
Listed ==
    /\ listing.at = "got"
    /\ Observe(listing.snap) /\ queue' = Push(queue, Relist)
    /\ listing' = [at |-> IF listing.again THEN "asked" ELSE "idle", again |-> FALSE, snap |-> None]
    /\ UNCHANGED <<worker, conn, up, creates, know, changes, drops, closes>>

\* subscription.run: the consumer takes an event, or lists on a relist.
Consume ==
    /\ queue # <<>> /\ queue' = Tail(queue)
    /\ know' = IF Head(queue) = Relist THEN observed ELSE Head(queue)
    /\ UNCHANGED <<worker, conn, up, observed, creates, listing, history, changes, drops, closes>>

\* The stream ends: its frames are lost, the worker cancels what runs (a driver
\* call may have happened), every caller reads an error, the Watch ends and the
\* consumers are told to read again.
Drop ==
    /\ conn = "up" /\ drops + closes < MaxDrops /\ drops' = drops + 1
    /\ conn' = "down" /\ up' = <<>> /\ report' = None
    /\ \/ UNCHANGED drv
       \/ (\E o \in Ops : asked[o].at \in {"asking", "admitted"}) /\ drv' = drv + 1
    /\ asked' = [o \in Ops |-> IF asked[o].at \in {"none", "returned"} THEN asked[o]
                            ELSE [asked[o] EXCEPT !.at = "returned", !.result = "lost", !.snap = None]]
    /\ watched' = [open |-> FALSE, q |-> <<>>, gap |-> FALSE]
    /\ listing' = [at |-> "idle", again |-> FALSE, snap |-> None]
    /\ creates' = {} /\ queue' = Push(queue, Relist)
    /\ UNCHANGED <<observed, know, history, changes, closes>>

ReportsNext ==
    \/ Connect \/ Lists \/ Reports \/ Exits \/ Relay \/ WatchCloses \/ AnswersList
    \/ Receive \/ Listed \/ Consume \/ Drop
    \/ \E o \in Ops : Hold(o) \/ Admit(o) \/ Execute(o) \/ Answer(o) \/ Open(o)

\* Goroutines that run by themselves; the worker reconnects.  Senders that wait on the
\* link's full queue are served in the order they came (a Go channel's), so one is
\* not overtaken for ever.
ReportsFairness ==
    /\ WF_reportsVars(Connect) /\ WF_reportsVars(Lists) /\ WF_reportsVars(Reports) /\ SF_reportsVars(Relay) /\ SF_reportsVars(AnswersList)
    /\ WF_reportsVars(Receive) /\ WF_reportsVars(Listed) /\ WF_reportsVars(Consume)
    /\ \A o \in Ops : WF_reportsVars(Admit(o)) /\ WF_reportsVars(Execute(o)) /\ SF_reportsVars(Answer(o))

ReportsSpec == ReportsInit /\ [][ReportsNext]_reportsVars /\ ReportsFairness

-----------------------------------------------------------------------------
\* The queue of watched changes and the frames under way stay within their
\* bounds (watchQueue).
ReportsTypeOK ==
    /\ drv \in Nat /\ Len(up) <= MaxFrames /\ Len(queue) <= WatchQueue
    /\ observed \in Nat \cup {None} /\ creates \subseteq Ops
    /\ listing.at \in {"idle", "asked", "sent", "got"}

\* start's order (serve.go:184): when a caller's operation answers, the control plane
\* has applied a state at least as new as what the operation did, whatever reports,
\* events and relists crossed it.  A List taken before the operation may be applied
\* after that and hide it for a while (hub.go:831): ViewCatchesUp is about that.
ReadsOwnWrite ==
    \A o \in Ops : OpAt(o, "returned") /\ asked[o].result = "ok" => newest >= asked[o].wrote

\* A report is sent again and again: once the driver is still, the control plane's
\* view is the driver's, whatever raced before (hub.go:831).
ViewCatchesUp == <>[](conn = "up" => observed = drv)

\* Every operation a caller opened returns to it, with an answer or the loss of the stream.
CallerAnswered == \A o \in Ops : OpAt(o, "asking") ~> OpAt(o, "returned")

\* A consumer that lags, or whose driver's watch closed, reads the driver's state once
\* it is still, while the stream has not been lost and no older List was applied after
\* a newer state: the reports that mend the view tell no consumer.
ConsumerCatchesUp == <>[](conn = "up" /\ ~late /\ drops = 0 => know \in {drv, None})

-----------------------------------------------------------------------------
(***************************************************************************)
(* A worker's gate between the stream and the driver (worker/policy.go):   *)
(* the built-in checks, the host's policy, and the record of what was      *)
(* answered.  Each operation runs beside the others (Server.start), so a   *)
(* question to the host, its deadline, the caller going away and a delete  *)
(* of the sandbox meet in any order.  One sandbox; module Approvals is a   *)
(* device's HostPolicy, and WorkerReports what the answers carry.          *)
(***************************************************************************)

CONSTANTS
    Operations,  \* the operations the control plane sends
    MaxFaults    \* bound: callers that go away, drivers that fail

Kinds == {"create", "exec", "write", "delete"}
Nothing == "none"

VARIABLES
    ops,     \* one record for each operation
    held,    \* the driver holds the sandbox
    labels,  \* gate.labels has the sandbox
    policed, \* the host has a policy (gate.policy is not nil)
    faults

gateVars == <<ops, held, labels, policed, faults>>

\* An operation: where it is, its kind, the host's answer waiting in the
\* channel, whether the question outlasted heldAfter and the timeout, whether
\* the caller has gone, the answer, what the driver did, the record, and, for
\* the properties, whether the sandbox was deleted while it ran.
Unasked == [at |-> "idle", kind |-> Nothing, verdict |-> Nothing, held |-> FALSE, late |-> FALSE, gone |-> FALSE,
         answer |-> Nothing, ran |-> FALSE, outcome |-> Nothing, labelled |-> FALSE, crossed |-> FALSE]

Answers == {Nothing, "ok", "refused", "timeout", "unknown", "ended", "failed"}

GateInit ==
    /\ ops = [o \in Operations |-> Unasked]
    /\ held \in BOOLEAN
    /\ labels = FALSE
    /\ policed \in BOOLEAN
    /\ faults = 0

At(o, s) == ops[o].at = s
To(o, op) == ops' = [ops EXCEPT ![o] = op]
Answered(o, a) == To(o, [ops[o] EXCEPT !.at = "answered", !.answer = a, !.verdict = Nothing])

\* An operation arrives and runs beside the read pump.  The control plane
\* creates a sandbox once and never again under the id it deleted.
Start(o) ==
    /\ At(o, "idle")
    /\ \E k \in Kinds :
          /\ k = "create" => ~held /\ \A c \in Operations : ops[c].kind \notin {"create", "delete"}
          /\ To(o, [Unasked EXCEPT !.at = "admit", !.kind = k])
    /\ UNCHANGED <<held, labels, policed, faults>>

\* admit, on a create: the built-in checks refuse it, or its labels are kept
\* and the policy, if there is one, is asked beside a deadline.
checkCreate(o) ==
    /\ At(o, "admit")
    /\ ops[o].kind = "create"
    /\ \/ /\ Answered(o, "refused")
          /\ UNCHANGED labels
       \/ /\ To(o, [ops[o] EXCEPT !.at = IF policed THEN "asking" ELSE "run"])
          /\ labels' = TRUE
    /\ UNCHANGED <<held, policed, faults>>

\* admit, on any other operation: the driver is asked for the sandbox first,
\* and the error of a read that fails is the operation's.
Inspect(o) == held

admit(o) ==
    /\ At(o, "admit")
    /\ ops[o].kind # "create"
    /\ \/ /\ Inspect(o)
          /\ To(o, [ops[o] EXCEPT !.at = "checking"])
          /\ labels' = TRUE
          /\ UNCHANGED faults
       \/ /\ ~Inspect(o)
          /\ Answered(o, "unknown")
          /\ UNCHANGED <<labels, faults>>
       \/ /\ faults < MaxFaults \/ ops[o].gone
          /\ faults' = IF ops[o].gone THEN faults ELSE faults + 1
          /\ Answered(o, "failed")
          /\ UNCHANGED labels
    /\ UNCHANGED <<held, policed>>

\* checkWrite and the policy's Check: a write outside what the host grants, or
\* anything the host's policy says no to.
Check(o) ==
    /\ At(o, "checking")
    /\ \/ To(o, [ops[o] EXCEPT !.at = "run"])
       \/ (ops[o].kind = "write" \/ policed) /\ Answered(o, "refused")
    /\ UNCHANGED <<held, labels, policed, faults>>

--------------------------------------------------------------------------
(* ask: the policy's goroutine, the two timers and the caller's context.   *)

\* HostPolicy.Admit returns: its answer waits in the channel.
HostAnswers(o) ==
    /\ At(o, "asking")
    /\ ops[o].verdict = Nothing
    /\ \E v \in {"allow", "refuse"} : To(o, [ops[o] EXCEPT !.verdict = v])
    /\ UNCHANGED <<held, labels, policed, faults>>

\* heldAfter passes, then the admit timeout: each timer's channel is ready.
\* The held frame is sent as the first is read.
HoldQuestion(o) ==
    /\ At(o, "asking")
    /\ ~ops[o].held
    /\ To(o, [ops[o] EXCEPT !.held = TRUE])
    /\ UNCHANGED <<held, labels, policed, faults>>

Timeout(o) ==
    /\ At(o, "asking")
    /\ ops[o].held /\ ~ops[o].late
    /\ To(o, [ops[o] EXCEPT !.late = TRUE])
    /\ UNCHANGED <<held, labels, policed, faults>>

\* The caller goes away: the operation's context ends.
Leave(o) ==
    /\ ops[o].at \in {"admit", "asking", "checking", "run"}
    /\ ~ops[o].gone
    /\ faults < MaxFaults
    /\ faults' = faults + 1
    /\ To(o, [ops[o] EXCEPT !.gone = TRUE])
    /\ UNCHANGED <<held, labels, policed>>

\* ask's select takes any case that is ready.
Late(o) == {"timeout"}

\* What each ready case of the select answers.
Ready(o) ==
    LET op == ops[o]
    IN (IF op.verdict = Nothing THEN {} ELSE {op.verdict})
       \cup (IF op.late THEN Late(o) ELSE {})
       \cup (IF op.gone THEN {"ended"} ELSE {})

ask(o) ==
    /\ At(o, "asking")
    /\ \E c \in Ready(o) :
          IF c = "allow" THEN To(o, [ops[o] EXCEPT !.at = "run"])
          ELSE Answered(o, IF c = "refuse" THEN "refused" ELSE c)
    /\ UNCHANGED <<held, labels, policed, faults>>

--------------------------------------------------------------------------
(* The driver's call, the answer and the record.                           *)

\* The delete takes the sandbox from under every operation that is running.
Crossed(o, c) == IF c # o /\ ops[c].at \notin {"idle", "over"} THEN [ops[c] EXCEPT !.crossed = TRUE] ELSE ops[c]

\* Execute: the driver's own call, which finds the sandbox or does not.
Executes(o) ==
    /\ At(o, "run")
    /\ LET done == [ops[o] EXCEPT !.at = "answered", !.answer = "ok", !.ran = TRUE]
       IN \/ /\ ops[o].kind = "create"
             /\ held' = TRUE
             /\ To(o, done)
          \/ /\ ops[o].kind = "delete"
             /\ held' = FALSE
             /\ ops' = [c \in Operations |-> IF c = o THEN done ELSE Crossed(o, c)]
          \/ /\ ops[o].kind \in {"exec", "write"}
             /\ UNCHANGED held
             /\ To(o, [done EXCEPT !.answer = IF held THEN "ok" ELSE "failed"])
    /\ UNCHANGED <<labels, policed, faults>>

\* The driver fails, or its call ends with its caller.
Fails(o) ==
    /\ At(o, "run")
    /\ faults < MaxFaults \/ ops[o].gone
    /\ faults' = IF ops[o].gone THEN faults ELSE faults + 1
    /\ Answered(o, "failed")
    /\ UNCHANGED <<held, labels, policed>>

\* refusal: which answers are the host's and not the driver's.
refusal(a) == a \in {"refused", "timeout", "unknown"}

\* answered: one record, with the labels kept of the sandbox; the delete that
\* went through forgets them.
Forgets(op) == op.kind = "delete" /\ op.answer = "ok"

answered(o) ==
    LET op == ops[o]
    IN /\ At(o, "answered")
       /\ To(o, [op EXCEPT !.at = "over",
                           !.outcome = IF op.answer = "ok" THEN "ok" ELSE IF refusal(op.answer) THEN "refused" ELSE "failed",
                           !.labelled = labels])
       /\ labels' = (labels /\ ~Forgets(op))
       /\ UNCHANGED <<held, policed, faults>>

Runs(o) == checkCreate(o) \/ admit(o) \/ Check(o) \/ ask(o) \/ Executes(o) \/ answered(o)

GateNext == \E o \in Operations : Start(o) \/ Runs(o) \/ HostAnswers(o) \/ HoldQuestion(o) \/ Timeout(o) \/ Leave(o) \/ Fails(o)

\* The operations' goroutines and the timers run; the host need not answer.
GateFairness ==
  /\ \A o \in Operations : WF_gateVars(Runs(o)) /\ WF_gateVars(HoldQuestion(o)) /\ WF_gateVars(Timeout(o))

GateSpec == GateInit /\ [][GateNext]_gateVars /\ GateFairness

--------------------------------------------------------------------------
\* The state has its shape, and an operation's answer and its driver call go
\* together: nothing the gate answered for the host reached the driver, and an
\* operation past the gate's own read is on a sandbox the driver holds, unless
\* a delete crossed it.
GateTypeOK ==
    /\ held \in BOOLEAN /\ labels \in BOOLEAN
    /\ \A o \in Operations : /\ ops[o].answer \in Answers
                             /\ ops[o].answer \in {"refused", "timeout", "unknown", "ended"} => ~ops[o].ran
                             /\ At(o, "checking") => held \/ ops[o].crossed

\* A create reaches the driver of a host with a policy only if the host allowed it, however late the
\* answer: the deadline and the caller going away end the question with a
\* refusal and an answer that arrives after them is read by nobody.
RunsWhatTheHostAllowed ==
    \A o \in Operations : policed /\ ops[o].kind = "create" /\ (At(o, "run") \/ ops[o].ran) => ops[o].verdict # "refuse" /\ ops[o].verdict # Nothing

\* The host's own log tells its no from the driver's: a record says refused
\* exactly when the driver was not asked and the operation did not simply end.
RecordTellsWho ==
    \A o \in Operations : At(o, "over") =>
        (ops[o].outcome = "refused") = (~ops[o].ran /\ ops[o].answer \in {"refused", "timeout", "unknown"})

\* A create the policy never answers is answered in the end, after the caller
\* was told that the host is asking (heldAfter, the admit timeout).
QuestionEnds == \A o \in Operations : At(o, "asking") ~> ~At(o, "asking")

=============================================================================
