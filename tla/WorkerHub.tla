----------------------------- MODULE WorkerHub -----------------------------
(***************************************************************************)
(* Who serves a worker environment.  The hub's registrations and streams   *)
(* of one environment (runtime/remote/hub.go), the two routes that reach   *)
(* it (internal/api/workers.go), the acts that end a registration (a       *)
(* revoked key, a deleted environment, an authorizer that now refuses) and *)
(* the worker's own loop on its machine (worker/worker.go), which answers  *)
(* each end by reconnecting or by stopping and ending its sandboxes.       *)
(*                                                                         *)
(* A registration is a number in the order the hub minted it; its stream   *)
(* is part of it, because a worker registers anew for every stream it      *)
(* opens.  The hub and a worker learn of a lost connection separately.     *)
(***************************************************************************)
EXTENDS Integers, FiniteSets

CONSTANTS
    Workers,       \* worker processes
    Sites,         \* instances: the key, host facts and driver of each worker
    Limits,        \* values spec.workers.max is given
    KeepOnExit,    \* worker.Options.KeepOnExit
    MaxReg,        \* bound: registrations the hub mints
    MaxBreaks,     \* bound: connections the network loses, pending windows that pass, drivers that fail
    MaxEdits       \* bound: revocations, deletes, refusals, edits and stops

VARIABLES
    site,      \* the instance: what each worker registers with
    obj,       \* the Environment: whether it is held, and its spec.workers.max
    allow,     \* what the authorizer answers on environment.serve
    revoked,   \* the revocation list
    acts,      \* handlers between two calls: a revoke or a delete not at the hub yet
    hub,       \* the hub's environment: its driver and its maxWorkers
    reg, n,    \* its registrations, and how many were minted
    unopened,  \* Hub.unopened: why a registration ended before its stream opened
    proc,      \* the worker processes
    held,      \* what each worker's driver holds
    breaks, edits,
    cut,       \* history: keys whose revocation has reached the hub
    ended,     \* history: why a registration ended before its stream, inside the pending window
    lowered    \* history: the limit was lowered

vars == <<site, obj, allow, revoked, acts, hub, reg, n, unopened, proc, held, breaks, edits, cut, ended, lowered>>
history == <<cut, ended, lowered>>
plane == <<site, obj, allow, revoked, acts>>

Regs == 0..MaxReg        \* 0 names no registration
KeyOf(p) == site[p].key
Keys == {s[p].key : s \in Sites, p \in Workers}
Ends == {"serve_refused", "key_revoked"}          \* Refusal.ends
fatal == Ends \cup {"worker_replaced", "worker_limit", "environment_mismatch"}
Blank == [by |-> "none", kept |-> FALSE, fresh |-> FALSE, ended |-> FALSE, streamed |-> FALSE,
          link |-> FALSE, conn |-> "none", missed |-> FALSE, why |-> "none"]
NotEnded == [reason |-> "none", old |-> FALSE]

Init ==
    /\ site \in Sites /\ obj \in [live : {TRUE}, max : Limits] /\ allow = TRUE
    /\ revoked = {} /\ acts = {} /\ cut = {}
    /\ hub = [driver |-> "none", max |-> 0]
    /\ reg = [r \in Regs |-> Blank] /\ n = 0
    /\ unopened = [r \in Regs |-> NotEnded] /\ ended = [r \in Regs |-> "none"]
    /\ proc = [p \in Workers |-> [pc |-> "idle", reg |-> 0, max |-> 0, why |-> "none"]]
    /\ held = [p \in Workers |-> "running"]
    /\ breaks = 0 /\ edits = 0 /\ lowered = FALSE

-----------------------------------------------------------------------------
(* The hub, under its lock.                                                *)

\* hub.go liveWorkersLocked.  A stream's read deadline is inside the offline
\* window, so one that holds a link has a recent heartbeat.
Live == {r \in Regs : /\ reg[r].kept
                      /\ reg[r].link \/ (reg[r].fresh /\ ~reg[r].ended)}

\* endBeforeStreamLocked, for those of a set of registrations it applies to:
\* records past the pending window go, and each one's reason waits for its hello.
EndBeforeStream(S, reason) ==
    unopened' = [r \in Regs |-> IF r \in S THEN [reason |-> reason, old |-> FALSE]
                                ELSE IF S # {} /\ unopened[r].old THEN NotEnded
                                ELSE unopened[r]]

Unstreamed(S) == {r \in S : ~reg[r].link /\ ~reg[r].streamed /\ ~reg[r].ended}
Noted(S, reason) == ended' = [r \in Regs |-> IF r \in Unstreamed(S) THEN reason ELSE ended[r]]

\* A registration whose record the hub drops, and its stream shut if it holds one.
Dropped(w, reason) ==
    [w EXCEPT !.kept = FALSE, !.link = FALSE, !.fresh = FALSE, !.ended = FALSE, !.streamed = FALSE,
              !.conn = IF w.link /\ w.conn = "bound" THEN "shut" ELSE @,
              !.why = IF w.link /\ w.conn = "bound" THEN reason ELSE @]

\* The registrations a new one of worker p meets at the limit.
SameKey(p) == {r \in Live : KeyOf(reg[r].by) = KeyOf(p)}
Replaces(p, r) == site[reg[r].by].host = site[p].host       \* sameHost

Refuse(p, why) == proc' = [proc EXCEPT ![p].pc = "refused", ![p].why = why]

\* registerLocked once admitted: `out` is the registration it replaces, if any.
Mint(p, out) ==
    /\ n < MaxReg
    /\ n' = n + 1
    /\ hub' = [driver |-> site[p].driver, max |-> proc[p].max]
    /\ reg' = [r \in Regs |-> IF r = n + 1
                              THEN [Blank EXCEPT !.by = p, !.kept = TRUE, !.fresh = TRUE]
                              ELSE IF r \in out THEN Dropped(reg[r], "worker_replaced") ELSE reg[r]]
    /\ EndBeforeStream(Unstreamed(out), "worker_replaced") /\ Noted(out, "worker_replaced")
    /\ proc' = [proc EXCEPT ![p].pc = "dial", ![p].reg = n + 1]

\* RegisterWith: registerLocked and admitLocked in one hold of the lock, the
\* answer 201, or the refusal the worker stops on.  Ids are random, so which of
\* several registrations of one key comes first is a choice.
RegisterWith(p) ==
    /\ proc[p].pc = "admit"
    /\ \/ /\ hub.driver \notin {"none", site[p].driver}
          /\ Refuse(p, "environment_mismatch")
          /\ UNCHANGED <<hub, reg, n, unopened, ended>>
       \/ /\ hub.driver \in {"none", site[p].driver}
          /\ \/ /\ proc[p].max = 0 \/ Cardinality(Live) < proc[p].max
                /\ Mint(p, {})
             \/ /\ proc[p].max > 0 /\ Cardinality(Live) >= proc[p].max
                /\ \/ \E r \in SameKey(p) : Replaces(p, r) /\ Mint(p, {r})
                   \/ /\ SameKey(p) = {} \/ \E r \in SameKey(p) : ~Replaces(p, r)
                      /\ Refuse(p, "worker_limit")
                      /\ hub' = [hub EXCEPT !.max = proc[p].max]
                      /\ UNCHANGED <<reg, n, unopened, ended>>
    /\ UNCHANGED <<plane, held, breaks, edits, cut, lowered>>

\* The streams of other live registrations at a bind.
Streams(r) == {o \in Live \ {r} : reg[o].link}
OverLimit(r) == hub.max > 0 /\ Cardinality(Streams(r)) >= hub.max

Close(r, why) == [reg EXCEPT ![r].conn = "shut", ![r].why = why, ![r].missed = FALSE]

\* bind, at the stream's hello.
Bind(r) ==
    /\ reg[r].conn = "hello"
    /\ \/ /\ unopened[r].reason # "none"                       \* told why, once
          /\ reg' = Close(r, unopened[r].reason)
          /\ unopened' = [unopened EXCEPT ![r] = NotEnded]
       \/ /\ unopened[r].reason = "none" /\ ~reg[r].kept
          /\ reg' = Close(r, "unknown_worker") /\ UNCHANGED unopened
       \/ /\ unopened[r].reason = "none" /\ reg[r].kept
          /\ IF OverLimit(r)
             THEN reg' = [Close(r, "worker_limit") EXCEPT ![r].ended = TRUE]
             ELSE reg' = [reg EXCEPT ![r].conn = "bound", ![r].link = TRUE, ![r].streamed = TRUE]
          /\ UNCHANGED unopened
    /\ UNCHANGED <<plane, hub, n, proc, held, breaks, edits, history>>

\* connection.release, once the stream's Run has returned on the hub's side.
Release(r) ==
    /\ reg[r].link /\ reg[r].conn \in {"shut", "broken", "closed"}
    /\ reg' = [reg EXCEPT ![r].link = FALSE]
    /\ UNCHANGED <<plane, hub, n, unopened, proc, held, breaks, edits, history>>

\* decideServe: the environment is held and the authorizer allows the worker.
MayServe(r) == obj.live /\ allow

\* One turn of rechecks: a refusal closes the stream, and so does a second
\* question in a row that got no decision.
Recheck(r) ==
    /\ reg[r].conn = "bound"
    /\ \/ MayServe(r) /\ reg' = [reg EXCEPT ![r].missed = FALSE]
       \/ ~MayServe(r) /\ reg' = Close(r, "serve_refused")
       \/ obj.live /\ ~reg[r].missed /\ reg' = [reg EXCEPT ![r].missed = TRUE]
       \/ obj.live /\ reg[r].missed /\ reg' = Close(r, "authorizer_unavailable")
    /\ reg' # reg
    /\ UNCHANGED <<plane, hub, n, unopened, proc, held, breaks, edits, history>>

\* Bug: the key's streams are shut and its pending registrations stay.
RevokedOnlyStreams(k) == {r \in Regs : reg[r].kept /\ reg[r].link /\ KeyOf(reg[r].by) = k}

RevokedBy(k) == {r \in Regs : reg[r].kept /\ KeyOf(reg[r].by) = k}

\* Hub.Revoke and Hub.Release drop a set of registrations for one reason.
DropAll(S, reason) ==
    /\ reg' = [r \in Regs |-> IF r \in S THEN Dropped(reg[r], reason) ELSE reg[r]]
    /\ EndBeforeStream(Unstreamed(S), reason) /\ Noted(S, reason)

-----------------------------------------------------------------------------
(* The control plane's acts.                                               *)

\* environmentKeyRevoke: the revocation list, then the hub.
RevokeKey(k) ==
    /\ obj.live /\ k \in {KeyOf(p) : p \in Workers} \ revoked /\ edits < MaxEdits /\ edits' = edits + 1
    /\ revoked' = revoked \cup {k} /\ acts' = acts \cup {[act |-> "revoke", key |-> k]}
    /\ UNCHANGED <<site, obj, allow, hub, reg, n, unopened, proc, held, breaks, history>>

HubRevoke(k) ==
    /\ [act |-> "revoke", key |-> k] \in acts
    /\ acts' = acts \ {[act |-> "revoke", key |-> k]} /\ cut' = cut \cup {k}
    /\ DropAll(RevokedBy(k), "key_revoked")
    /\ UNCHANGED <<site, obj, allow, revoked, hub, n, proc, held, breaks, edits, lowered>>

\* environmentItem's delete: revokeAll ends every key without telling the hub,
\* then the object goes, then ReleaseDriver.
DeleteEnvironment ==
    /\ obj.live
    /\ \/ /\ ~(Keys \subseteq revoked) /\ edits < MaxEdits /\ edits' = edits + 1
          /\ revoked' = Keys /\ UNCHANGED <<site, obj, acts>>
       \/ /\ Keys \subseteq revoked
          /\ obj' = [obj EXCEPT !.live = FALSE]
          /\ acts' = acts \cup {[act |-> "release", key |-> "none"]}
          /\ UNCHANGED <<revoked, edits>>
    /\ UNCHANGED <<site, allow, hub, reg, n, unopened, proc, held, breaks, history>>

HubRelease ==
    /\ [act |-> "release", key |-> "none"] \in acts
    /\ acts' = acts \ {[act |-> "release", key |-> "none"]}
    /\ hub' = [driver |-> "none", max |-> 0]
    /\ DropAll({r \in Regs : reg[r].kept}, "serve_refused")
    /\ UNCHANGED <<site, obj, allow, revoked, n, proc, held, breaks, edits, cut, lowered>>

\* ApplyEnvironment with another spec.workers.max; the hub reads it at the next
\* registration.
Apply(m) ==
    /\ obj.live /\ edits < MaxEdits /\ m # obj.max
    /\ obj' = [obj EXCEPT !.max = m] /\ edits' = edits + 1
    /\ lowered' = (lowered \/ obj.max = 0 \/ (m > 0 /\ m < obj.max))
    /\ UNCHANGED <<site, allow, revoked, acts, hub, reg, n, unopened, proc, held, breaks, cut, ended>>

\* The authorizer starts refusing this environment's workers.
Forbid ==
    /\ allow /\ edits < MaxEdits /\ allow' = FALSE /\ edits' = edits + 1
    /\ UNCHANGED <<site, obj, revoked, acts, hub, reg, n, unopened, proc, held, breaks, history>>

\* The pending window passes for the oldest registration inside it, or for a
\* record of unopened.
Age(r) ==
    /\ \/ /\ reg[r].fresh /\ \A o \in 0..(r - 1) : ~reg[o].fresh
          /\ reg' = [reg EXCEPT ![r].fresh = FALSE] /\ UNCHANGED <<unopened, ended>>
       \/ /\ unopened[r].reason # "none" /\ ~unopened[r].old
          /\ unopened' = [unopened EXCEPT ![r].old = TRUE] /\ ended' = [ended EXCEPT ![r] = "none"]
          /\ UNCHANGED reg
    /\ breaks < MaxBreaks /\ breaks' = breaks + 1
    /\ UNCHANGED <<plane, hub, n, proc, held, edits, cut, lowered>>

-----------------------------------------------------------------------------
(* The worker.                                                             *)

\* Bug: a refused serve stops the worker and leaves its sandboxes.
EndsKeyOnly(why) == why = "key_revoked"
EndsWork(why) == why \in Ends

\* The end of worker.run on a refusal: one that ends the host's work stops and
\* deletes every sandbox, and what the driver then fails at is left.
ReleaseHost(p, why) ==
    \/ EndsWork(why) /\ held' = [held EXCEPT ![p] = "gone"] /\ UNCHANGED breaks
    \/ EndsWork(why) /\ breaks < MaxBreaks /\ breaks' = breaks + 1 /\ held' = [held EXCEPT ![p] = "left"]
    \/ ~EndsWork(why) /\ UNCHANGED <<held, breaks>>

\* connect up to the hub: the key is read, the API authenticates it (a revoked
\* key is 401, which the worker retries on) and decideServe reads the object.
Ask(p) ==
    /\ proc[p].pc = "idle" /\ KeyOf(p) \notin revoked
    /\ \/ /\ MayServe(p)
          /\ proc' = [proc EXCEPT ![p].pc = "admit", ![p].max = obj.max]
          /\ UNCHANGED <<held, breaks>>
       \/ /\ ~MayServe(p)
          /\ Refuse(p, "serve_refused") /\ ReleaseHost(p, "serve_refused")
    /\ UNCHANGED <<plane, hub, reg, n, unopened, edits, history>>

\* dial: the upgrade is authenticated again; a dial that fails is retried from
\* the registration on.
Dial(p) ==
    /\ proc[p].pc = "dial"
    /\ \/ /\ KeyOf(p) \notin revoked
          /\ proc' = [proc EXCEPT ![p].pc = "serving"]
          /\ reg' = [reg EXCEPT ![proc[p].reg].conn = "hello"]
          /\ UNCHANGED breaks
       \/ /\ KeyOf(p) \in revoked \/ breaks < MaxBreaks
          /\ proc' = [proc EXCEPT ![p].pc = "idle"]
          /\ breaks' = IF KeyOf(p) \in revoked THEN breaks ELSE breaks + 1
          /\ UNCHANGED reg
    /\ UNCHANGED <<plane, hub, n, unopened, held, edits, history>>

\* The network loses the connection; a reason the hub closed it with is lost too.
Break(r) ==
    /\ breaks < MaxBreaks /\ reg[r].by \in Workers /\ proc[reg[r].by].reg = r /\ proc[reg[r].by].pc = "serving"
    /\ reg[r].conn \in {"hello", "bound", "shut"} /\ reg[r].why # "lost"
    /\ breaks' = breaks + 1
    /\ reg' = [reg EXCEPT ![r].conn = IF @ = "shut" THEN @ ELSE "broken", ![r].why = "lost"]
    /\ UNCHANGED <<plane, hub, n, unopened, proc, held, edits, history>>

\* Server.Run returns: closeRefusal and the loop of worker.run.  A refusal ends
\* the worker; anything else is a reconnect.
StreamEnds(p) ==
    LET r == proc[p].reg IN
    /\ proc[p].pc = "serving" /\ reg[r].conn \in {"shut", "broken"}
    /\ IF reg[r].why \in fatal THEN Refuse(p, reg[r].why) ELSE proc' = [proc EXCEPT ![p].pc = "idle"]
    /\ ReleaseHost(p, reg[r].why)
    /\ reg' = [reg EXCEPT ![r].conn = "closed", ![r].why = "none", ![r].missed = FALSE]
    /\ UNCHANGED <<plane, hub, n, unopened, edits, history>>

\* ctx ends: the stream closes, and release stops what runs unless KeepOnExit.
Stop(p) ==
    /\ proc[p].pc \in {"idle", "serving"} /\ edits < MaxEdits
    /\ edits' = edits + 1
    /\ proc' = [proc EXCEPT ![p].pc = "stopped"]
    /\ held' = [held EXCEPT ![p] = IF @ = "running" /\ ~KeepOnExit THEN "stopped" ELSE @]
    /\ reg' = IF proc[p].pc = "serving" /\ reg[proc[p].reg].conn \in {"hello", "bound"}
              THEN [reg EXCEPT ![proc[p].reg].conn = "closed"] ELSE reg
    /\ UNCHANGED <<plane, hub, n, unopened, breaks, history>>

\* The process is started again on its machine.
Start(p) ==
    /\ proc[p].pc = "stopped"
    /\ proc' = [proc EXCEPT ![p] = [pc |-> "idle", reg |-> 0, max |-> 0, why |-> "none"]]
    /\ UNCHANGED <<plane, hub, reg, n, unopened, held, breaks, edits, history>>

\* A create routed to the worker's stream: transport.Open takes a link of env.workers.
Place(p) ==
    /\ proc[p].pc = "serving" /\ reg[proc[p].reg].kept /\ reg[proc[p].reg].link
    /\ reg[proc[p].reg].conn = "bound" /\ held[p] # "running"
    /\ held' = [held EXCEPT ![p] = "running"]
    /\ UNCHANGED <<plane, hub, reg, n, unopened, proc, breaks, edits, history>>

HubNext == \/ \E r \in Regs : Bind(r) \/ Release(r) \/ Recheck(r) \/ Age(r)
           \/ \E k \in Keys : RevokeKey(k) \/ HubRevoke(k)
           \/ DeleteEnvironment \/ HubRelease \/ Forbid
           \/ \E m \in Limits : Apply(m)
WorkerNext == \/ \E p \in Workers : \/ Ask(p) \/ RegisterWith(p) \/ Dial(p) \/ StreamEnds(p)
                                    \/ Stop(p) \/ Start(p) \/ Place(p)
              \/ \E r \in Regs : Break(r)
Next == HubNext \/ WorkerNext

\* What runs by itself: the hub's goroutines and handlers once begun, and the
\* worker's loop.  Nothing external is fair.
Fairness ==
    /\ \A r \in Regs : WF_vars(Bind(r)) /\ WF_vars(Release(r)) /\ WF_vars(Recheck(r))
    /\ \A k \in Keys : WF_vars(HubRevoke(k))
    /\ WF_vars(HubRelease)
    /\ \A p \in Workers : /\ WF_vars(Ask(p)) /\ WF_vars(RegisterWith(p)) /\ WF_vars(Dial(p))
                           /\ WF_vars(StreamEnds(p))

Spec == Init /\ [][Next]_vars /\ Fairness

-----------------------------------------------------------------------------
(* Properties.                                                             *)

\* A registration with a link is one whose connection was bound, and a key whose
\* streams were cut was revoked.
TypeOK ==
    /\ obj \in [live : BOOLEAN, max : Limits] /\ allow \in BOOLEAN
    /\ revoked \subseteq Keys /\ cut \subseteq revoked
    /\ n \in 0..MaxReg /\ hub.max \in Limits \cup {0}
    /\ \A r \in Regs : /\ reg[r].link => reg[r].conn \in {"bound", "shut", "broken", "closed"}
                       /\ reg[r].kept => reg[r].by \in Workers
    /\ \A p \in Workers : proc[p].pc \in {"idle", "admit", "dial", "serving", "refused", "stopped"}

\* liveWorkersLocked and bind together: while the limit is never lowered, no more
\* streams are held than spec.workers.max takes, whatever registrations were
\* pending, expired, replaced or refused on the way (hub.go:751, workers.md:71).
StreamsWithinLimit ==
    ~lowered /\ obj.max > 0 => Cardinality({r \in Regs : reg[r].kept /\ reg[r].link}) <= obj.max

\* Hub.Revoke: once it has run for a key, no stream registered with the key is
\* bound, whether it was open, unopened, or registering meanwhile (hub.go:387).
NoRevokedStream ==
    \A r \in Regs : reg[r].conn = "bound" /\ reg[r].link => KeyOf(reg[r].by) \notin cut

\* endBeforeStreamLocked and bind: a stream whose registration was replaced, revoked
\* or deleted before its hello is told that reason; it is answered as one that never
\* registered only when its record is past the pending window (hub.go:340).
ToldWhy ==
    \A r \in Regs : ended[r] # "none" /\ reg[r].conn = "hello"
                    => unopened[r].reason = ended[r]

\* worker.run: a worker that lost its stream registers and holds one again, unless
\* it is refused or stopped, its key is revoked, or the bound on registrations
\* leaves it none to ask for.
Reconnects ==
    \A p \in Workers :
        (proc[p].pc = "idle" /\ KeyOf(p) \notin revoked)
        ~> \/ proc[p].pc = "serving" /\ reg[proc[p].reg].conn = "bound"
           \/ proc[p].pc \in {"refused", "stopped"} \/ KeyOf(p) \in revoked
           \/ n = MaxReg /\ proc[p].pc \in {"idle", "admit"}

\* rechecks: a stream of an environment that is gone does not stay, even one whose
\* registration was decided before the delete and reached the hub after it.
DeletedUnserved == ~obj.live ~> [](\A r \in Regs : reg[r].conn # "bound")

\* closeRefusal and release: a worker whose stream was closed because its key was
\* revoked or its environment may not be served ends everything it runs, but what
\* its driver fails at, unless the network lost the reason or the worker was
\* stopped first.
CloseEndsWork ==
    \A p \in Workers :
        (proc[p].pc = "serving" /\ reg[proc[p].reg].conn = "shut" /\ reg[proc[p].reg].why \in Ends)
        ~> (held[p] \in {"gone", "left"} \/ reg[proc[p].reg].why = "lost" \/ proc[p].pc = "stopped")
=============================================================================
