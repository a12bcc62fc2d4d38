----------------------------- MODULE Lifecycle -----------------------------
(***************************************************************************)
(* The life of one sandbox as the controller drives it: the create order   *)
(* (controller.go create, realize, drive, settleCreate, failCreateFor),    *)
(* Start, Act's stop and delete, the reaper's pass (reaper.go), the lost   *)
(* rule and recovery (recovery.go) and the rotation of its identity        *)
(* (token.go), over the three things that outlive the process: the store's *)
(* row, the driver's object and the workload tokens.                       *)
(*                                                                         *)
(* Every handler runs under the controller's lock, so `op` is the one      *)
(* handler that holds it and the step it has reached.  A handler is split  *)
(* at each call that leaves something behind, the calls a crash can fall   *)
(* between.  Two things run outside the lock: the driver's create of a     *)
(* realize (`drive`), and the reaper's list (`reap`).  persist and forget  *)
(* restore the memory's row when the store refuses, so the row in memory   *)
(* and the row in the store are one variable.                              *)
(*                                                                         *)
(* A duration is a choice: a deadline, a backoff or a grace may have       *)
(* passed whenever the code asks.  The boundary modelled is one a gateway  *)
(* must hold (needsGateway), on the control plane's own environment.       *)
(***************************************************************************)
EXTENDS Integers, FiniteSets

CONSTANTS
    RecoveryAttempts,  \* Options.RecoveryAttempts
    Faults,            \* the calls that may fail, see FaultKinds
    MaxFaults,         \* bound: calls that fail in all
    MaxCrashes,        \* bound: times the process stops or dies
    MaxLosses,         \* bound: times the driver loses the object
    MaxTokens,         \* bound: tokens minted
    MaxRotated         \* bound: the token rule mints only below this many

\* "ambiguous" is a driver call that answers an error after it took effect, as
\* one on a worker whose link fell does; "stale" a read that misses an object.
FaultKinds == {"store", "driver", "gateway", "mint", "volume", "revoke", "stale", "ambiguous"}

ASSUME LifecycleAssumption ==
    /\ RecoveryAttempts \in Nat
    /\ Faults \subseteq FaultKinds
    /\ {MaxFaults, MaxCrashes, MaxLosses, MaxTokens, MaxRotated} \subseteq Nat
    /\ MaxRotated <= MaxTokens

VARIABLES
    recovers,  \* the store is durable: rows outlive the process, the lost are recreated
    row,       \* the sandbox's desired row, or NoRow
    born,      \* the create has written the row
    obj,       \* the driver's object, or NoObj
    map,       \* the egress hub holds the sandbox's map
    minted,    \* tokens 1..minted have been signed
    revoked,   \* the revocation list
    given,     \* history: the tokens a driver projected into the workload
    op,        \* the handler holding c.mu, and its step
    drive,     \* realizing: the driver's create in flight, lock released
    reap,      \* the reaper's pass
    attempts, retry, lost,       \* recovery's bookkeeping, this process's own
    faults, crashes, losses,     \* how much of each bound is used
    seen                         \* history: the kinds of call that failed

vars == <<recovers, row, born, obj, map, minted, revoked, given, op, drive, reap,
          attempts, retry, lost, faults, crashes, losses, seen>>
identity == <<minted, revoked, given>>
recovery == <<attempts, retry, lost>>
bounds == <<recovers, crashes, losses>>

Phases == {"Pending", "Starting", "Running", "Stopped", "Failed", "Lost", "Recovering", "Deleting"}
DriverStates == {"Pending", "Running", "Stopped", "Failed"}
unstartedFailures == {"CreateFailed", "RecoveryExhausted", "VolumeMissing"}
Reasons == unstartedFailures \cup {"", "AutoStop", "Lost"}
NoToken == 0
Tokens == NoToken..MaxTokens

Rows == [phase : Phases, sched : BOOLEAN, reason : Reasons, token : Tokens]
NoRow == [phase |-> "None", sched |-> FALSE, reason |-> "", token |-> NoToken]
Objects == [state : DriverStates, token : Tokens]
NoObj == [state |-> "None", token |-> NoToken]

Idle == [at |-> "idle", token |-> NoToken, previous |-> NoToken, read |-> "None"]
NoDrive == [at |-> "none", token |-> NoToken, previous |-> NoToken, created |-> TRUE, read |-> "None"]
NoPass == [at |-> "idle", seen |-> FALSE, cut |-> FALSE]

Held == row # NoRow
Made == obj # NoObj
Free == op.at = "idle"
At(step) == op.at = step
Goto(step) == op' = [op EXCEPT !.at = step]
Done == op' = Idle

\* A call answers, or fails and uses one of the bounded faults.
Answers == UNCHANGED <<faults, seen>>
Fails(kind) ==
    /\ kind \in Faults /\ faults < MaxFaults
    /\ faults' = faults + 1 /\ seen' = seen \cup {kind}
MayMint == minted < MaxTokens

\* token.go revokeToken, of the tokens that are named: one that cannot be
\* written is reported and left.
revokeToken(tokens) ==
    \E ended \in SUBSET (tokens \ {NoToken}) :
        /\ revoked' = revoked \cup ended
        /\ IF ended = tokens \ {NoToken} THEN Answers ELSE Fails("revoke")

\* scheduler.go placed, and controller.go creating with its realizing set.
placed == Held /\ row.phase = "Pending" /\ ~row.sched
realizing == drive.at # "none"
creating == realizing \/ placed

\* controller.go read: what a reader is answered, the driver's state over the row.
readPhase(r) ==
    IF r.phase = "Deleting" \/ (r.phase = "Pending" /\ ~r.sched) THEN r.phase
    ELSE IF Made THEN obj.state
    ELSE IF r.phase \in {"Pending", "Failed"} THEN r.phase ELSE "Lost"

\* refresh: the row with that phase, a reason standing only while the phase does.
refresh(r) ==
    [r EXCEPT !.phase = readPhase(r),
              !.reason = IF readPhase(r) = r.phase THEN r.reason ELSE ""]

Init ==
    /\ recovers \in BOOLEAN
    /\ row = NoRow /\ born = FALSE /\ obj = NoObj /\ map = FALSE
    /\ minted = 0 /\ revoked = {} /\ given = {}
    /\ op = Idle /\ drive = NoDrive /\ reap = NoPass
    /\ attempts = 0 /\ retry = FALSE /\ lost = FALSE
    /\ faults = 0 /\ crashes = 0 /\ losses = 0 /\ seen = {}

-----------------------------------------------------------------------------
(* The create: the row is written and answered, Pending; the loop takes it. *)

Create ==
    /\ Free /\ ~born
    /\ born' = TRUE
    /\ row' = [phase |-> "Pending", sched |-> FALSE, reason |-> "", token |-> NoToken]
    /\ Answers
    /\ UNCHANGED <<obj, map, identity, op, drive, reap, recovery, bounds>>

\* realize up to the boundary: a placed row nobody drives yet.  A volume that
\* is failed or gone fails the create before anything is pushed.
RealizeBegin ==
    /\ Free /\ placed /\ ~realizing /\ MayMint
    /\ \/ op' = [Idle EXCEPT !.at = "push", !.previous = row.token] /\ Answers
       \/ op' = [Idle EXCEPT !.at = "revoking", !.previous = row.token] /\ Fails("volume")
    /\ UNCHANGED <<row, born, obj, map, identity, drive, reap, recovery, bounds>>

\* pushEgress.  The hub keeps the map whatever the gateways answer.  With no
\* gateway inside the grace the row is kept placed; after it the create fails.
RealizePush ==
    /\ At("push")
    /\ map' = TRUE
    /\ \/ Goto("mint") /\ Answers
       \/ (Goto("hold") \/ Goto("failing")) /\ Fails("gateway")
    /\ UNCHANGED <<row, born, obj, identity, drive, reap, recovery, bounds>>

RealizeHold ==
    /\ At("hold")
    /\ map' = FALSE /\ Done /\ Answers
    /\ UNCHANGED <<row, born, obj, identity, drive, reap, recovery, bounds>>

RealizeMint ==
    /\ At("mint")
    /\ \/ /\ minted' = minted + 1
          /\ op' = [op EXCEPT !.at = "write", !.token = minted + 1]
          /\ Answers
       \/ Goto("failing") /\ Fails("mint") /\ UNCHANGED minted
    /\ UNCHANGED <<row, born, obj, map, revoked, given, drive, reap, recovery, bounds>>

\* The status write before the driver call; it releases the lock to drive.
RealizeWrite ==
    /\ At("write")
    /\ \/ /\ row' = [row EXCEPT !.token = op.token]
          /\ drive' = [NoDrive EXCEPT !.at = "create", !.token = op.token, !.previous = op.previous]
          /\ Done /\ Answers
       \/ Goto("undo") /\ Fails("store") /\ UNCHANGED <<row, drive>>
    /\ UNCHANGED <<born, obj, map, identity, reap, recovery, bounds>>

RealizeUndo ==
    /\ At("undo")
    /\ map' = FALSE
    /\ revokeToken({op.token}) /\ Done
    /\ UNCHANGED <<row, born, obj, minted, given, drive, reap, recovery, bounds>>

\* purgeEgress, then failCreateFor: the identities end, then Failed is written.
FailPurge ==
    /\ At("failing")
    /\ map' = FALSE /\ Goto("revoking") /\ Answers
    /\ UNCHANGED <<row, born, obj, identity, drive, reap, recovery, bounds>>

FailRevoke ==
    /\ At("revoking")
    /\ revokeToken({op.token, op.previous}) /\ Goto("failed")
    /\ UNCHANGED <<row, born, obj, map, minted, given, drive, reap, recovery, bounds>>

FailWrite ==
    /\ At("failed")
    /\ \/ row' = [row EXCEPT !.phase = "Failed", !.reason = "CreateFailed", !.token = NoToken] /\ Answers
       \/ UNCHANGED row /\ Fails("store")
    /\ Done
    /\ UNCHANGED <<born, obj, map, identity, drive, reap, recovery, bounds>>

-----------------------------------------------------------------------------
(* drive: the driver's create and first read, with the lock released. *)

DriveAnswered(created, read) ==
    drive' = [drive EXCEPT !.at = "settle", !.created = created, !.read = read]

\* A create that finds the id adopts the object and projects the new token.
DriveCreate ==
    /\ drive.at = "create"
    /\ \/ /\ Answers
          /\ obj' \in IF Made THEN {[obj EXCEPT !.token = drive.token]}
                      ELSE [state : {"Pending", "Running"}, token : {drive.token}]
          /\ given' = given \cup {drive.token}
          /\ drive' = [drive EXCEPT !.at = "inspect"]
       \/ /\ Fails("driver") /\ DriveAnswered(FALSE, "None") /\ UNCHANGED <<obj, given>>
       \/ /\ Fails("ambiguous") /\ DriveAnswered(FALSE, "None")
          /\ obj' = [state |-> IF Made THEN obj.state ELSE "Running", token |-> drive.token]
          /\ given' = given \cup {drive.token}
    /\ UNCHANGED <<row, born, map, minted, revoked, op, reap, recovery, bounds>>

\* The first read; one that fails or finds nothing settles as "None".
DriveInspect ==
    /\ drive.at = "inspect"
    /\ \/ DriveAnswered(TRUE, obj.state) /\ Answers
       \/ DriveAnswered(TRUE, "None") /\ (Fails("driver") \/ Fails("stale"))
    /\ UNCHANGED <<row, born, obj, map, identity, op, reap, recovery, bounds>>

\* Bug: the result is written without reading the row again.
SettleUnread ==
    /\ Free /\ drive.at = "settle"
    /\ drive' = NoDrive
    /\ op' = [at |-> IF drive.created THEN "settled" ELSE "failing", token |-> drive.token,
              previous |-> drive.previous, read |-> drive.read]
    /\ Answers
    /\ UNCHANGED <<row, born, obj, map, identity, reap, recovery, bounds>>

\* settleCreate, against the row as it stands now.
Settle ==
    /\ Free /\ drive.at = "settle"
    /\ drive' = NoDrive
    /\ LET from(step) == op' = [at |-> step, token |-> drive.token,
                                previous |-> drive.previous, read |-> drive.read]
       IN  \/ ~Held /\ from("unmake")
           \/ Held /\ row.phase = "Deleting" /\ UNCHANGED op
           \/ Held /\ row.phase # "Deleting" /\ ~drive.created /\ from("failing")
           \/ Held /\ row.phase # "Deleting" /\ drive.created /\ from("settled")
    /\ Answers
    /\ UNCHANGED <<row, born, obj, map, identity, reap, recovery, bounds>>

\* Bug: what the create made is left to the delete that came before it.
SettleUnmakeNot ==
    /\ At("unmake") /\ Goto("unmade") /\ Answers
    /\ UNCHANGED <<row, born, obj, map, identity, drive, reap, recovery, bounds>>

\* The row went during the call: what the create made goes, with its map and
\* its identities.  A delete that fails is logged and not tried again.
SettleUnmake ==
    /\ At("unmake")
    /\ \/ obj' = NoObj /\ Answers
       \/ UNCHANGED obj /\ Fails("driver")
    /\ Goto("unmade")
    /\ UNCHANGED <<row, born, map, identity, drive, reap, recovery, bounds>>

SettleUnmade ==
    /\ At("unmade")
    /\ map' = FALSE
    /\ revokeToken({op.token, op.previous}) /\ Done
    /\ UNCHANGED <<row, born, obj, minted, given, drive, reap, recovery, bounds>>

\* Scheduled is True and the first read's phase is written; the identity a
\* previous run minted is ended whether or not the write was taken.
SettleWrite ==
    /\ At("settled")
    /\ \/ /\ row' = [row EXCEPT !.sched = TRUE,
                                !.phase = IF op.read = "None" THEN "Pending" ELSE op.read,
                                !.reason = ""]
          /\ Answers
       \/ UNCHANGED row /\ Fails("store")
    /\ Goto("endPrevious")
    /\ UNCHANGED <<born, obj, map, identity, drive, reap, recovery, bounds>>

\* The trailing revokeToken(previous) of settleCreate, rotateLocked and
\* recoverLocked.
EndPrevious ==
    /\ At("endPrevious")
    /\ revokeToken({op.previous}) /\ Done
    /\ UNCHANGED <<row, born, obj, map, minted, given, drive, reap, recovery, bounds>>

\* The identity a projection or a recreation failed with is ended.
EndNew ==
    /\ At("endNew")
    /\ revokeToken({op.token}) /\ Done
    /\ UNCHANGED <<row, born, obj, map, minted, given, drive, reap, recovery, bounds>>

-----------------------------------------------------------------------------
(* Start, stop and delete. *)

\* restartable: the control plane's own failures leave nothing to start.
restartable == ~(row.phase = "Failed" /\ row.reason \in unstartedFailures)

\* What a driver call does to the object: it answers and took effect, fails
\* and did not, or fails and did.
Calls(result, onAnswer, onError) ==
    \/ Answers /\ obj' = result /\ onAnswer
    \/ Fails("driver") /\ UNCHANGED obj /\ onError
    \/ Fails("ambiguous") /\ obj' = result /\ onError

\* Start's guards and d.Start.  A read of Stopped starts; a read of Failed
\* starts when restartable.
Start ==
    /\ Free /\ Held /\ ~creating /\ row.phase # "Deleting" /\ Made
    /\ readPhase(row) = "Stopped" \/ (readPhase(row) = "Failed" /\ restartable)
    /\ Calls([obj EXCEPT !.state = "Running"],
             op' = [Idle EXCEPT !.at = "started"], UNCHANGED op)
    /\ UNCHANGED <<row, born, map, identity, drive, reap, recovery, bounds>>

\* The record holds the slot whatever the read after the start says.
StartWrite ==
    /\ At("started")
    /\ \/ /\ \/ row' = IF readPhase(row) \in {"Stopped", "Failed"}
                       THEN [row EXCEPT !.phase = "Starting", !.reason = ""]
                       ELSE refresh(row)
             \/ row' = [row EXCEPT !.phase = "Starting", !.reason = ""]
          /\ Done /\ Answers
       \/ Goto("unstart") /\ UNCHANGED row /\ Fails("store")
    /\ UNCHANGED <<born, obj, map, identity, drive, reap, recovery, bounds>>

\* A start that cannot be recorded is stopped again.
StartUndo ==
    /\ At("unstart")
    /\ Calls(IF Made THEN [obj EXCEPT !.state = "Stopped"] ELSE NoObj, Done, Done)
    /\ UNCHANGED <<row, born, map, identity, drive, reap, recovery, bounds>>

Stop ==
    /\ Free /\ Held /\ ~creating /\ row.phase # "Deleting"
    /\ readPhase(row) = "Running"
    /\ Calls([obj EXCEPT !.state = "Stopped"],
             op' = [Idle EXCEPT !.at = "stopped"], UNCHANGED op)
    /\ UNCHANGED <<row, born, map, identity, drive, reap, recovery, bounds>>

\* The refresh and the write after a stop; the reaper's carries its rule.
StopWrite ==
    /\ At("stopped") \/ At("autoStopped")
    /\ \/ /\ row' = IF At("stopped") THEN refresh(row)
                    ELSE [refresh(row) EXCEPT !.reason = "AutoStop"]
          /\ Answers
       \/ UNCHANGED row /\ Fails("store")
    /\ Done
    /\ UNCHANGED <<born, obj, map, identity, drive, reap, recovery, bounds>>

\* Deleting is written before the driver is called, in every phase.
IntendDelete ==
    \/ /\ row' = [row EXCEPT !.phase = "Deleting"]
       /\ op' = [Idle EXCEPT !.at = "delete", !.token = row.token]
       /\ Answers
    \/ UNCHANGED <<row, op>> /\ Fails("store")

Delete ==
    /\ Free /\ Held
    /\ IntendDelete
    /\ UNCHANGED <<born, obj, map, identity, drive, reap, recovery, bounds>>

\* deleteOne: the object, then forgetOne: the map, the identity, the row.
DeleteObject ==
    /\ At("delete")
    /\ Calls(NoObj, Goto("forgetMap"), Done)
    /\ UNCHANGED <<row, born, map, identity, drive, reap, recovery, bounds>>

\* Bug: the map is not purged.
ForgetMapKept ==
    /\ At("forgetMap") /\ Goto("forgetToken") /\ Answers
    /\ UNCHANGED <<row, born, obj, map, identity, drive, reap, recovery, bounds>>

ForgetMap ==
    /\ At("forgetMap")
    /\ map' = FALSE
    /\ attempts' = 0 /\ retry' = FALSE /\ lost' = FALSE
    /\ Goto("forgetToken") /\ Answers
    /\ UNCHANGED <<row, born, obj, identity, drive, reap, bounds>>

ForgetToken ==
    /\ At("forgetToken")
    /\ revokeToken({op.token}) /\ Goto("forgetRow")
    /\ UNCHANGED <<row, born, obj, map, minted, given, drive, reap, recovery, bounds>>

ForgetRow ==
    /\ At("forgetRow")
    /\ \/ row' = NoRow /\ Answers
       \/ UNCHANGED row /\ Fails("store")
    /\ Done
    /\ UNCHANGED <<born, obj, map, identity, drive, reap, recovery, bounds>>

-----------------------------------------------------------------------------
(* The reaper's pass: one list, the rules over it, the deletes cut short, *)
(* the lost rule.  Each rule re-reads under the lock.                     *)

NextRule(step) == reap' = [reap EXCEPT !.at = step]

\* The list is read without the lock; a list that fails ends the pass, which
\* is this step not taken.
ReapList ==
    /\ reap.at = "idle"
    /\ \/ reap' = [at |-> "rules", seen |-> Made,
                   cut |-> Held /\ row.phase = "Deleting" /\ ~realizing] /\ Answers
       \/ reap' = [at |-> "rules", seen |-> FALSE,
                   cut |-> Held /\ row.phase = "Deleting" /\ ~realizing] /\ Made /\ Fails("stale")
    /\ UNCHANGED <<row, born, obj, map, identity, op, drive, recovery, bounds>>

\* Expired and AutoDelete: a tracked sandbox is deleted as a request deletes
\* it, an object with no row through the driver alone.
ReapDelete ==
    /\ Free /\ reap.at = "rules" /\ reap.seen /\ Made
    /\ IF Held THEN IntendDelete /\ UNCHANGED obj
               ELSE Calls(NoObj, TRUE, TRUE) /\ UNCHANGED <<row, op>>
    /\ NextRule("finish")
    /\ UNCHANGED <<born, map, identity, drive, recovery, bounds>>

\* AutoStop: asked of a running object, whatever the row says of it.
ReapStop ==
    /\ Free /\ reap.at = "rules" /\ reap.seen /\ obj.state = "Running"
    /\ Calls([obj EXCEPT !.state = "Stopped"],
             IF Held THEN op' = [Idle EXCEPT !.at = "autoStopped"] ELSE UNCHANGED op,
             UNCHANGED op)
    /\ NextRule("finish")
    /\ UNCHANGED <<row, born, map, identity, drive, recovery, bounds>>

\* enforceToken and the mint of rotateLocked.
rotatable(phase) == phase \notin {"Deleting", "Failed", "Lost", "Recovering"}

\* Bug: the replaced token is revoked before the new one is projected.
ReapTokenRevoking ==
    /\ Free /\ reap.at = "rules" /\ reap.seen
    /\ Held /\ rotatable(row.phase) /\ ~creating /\ row.token # NoToken
    /\ minted < MaxRotated
    /\ minted' = minted + 1 /\ revoked' = revoked \cup {row.token}
    /\ op' = [Idle EXCEPT !.at = "project", !.token = minted + 1, !.previous = row.token]
    /\ NextRule("finish") /\ Answers
    /\ UNCHANGED <<row, born, obj, map, given, drive, recovery, bounds>>

ReapToken ==
    /\ Free /\ reap.at = "rules" /\ reap.seen
    /\ Held /\ rotatable(row.phase) /\ ~creating /\ row.token # NoToken
    /\ minted < MaxRotated
    /\ \/ /\ minted' = minted + 1
          /\ op' = [Idle EXCEPT !.at = "project", !.token = minted + 1, !.previous = row.token]
          /\ Answers
       \/ UNCHANGED <<minted, op>> /\ Fails("mint")
    /\ NextRule("finish")
    /\ UNCHANGED <<row, born, obj, map, revoked, given, drive, recovery, bounds>>

\* The new token reaches the workload before the old one is ended.
RotateProject ==
    /\ At("project")
    /\ \/ /\ Made /\ Answers
          /\ obj' = [obj EXCEPT !.token = op.token] /\ given' = given \cup {op.token}
          /\ Goto("rotated")
       \/ /\ IF Made THEN Fails("driver") ELSE Answers
          /\ Goto("endNew") /\ UNCHANGED <<obj, given>>
       \/ /\ Made /\ Fails("ambiguous")
          /\ obj' = [obj EXCEPT !.token = op.token] /\ given' = given \cup {op.token}
          /\ Goto("endNew")
    /\ UNCHANGED <<row, born, map, minted, revoked, drive, reap, recovery, bounds>>

RotateWrite ==
    /\ At("rotated")
    /\ \/ row' = [row EXCEPT !.token = op.token] /\ Goto("endPrevious") /\ Answers
       \/ UNCHANGED row /\ Done /\ Fails("store")
    /\ UNCHANGED <<born, obj, map, identity, drive, reap, recovery, bounds>>

\* No rule matches what was listed, or none does any more.
ReapNothing ==
    /\ reap.at = "rules" /\ NextRule("finish") /\ Answers
    /\ UNCHANGED <<row, born, obj, map, identity, op, drive, recovery, bounds>>

\* Bug: a Deleting row is taken as a delete in flight.
ReapFinishNot ==
    /\ Free /\ reap.at = "finish" /\ NextRule("vanished") /\ Answers
    /\ UNCHANGED <<row, born, obj, map, identity, op, drive, recovery, bounds>>

\* finishDelete: a delete a failure or a restart cut short is run again.
ReapFinish ==
    /\ Free /\ reap.at = "finish"
    /\ op' = IF reap.cut /\ Held /\ ~realizing /\ row.phase = "Deleting"
             THEN [Idle EXCEPT !.at = "delete", !.token = row.token] ELSE op
    /\ NextRule("vanished") /\ Answers
    /\ UNCHANGED <<row, born, obj, map, identity, drive, recovery, bounds>>

canBeLost == Held /\ row.phase \notin {"Pending", "Failed", "Deleting"}

\* vanished: what the list holds is owed nothing, the rest may be lost.  An
\* observed index that could not be rebuilt ends the pass here.
ReapVanished ==
    /\ Free /\ reap.at = "vanished"
    /\ \/ /\ reap.seen /\ reap' = NoPass /\ Answers
          /\ attempts' = IF Held THEN 0 ELSE attempts
          /\ retry' = IF Held THEN FALSE ELSE retry
          /\ lost' = IF Held THEN FALSE ELSE lost
       \/ /\ ~reap.seen /\ Answers /\ UNCHANGED recovery
          /\ IF canBeLost THEN NextRule("lost") ELSE reap' = NoPass
       \/ recovers /\ Fails("store") /\ reap' = NoPass /\ UNCHANGED recovery
    /\ UNCHANGED <<row, born, obj, map, identity, op, drive, bounds>>

\* enforceLost where the driver has the object, or is no longer asked for it.
LostNot ==
    /\ Free /\ reap.at = "lost" /\ (Made \/ ~canBeLost)
    /\ lost' = IF canBeLost THEN FALSE ELSE lost
    /\ reap' = NoPass /\ Answers
    /\ UNCHANGED <<row, born, obj, map, identity, op, drive, attempts, retry, bounds>>

Missed == (~Made /\ Answers) \/ (Made /\ Fails("stale"))

\* graceLocked: marked Lost on the tick that first missed it, then waiting out
\* the grace, then deleted as a deadline deletes.
Graced == Free /\ reap.at = "lost" /\ canBeLost /\ ~recovers

LostMark ==
    /\ Graced /\ ~lost
    /\ lost' = TRUE /\ reap' = NoPass
    /\ \/ /\ Missed
          /\ row' = IF row.phase = "Lost" THEN row
                    ELSE [row EXCEPT !.phase = "Lost", !.reason = "Lost"]
       \/ ~Made /\ row.phase # "Lost" /\ UNCHANGED row /\ Fails("store")
    /\ UNCHANGED <<born, obj, map, identity, op, drive, attempts, retry, bounds>>

LostWait ==
    /\ Graced /\ lost /\ Missed /\ reap' = NoPass
    /\ UNCHANGED <<row, born, obj, map, identity, op, drive, recovery, bounds>>

LostDelete ==
    /\ Graced /\ lost /\ ~Made /\ IntendDelete /\ reap' = NoPass
    /\ UNCHANGED <<born, obj, map, identity, drive, recovery, bounds>>

\* recoverLocked to its first write: Lost, unless the row says so already.
RecoverBegin ==
    /\ Free /\ reap.at = "lost" /\ canBeLost /\ recovers
    /\ reap' = NoPass
    /\ \/ retry /\ UNCHANGED <<row, op>> /\ Missed
       \/ /\ ~retry /\ MayMint /\ Missed
          /\ row' = IF row.phase \in {"Lost", "Recovering"} THEN row
                    ELSE [row EXCEPT !.phase = "Lost", !.reason = "Lost"]
          /\ op' = [Idle EXCEPT !.at = "attempt"]
       \/ /\ ~retry /\ MayMint /\ ~Made /\ row.phase \notin {"Lost", "Recovering"}
          /\ UNCHANGED <<row, op>> /\ Fails("store")
    /\ UNCHANGED <<born, obj, map, identity, drive, recovery, bounds>>

\* The attempt is counted; past the last one, or without a volume, it is Failed.
exhausted == attempts + 1 > RecoveryAttempts

GiveUp(reason) ==
    /\ attempts' = 0 /\ retry' = FALSE /\ lost' = FALSE /\ Done
    /\ row' = [row EXCEPT !.phase = "Failed", !.reason = reason]

RecoverAttempt ==
    /\ At("attempt")
    /\ \/ exhausted /\ GiveUp("RecoveryExhausted") /\ Answers
       \/ exhausted /\ Fails("store") /\ UNCHANGED row /\ Done
          /\ attempts' = 0 /\ retry' = FALSE /\ lost' = FALSE
       \/ ~exhausted /\ Fails("volume") /\ GiveUp("VolumeMissing")
       \/ ~exhausted /\ attempts' = attempts + 1 /\ UNCHANGED <<retry, lost>>
          /\ \/ row' = [row EXCEPT !.phase = "Recovering", !.reason = "Lost"] /\ Goto("repush") /\ Answers
             \/ UNCHANGED row /\ Done /\ Fails("store")
    /\ UNCHANGED <<born, obj, map, identity, drive, reap, bounds>>

\* A recreation that fails waits out its backoff.
Backoff == retry' = TRUE /\ Done

RecoverPush ==
    /\ At("repush") /\ map' = TRUE
    /\ \/ Goto("remint") /\ Answers /\ UNCHANGED retry
       \/ Backoff /\ Fails("gateway")
    /\ UNCHANGED <<row, born, obj, identity, drive, reap, attempts, lost, bounds>>

RecoverMint ==
    /\ At("remint")
    /\ \/ /\ minted' = minted + 1 /\ Answers /\ UNCHANGED retry
          /\ op' = [op EXCEPT !.at = "recreate", !.token = minted + 1, !.previous = row.token]
       \/ Backoff /\ Fails("mint") /\ UNCHANGED minted
    /\ UNCHANGED <<row, born, obj, map, revoked, given, drive, reap, attempts, lost, bounds>>

\* d.Create; an object that was there after all is handed the new token
\* before the old one is ended.
RecoverCreate ==
    /\ At("recreate")
    /\ \/ /\ Answers
          /\ obj' \in IF Made THEN {[obj EXCEPT !.token = op.token]}
                      ELSE [state : {"Pending", "Running"}, token : {op.token}]
          /\ given' = given \cup {op.token}
          /\ Goto("recovered")
          /\ attempts' = 0 /\ retry' = FALSE /\ lost' = FALSE
       \/ /\ \/ Fails("driver") /\ UNCHANGED <<obj, given>>
             \/ /\ Fails("ambiguous")
                /\ obj' = [state |-> IF Made THEN obj.state ELSE "Running", token |-> op.token]
                /\ given' = given \cup {op.token}
          /\ retry' = TRUE /\ Goto("endNew") /\ UNCHANGED <<attempts, lost>>
    /\ UNCHANGED <<row, born, map, minted, revoked, drive, reap, bounds>>

\* The record of the recovery; the previous identity ends whether or not it
\* was taken.
RecoverWrite ==
    /\ At("recovered")
    /\ \/ row' = [refresh(row) EXCEPT !.token = op.token] /\ Answers
       \/ UNCHANGED row /\ Fails("store")
    /\ Goto("endPrevious")
    /\ UNCHANGED <<born, obj, map, identity, drive, reap, recovery, bounds>>

BackoffEnds ==
    /\ retry /\ retry' = FALSE /\ Answers
    /\ UNCHANGED <<row, born, obj, map, identity, op, drive, reap, attempts, lost, bounds>>

-----------------------------------------------------------------------------
(* What the environment and the process do by themselves. *)

\* The workload comes up, ends, or is lost with the driver's object.
ObjectMoves ==
    /\ Made
    /\ \/ obj.state = "Pending" /\ obj' = [obj EXCEPT !.state = "Running"] /\ UNCHANGED losses
       \/ obj.state = "Running" /\ UNCHANGED losses
          /\ \E s \in {"Stopped", "Failed"} : obj' = [obj EXCEPT !.state = s]
       \/ losses < MaxLosses /\ losses' = losses + 1 /\ obj' = NoObj
    /\ Answers
    /\ UNCHANGED <<row, born, map, identity, op, drive, reap, recovery, crashes, recovers>>

\* The process stops, a driver's create in flight with it, and the next one
\* opens: the rows a durable store kept, the hub seeded with EgressMaps of
\* them, nothing else.
Restart ==
    /\ crashes < MaxCrashes /\ crashes' = crashes + 1
    /\ op' = Idle /\ drive' = NoDrive /\ reap' = NoPass
    /\ attempts' = 0 /\ retry' = FALSE /\ lost' = FALSE
    /\ row' = IF recovers THEN row ELSE NoRow
    /\ map' = (row' # NoRow /\ row'.phase # "Deleting")
    /\ Answers
    /\ UNCHANGED <<born, obj, identity, losses, recovers>>

Realize == RealizeBegin \/ RealizePush \/ RealizeHold \/ RealizeMint \/ RealizeWrite \/ RealizeUndo
Fail == FailPurge \/ FailRevoke \/ FailWrite
Drive == DriveCreate \/ DriveInspect
Settles == Settle \/ SettleUnmake \/ SettleUnmade \/ SettleWrite \/ EndPrevious \/ EndNew
Acts == Start \/ StartWrite \/ StartUndo \/ Stop \/ StopWrite
        \/ Delete \/ DeleteObject \/ ForgetMap \/ ForgetToken \/ ForgetRow
Reap == ReapList \/ ReapDelete \/ ReapStop \/ ReapToken \/ RotateProject \/ RotateWrite
        \/ ReapNothing \/ ReapFinish \/ ReapVanished \/ LostNot
        \/ LostMark \/ LostWait \/ LostDelete
Recover == RecoverBegin \/ RecoverAttempt \/ RecoverPush \/ RecoverMint \/ RecoverCreate \/ RecoverWrite

Next == Create \/ Realize \/ Fail \/ Drive \/ Settles \/ Acts \/ Reap \/ Recover
        \/ BackoffEnds \/ ObjectMoves \/ Restart

Spec == Init /\ [][Next]_vars

\* Every handler that took the lock goes on, the loop realizes and settles,
\* the reaper passes, a grace and a backoff end, a workload comes up.  The loop
\* and the reaper are strong because sync.Mutex starves no waiter.  What a
\* client asks, a fault, a loss and a restart need not happen.
Fairness ==
    /\ WF_vars(RealizePush \/ RealizeHold \/ RealizeMint \/ RealizeWrite \/ RealizeUndo \/ Fail
               \/ SettleUnmake \/ SettleUnmade \/ SettleWrite \/ EndPrevious \/ EndNew
               \/ StartWrite \/ StartUndo \/ StopWrite
               \/ DeleteObject \/ ForgetMap \/ ForgetToken \/ ForgetRow
               \/ RotateProject \/ RotateWrite
               \/ RecoverAttempt \/ RecoverPush \/ RecoverMint \/ RecoverCreate \/ RecoverWrite)
    /\ SF_vars(RealizeBegin \/ Settle) /\ WF_vars(Drive)
    /\ WF_vars(ReapList \/ ReapNothing)
    /\ SF_vars(ReapFinish \/ ReapVanished \/ LostNot \/ LostMark \/ LostWait \/ RecoverBegin)
    /\ SF_vars(LostDelete)
    /\ WF_vars(BackoffEnds)
    /\ WF_vars(obj.state = "Pending" /\ ObjectMoves)

FairSpec == Spec /\ Fairness

-----------------------------------------------------------------------------
(* Properties. *)

Steps == {"idle", "push", "hold", "mint", "write", "undo", "failing", "revoking", "failed",
          "unmake", "unmade", "settled", "endPrevious", "endNew", "started", "unstart", "stopped",
          "autoStopped", "delete", "forgetMap", "forgetToken", "forgetRow", "project",
          "rotated", "attempt", "repush", "remint", "recreate", "recovered"}
Reads == DriverStates \cup {"None"}
Handlers == [at : Steps, token : Tokens, previous : Tokens, read : Reads]
Drives == [at : {"none", "create", "inspect", "settle"}, token : Tokens, previous : Tokens,
           created : BOOLEAN, read : Reads]
Passes == [at : {"idle", "rules", "finish", "vanished", "lost"}, seen : BOOLEAN, cut : BOOLEAN]

TypeOK ==
    /\ row \in Rows \cup {NoRow}
    /\ obj \in Objects \cup {NoObj}
    /\ recovers \in BOOLEAN /\ born \in BOOLEAN /\ map \in BOOLEAN
    /\ retry \in BOOLEAN /\ lost \in BOOLEAN
    /\ minted \in 0..MaxTokens /\ revoked \subseteq 1..minted /\ given \subseteq 1..minted
    /\ op \in Handlers /\ drive \in Drives /\ reap \in Passes
    /\ attempts \in 0..RecoveryAttempts
    /\ faults \in 0..MaxFaults /\ crashes \in 0..MaxCrashes /\ losses \in 0..MaxLosses
    /\ seen \subseteq Faults

\* A sandbox the control plane made and still keeps; nothing in flight; no
\* failure but of the kinds named, and no restart.
settled == Held /\ row.sched /\ row.phase \notin {"Failed", "Deleting"}
Quiet == Free /\ ~realizing
OnlyFailed(kinds) == seen \subseteq kinds /\ crashes = 0

\* token.go rotateLocked, recovery.go recoverLocked: the new identity reaches
\* the workload before the old one is ended, so a sandbox that was made and is
\* kept never holds a revoked token, whatever fails or restarts in between,
\* unless a driver call answered an error after it took effect.
NeverHoldsRevoked == settled /\ Made /\ "ambiguous" \notin seen => obj.token \notin revoked

\* spec 018's order, in realize and recoverLocked: no workload of a sandbox
\* that was made and is kept runs while the hub holds no map for it.
RunsWithMap == settled /\ Made => map

\* purgeEgress: no map is held for a sandbox that does not exist.
MapHasRow == map => Held

\* settleCreate and every handler read the row again under the lock, so a
\* sandbox whose row a delete removed never comes back.
NoResurrection == [][born /\ ~Held => row' = NoRow]_vars

\* forgetOne, spec 006: a deleted sandbox's identity is refused at once, so
\* once nothing of it is in flight every token its workload was given is
\* revoked.
IdentityRefused == born /\ ~Held /\ Quiet => given \subseteq revoked

\* It is where neither the store, the revocation itself nor the process failed, wherever the delete fell
\* in a create, a rotation or a recovery and whatever else failed.
TokensEnded == OnlyFailed(Faults \ {"store", "revoke", "ambiguous"}) => IdentityRefused

\* settleCreate and deleteOne: nothing runs on the driver for a sandbox whose
\* row is gone and which no create is settling, if the driver's own calls and
\* the process did not fail.
NoOrphan == OnlyFailed(Faults \ {"driver", "ambiguous"}) /\ ~Held /\ Quiet => ~Made

\* countLocked: the count of running sandboxes, which reads the rows' phases,
\* never misses one that runs, a start whose write the store refused included.
\* Reads that miss the object together with refused writes are left out: they
\* use up the recovery attempts of a sandbox that still runs.
CountHolds ==
    /\ OnlyFailed({"store", "revoke", "stale"}) /\ Held /\ Quiet /\ obj.state = "Running"
    /\ "stale" \in seen => "store" \notin seen /\ RecoveryAttempts > 0
    => row.phase \notin {"Stopped", "Failed"}

\* purgeEgress, pushEgress and EgressMaps: the hub holds a map only for a row
\* that exists, and one for every sandbox that runs, through every failure and
\* restart.
BoundaryFollows == TypeOK /\ MapHasRow /\ RunsWithMap

\* token.go and forgetOne: the identity a workload holds stands while it is kept
\* and is refused once it is not.
IdentityFollows == NeverHoldsRevoked /\ TokensEnded

\* deleteOne, settleCreate and countLocked: what the rows say is what the driver
\* has.
RowsTellDriver == NoOrphan /\ CountHolds

\* finishDeletes: a delete cut short by a failure or a restart is finished.
DeleteFinishes == Held /\ row.phase = "Deleting" ~> ~Held

\* RunScheduler: a placed sandbox is realized, failed or deleted, never left.
PlacedSettles == placed ~> ~placed

\* The lost rule: a sandbox the driver lost is recreated, failed, or deleted,
\* and is not left with a row and nothing behind it, but one whose row is
\* Pending: canBeLost takes it for one that has not reached the driver.
LossResolved == settled /\ row.phase # "Pending" /\ ~Made ~> Made \/ ~settled

\* Whatever was cut short comes to an end: a delete, a placement, a loss.
LifecycleSettles == DeleteFinishes /\ PlacedSettles /\ LossResolved

-----------------------------------------------------------------------------
(* The inductive invariant of the lock, which the proofs start from. *)

\* The type invariant, one variable or group at a time.  The tokens named
\* anywhere have been minted, a step that hands one to the workload has one,
\* and a handler on its way to a mint has room for it.
RowOK == row \in Rows \cup {NoRow} /\ row.token \in 0..minted
ObjOK == obj \in Objects \cup {NoObj} /\ obj.token \in 0..minted
OpOK ==
    /\ op \in Handlers /\ op.token \in 0..minted /\ op.previous \in 0..minted
    /\ op.at \in {"write", "project", "recreate"} => op.token # NoToken
    /\ op.at \in {"push", "mint", "attempt", "repush", "remint"} => MayMint
DriveOK ==
    /\ drive \in Drives /\ drive.token \in 0..minted /\ drive.previous \in 0..minted
    /\ drive.at = "create" => drive.token # NoToken
ReapOK == reap \in Passes
FlagOK == /\ recovers \in BOOLEAN /\ born \in BOOLEAN /\ map \in BOOLEAN
          /\ retry \in BOOLEAN /\ lost \in BOOLEAN
TokOK == minted \in 0..MaxTokens /\ revoked \subseteq 1..minted /\ given \subseteq 1..minted
CountOK == attempts \in 0..RecoveryAttempts /\ crashes \in 0..MaxCrashes /\ losses \in 0..MaxLosses
FaultOK == faults \in 0..MaxFaults /\ seen \subseteq Faults

TypeInv == RowOK /\ ObjOK /\ OpOK /\ DriveOK /\ ReapOK /\ FlagOK /\ TokOK /\ CountOK /\ FaultOK

\* What the handler that holds the lock relies on, step by step; what the
\* driver's create in flight relies on; where the map is.
LockInv ==
    /\ op.at \in {"push", "hold", "mint", "write", "undo"} =>
           row.phase = "Pending" /\ ~row.sched /\ drive.at = "none"
    /\ op.at \in {"mint", "write"} => map
    /\ op.at \in {"failing", "revoking", "failed"} =>
           row.phase \notin {"None", "Deleting"} /\ ~row.sched /\ drive.at = "none"
    /\ op.at = "settled" => row.phase \notin {"None", "Deleting"} /\ map /\ drive.at = "none"
    /\ op.at \in {"unmake", "unmade"} => row.phase = "None"
    /\ op.at \in {"delete", "forgetMap", "forgetToken", "forgetRow"} => row.phase = "Deleting"
    /\ op.at \in {"forgetToken", "forgetRow"} => ~map
    /\ op.at \in {"started", "unstart", "stopped", "project", "rotated"} =>
           row.phase \notin {"None", "Deleting"} /\ drive.at = "none"
    /\ op.at = "autoStopped" => row.phase # "None"
    /\ op.at \in {"attempt", "repush", "remint", "recreate", "recovered"} =>
           row.phase \in {"Lost", "Recovering"} /\ drive.at = "none"
    /\ drive.at # "none" =>
           row.phase \in {"None", "Deleting"} \/ (row.phase = "Pending" /\ ~row.sched /\ map)
    /\ row.sched /\ row.phase # "Deleting" => map
    /\ map => row.phase # "None"
    /\ row.phase # "None" \/ drive.at # "none" => born

IInv == TypeInv /\ LockInv

=============================================================================
