----------------------------- MODULE K8sObjects -----------------------------
\* One sandbox on the cluster: the record kept of it, and the transfers that run
\* in its container or in a helper Pod beside it; and one volume.
EXTENDS Naturals, FiniteSets, Sequences

-----------------------------------------------------------------------------
\* One sandbox on the cluster: the record kept of it, and the transfers that run
\* in its container or in a helper Pod beside it.

-----------------------------------------------------------------------------
\* The record of one sandbox as the cluster driver keeps it (runtime/k8s): a
\* spec stamped on the claim, the credentials beside it in a Secret, and the
\* size the Pod was asked for.  Updates, adoptions from the pool and the move
\* of credentials out of an older version's record run in several processes;
\* each is a read of the claim, writes of the Secret and one guarded patch.

CONSTANTS Writers,    \* callers of the driver, in any process
          Attempts,   \* patchAttempts: guarded patches one call may lose
          MaxOps,     \* calls in a behaviour
          MaxFaults,  \* calls on the API server that fail
          Creator, NoOne

VARIABLES rec,     \* the claim: there, its version, pool label, owner, inline environment, size
          secret,  \* the Secret's keys: environment and token, by who wrote them
          pod,     \* the Pod: live, and the size asked of it
          w,       \* w[p]: the open call of each caller
          held,    \* held[p]: the last call of each caller and what it was answered
          ops, faults

recordVars == <<rec, secret, pod, w, held, ops, faults>>

Values == Writers \cup {Creator, NoOne}
Kinds == {"env", "size", "token", "adopt", "move"}
Idle == [op |-> "none", pc |-> "idle", read |-> NoOne, size |-> NoOne, tries |-> 0]

\* A pool entry, a sandbox of this version, or one an earlier version stamped
\* with its environment inline.
RecordInit ==
  /\ rec \in {[there |-> TRUE, ver |-> 0, pool |-> pool, owner |-> IF pool THEN NoOne ELSE Creator,
               env |-> IF inline THEN Creator ELSE NoOne, size |-> Creator] : pool, inline \in BOOLEAN}
  /\ rec.pool => rec.env = NoOne
  /\ secret = [env |-> IF rec.pool \/ rec.env # NoOne THEN NoOne ELSE Creator, token |-> Creator]
  /\ pod = [live |-> TRUE, asked |-> Creator]
  /\ w = [p \in Writers |-> Idle]
  /\ held = [p \in Writers |-> <<"none", "none">>]
  /\ ops = 0 /\ faults = 0

\* fullSpec: values the record still carries win over the Secret's.
fullSpec == IF rec.env # NoOne THEN rec.env ELSE secret.env

\* ---------------------------------------------------------------- the calls
Goto(p, pc) == w' = [w EXCEPT ![p].pc = pc] /\ UNCHANGED held
Answer(p, what) == w' = [w EXCEPT ![p] = Idle] /\ held' = [held EXCEPT ![p] = <<w[p].op, what>>]

Begin(p, op) ==
  /\ w[p] = Idle /\ ops < MaxOps
  /\ ops' = ops + 1
  /\ w' = [w EXCEPT ![p] = [Idle EXCEPT !.op = op, !.pc = IF op = "token" THEN "putToken" ELSE "read"]]
  /\ UNCHANGED <<rec, secret, pod, held, faults>>

\* A rotated token goes into the Secret the Pod projects, before the record
\* says that there is one.
PutToken(p) ==
  /\ w[p].pc = "putToken"
  /\ IF rec.there
     THEN secret' = [secret EXCEPT !.token = p] /\ Goto(p, "read")
     ELSE Answer(p, "notFound") /\ UNCHANGED secret
  /\ UNCHANGED <<rec, pod, ops, faults>>

\* apply and adopt read the claim; an entry no longer in the pool is not there
\* for an adopter.
Read(p) ==
  /\ w[p].pc = "read"
  /\ IF rec.there /\ (w[p].op = "adopt" => rec.pool)
     THEN w' = [w EXCEPT ![p].read = rec, ![p].pc = IF w[p].op = "adopt" THEN "claim" ELSE "secret"] /\ UNCHANGED held
     ELSE Answer(p, "notFound")
  /\ UNCHANGED <<rec, secret, pod, ops, faults>>

\* What one mutation writes into the Secret before its patch: the credentials
\* the record read still carries, under the environment it sets itself.
secretWrite(p) ==
  IF w[p].op = "env" THEN p
  ELSE IF w[p].read.env # NoOne THEN w[p].read.env ELSE secret.env
\* The record the patch leaves: the size it sets, without credentials.
Built(p) == [w[p].read EXCEPT !.env = NoOne, !.ver = @ + 1, !.size = IF w[p].op = "size" THEN p ELSE @]
\* An environment or a move on a record with no credentials patches nothing.
Empty(p) == w[p].op \in {"env", "move"} /\ w[p].read.env = NoOne

\* putSecret merges its keys into the Secret there, and merges again when it
\* loses a race, so each write of keys is one step.
WriteSecret(p) ==
  /\ w[p].pc = "secret"
  /\ secret' = [secret EXCEPT !.env = secretWrite(p)]
  /\ IF Empty(p) THEN Answer(p, "ok") ELSE Goto(p, "patch")
  /\ UNCHANGED <<rec, pod, ops, faults>>

\* The guarded patch applies to the claim as it was read, or is built again.
Guarded(p) == rec.there /\ rec.ver = w[p].read.ver

Patch(p) ==
  /\ w[p].pc = "patch"
  /\ IF Guarded(p)
     THEN /\ rec' = Built(p)
          /\ IF w[p].op = "size" THEN Goto(p, "resizeRead") ELSE Answer(p, "ok")
     ELSE /\ IF w[p].tries + 1 = Attempts
             THEN Answer(p, "lost")
             ELSE w' = [w EXCEPT ![p].pc = "read", ![p].tries = @ + 1] /\ UNCHANGED held
          /\ UNCHANGED rec
  /\ UNCHANGED <<secret, pod, ops, faults>>

\* The running Pod is asked for the size the record holds by then.
ResizeRead(p) ==
  /\ w[p].pc = "resizeRead"
  /\ IF rec.there
     THEN IF pod.live
          THEN w' = [w EXCEPT ![p].pc = "resize", ![p].size = rec.size] /\ UNCHANGED held
          ELSE Answer(p, "ok")
     ELSE Answer(p, "notFound")
  /\ UNCHANGED <<rec, secret, pod, ops, faults>>
Resize(p) ==
  /\ w[p].pc = "resize"
  /\ pod' = [pod EXCEPT !.asked = IF pod.live THEN w[p].size ELSE @]
  /\ Answer(p, "ok")
  /\ UNCHANGED <<rec, secret, ops, faults>>

\* The pool label is the mutex: the patch tests it and removes it.
Claim(p) ==
  /\ w[p].pc = "claim"
  /\ IF Guarded(p) /\ rec.pool
     THEN /\ rec' = [rec EXCEPT !.ver = @ + 1, !.pool = FALSE, !.owner = p, !.env = NoOne]
          /\ Goto(p, "project")
     ELSE /\ Answer(p, IF rec.there /\ rec.pool THEN "lost" ELSE "notFound")
          /\ UNCHANGED rec
  /\ UNCHANGED <<secret, pod, ops, faults>>
\* The adopter's identity and environment, once the entry is its own; then
\* the Pod's labels, which the model leaves out.
Project(p) ==
  /\ w[p].pc = "project"
  /\ secret' = [env |-> p, token |-> p]
  /\ Answer(p, "ok")
  /\ UNCHANGED <<rec, pod, ops, faults>>
\* A projection that fails removes what was claimed.
Discard(p) ==
  /\ w[p].pc = "discard"
  /\ rec' = [rec EXCEPT !.there = FALSE]
  /\ secret' = [env |-> NoOne, token |-> NoOne]
  /\ pod' = [pod EXCEPT !.live = FALSE]
  /\ Answer(p, "failed")
  /\ UNCHANGED <<ops, faults>>

Fault(p) ==
  /\ w[p] # Idle /\ w[p].pc # "discard"
  /\ faults < MaxFaults /\ faults' = faults + 1
  /\ IF w[p].pc = "project" THEN Goto(p, "discard") ELSE Answer(p, "failed")
  /\ UNCHANGED <<rec, secret, pod, ops>>

\* A Pod ends.
Kubelet ==
  /\ pod.live
  /\ pod' = [pod EXCEPT !.live = FALSE]
  /\ UNCHANGED <<rec, secret, w, held, ops, faults>>

Step(p) ==
  \/ PutToken(p) \/ Read(p) \/ WriteSecret(p) \/ Patch(p) \/ ResizeRead(p) \/ Resize(p)
  \/ Claim(p) \/ Project(p) \/ Discard(p)
RecordNext ==
  \/ \E p \in Writers : Step(p) \/ Fault(p) \/ \E op \in Kinds : Begin(p, op)
  \/ Kubelet

RecordFairness ==
  /\ \A p \in Writers : WF_recordVars(Step(p))

RecordSpec == RecordInit /\ [][RecordNext]_recordVars /\ RecordFairness

\* --------------------------------------------------------------- properties
\* What the record and the Secret hold was written by a caller or the creator,
\* and a call tries its patch at most Attempts times (patchAttempts).
RecordTypeOK ==
  /\ rec.ver \in 0..MaxOps /\ {rec.owner, rec.env, rec.size} \subseteq Values
  /\ {secret.env, secret.token} \subseteq Values
  /\ \A p \in Writers : w[p].tries < Attempts /\ held[p][2] \in {"none", "ok", "notFound", "lost", "failed"}

\* A pool entry goes to one caller: two adopters in two processes that both
\* read it are never both told that it is theirs (pool.go: "exactly one patch
\* applies").
AdoptedOnce == \A p \in Writers :
  w[p].pc \in {"project", "discard"} \/ held[p] = <<"adopt", "ok">> => rec.owner = p /\ ~rec.pool

\* An adopter writes the record, and the Secret the winner's Pod mounts, only
\* once the entry is its own: one told that it is gone left nothing behind.
LoserWritesNothing == [][
  \A p \in Writers : w[p].op = "adopt" /\ w'[p] # w[p] /\ <<rec, secret>>' # <<rec, secret>> => rec'.owner = p]_recordVars

\* A patch changes what its own call is about and nothing else: a size set by
\* one process and an adoption or a move by another never leave a record
\* neither of them wrote (lifecycle.go, apply).
NotMixed == [][
  rec' # rec /\ rec'.there =>
    \E p \in Writers :
      /\ rec'.size # rec.size => w[p].op = "size" /\ rec'.size = p
      /\ rec'.owner # rec.owner => w[p].op = "adopt" /\ rec'.owner = p
      /\ rec'.env # rec.env => rec'.env = NoOne
      /\ rec'.pool # rec.pool => w[p].op = "adopt"]_recordVars

\* The environment of a sandbox is never without a place: at every moment of
\* a move between the record and the Secret, and after a failure in it, a
\* start finds the values in one of the two (credentials.go: "The Secret is
\* written first").
CredentialsSurvive == rec.there /\ rec.owner = Creator => fullSpec # NoOne

\* Once no call is open the running Pod was asked for the size the record holds,
\* whatever crossed it but another change of size and a call that failed: those
\* leave the size for the next start (Driver.resize).
SizeAsked ==
  /\ faults = 0 /\ rec.there /\ pod.live
  /\ \A p, q \in Writers : w[p] = Idle /\ (held[p][1] = "size" /\ held[q][1] = "size" => p = q)
  => pod.asked = rec.size

\* Every call is answered, since a lost patch is tried a bounded number of
\* times.
CallsAnswered == \A p \in Writers : (w[p] # Idle) ~> (w[p] = Idle)

-----------------------------------------------------------------------------
(***************************************************************************)
(* Where a file operation of the cluster driver runs (runtime/k8s/files.go *)
(* transferPod and transfer, runtime/k8s/filestore.go fileSession): in the *)
(* sandbox's own container while it runs, and while it is stopped in a     *)
(* helper Pod over the same claim, which has one name for every transfer   *)
(* of that sandbox, is deleted by that name when a transfer ends, and is   *)
(* never reused.                                                           *)
(***************************************************************************)

CONSTANTS
  Slots,      \* transfers side by side
  MaxCalls,   \* bound: transfers made in all
  MaxFailures,  \* bound: calls of the cluster that fail, waits that run out, control planes that end
  MaxMoves    \* bound: starts and stops of the sandbox

VARIABLES
  ownPod,      \* the sandbox's own Pod: "none", "starting" or "running"
  helper,   \* the helper Pod: its state and which one it is
  calls,    \* the transfers in flight
  issued, failures, moves,
  past      \* what has happened, for the properties

transfersVars == <<ownPod, helper, calls, issued, failures, moves, past>>

NoTransfer == [step |-> "none", on |-> "none", gen |-> 0, since |-> 0]

TransfersInit ==
  /\ ownPod \in {"none", "running"}
  /\ helper = [st |-> "none", gen |-> 0]
  /\ calls = [c \in Slots |-> NoTransfer]
  /\ issued = 0 /\ failures = 0 /\ moves = 0
  /\ past = [reused |-> FALSE, failed |-> FALSE, left |-> FALSE, moved |-> FALSE]

To(c, step) == calls' = [calls EXCEPT ![c].step = step]
TransferAnswer(c) == calls' = [calls EXCEPT ![c] = NoTransfer]
TransferFault == failures < MaxFailures /\ failures' = failures + 1
World == UNCHANGED <<ownPod, issued, moves>>

\* The Pod API: a create of a name that is taken is refused, a delete starts its grace.
HelperCreate == helper.st = "none" /\ helper' = [st |-> "pending", gen |-> helper.gen + 1]
HelperDelete == helper' = IF helper.st = "none" THEN helper ELSE [helper EXCEPT !.st = "going"]

\* The read of the sandbox's Pod decides where the transfer runs.
BeginTransfer(c) ==
  /\ calls[c] = NoTransfer /\ issued < MaxCalls
  /\ issued' = issued + 1
  /\ calls' = [calls EXCEPT ![c] =
       CASE ownPod = "running" -> [NoTransfer EXCEPT !.step = "stream", !.on = "own"]
         [] ownPod = "starting" -> NoTransfer
         [] OTHER -> [NoTransfer EXCEPT !.step = "create", !.on = "helper", !.since = helper.gen]]
  /\ UNCHANGED <<ownPod, helper, failures, moves, past>>

\* The network rule is written again and the helper created; one that is there is deleted first.
Create(c) ==
  /\ calls[c].step = "create"
  /\ \/ HelperCreate /\ To(c, "wait")
     \/ helper.st # "none" /\ helper' = helper /\ To(c, "clear")
  /\ UNCHANGED <<failures, past>> /\ World
Clear(c) ==
  /\ calls[c].step = "clear"
  /\ HelperDelete /\ To(c, "gone")
  /\ UNCHANGED <<failures, past>> /\ World
\* The deleted one is gone; a transfer that finds the name taken once more fails.
Recreate(c) ==
  /\ calls[c].step = "gone"
  /\ \/ HelperCreate /\ To(c, "wait") /\ past' = past
     \/ helper.st \in {"pending", "ready"} /\ helper' = helper /\ TransferAnswer(c) /\ past' = [past EXCEPT !.failed = TRUE]
  /\ failures' = failures /\ World

\* The wait reads whatever Pod has the name.
Ready(c) ==
  /\ calls[c].step = "wait" /\ helper.st = "ready"
  /\ calls' = [calls EXCEPT ![c].step = "stream", ![c].gen = helper.gen]
  /\ past' = [past EXCEPT !.reused = @ \/ helper.gen <= calls[c].since]
  /\ UNCHANGED <<helper, failures>> /\ World

\* No Pod came up within ReadyTimeout.
WaitEnds(c) ==
  /\ calls[c].step = "wait" /\ helper.st \in {"none", "going"}
  /\ To(c, "release") /\ past' = [past EXCEPT !.failed = TRUE]
  /\ UNCHANGED <<helper, failures>> /\ World

\* The command runs in one container, and ends with it.
Serves(c) == IF calls[c].on = "own" THEN ownPod = "running" ELSE helper = [st |-> "ready", gen |-> calls[c].gen]

release(c) == IF calls[c].on = "own" THEN TransferAnswer(c) ELSE To(c, "release")
Done(c) ==
  /\ calls[c].step = "stream" /\ Serves(c)
  /\ release(c)
  /\ UNCHANGED <<helper, failures, past>> /\ World
Cut(c) ==
  /\ calls[c].step = "stream" /\ ~Serves(c)
  /\ release(c) /\ past' = [past EXCEPT !.failed = TRUE]
  /\ UNCHANGED <<helper, failures>> /\ World

\* The release deletes the name, outside the caller's cancellation, and tells nobody how that went.
Release(c) ==
  /\ calls[c].step = "release"
  /\ HelperDelete /\ TransferAnswer(c)
  /\ UNCHANGED <<failures, past>> /\ World

\* A call of the cluster fails, or a wait runs out: the transfer ends where it is.
Fails(c) ==
  /\ TransferFault
  /\ calls[c].step \in {"create", "clear", "gone", "wait", "release"}
  /\ calls' = [calls EXCEPT ![c] = IF @.step = "wait" THEN [@ EXCEPT !.step = "release"] ELSE NoTransfer]
  /\ past' = [past EXCEPT !.failed = TRUE, !.left = @ \/ calls[c].step \in {"clear", "release"}]
  /\ UNCHANGED helper /\ World
\* The control plane ends with its transfers; the helper stays.
Crash ==
  /\ TransferFault
  /\ \E c \in Slots : calls[c] # NoTransfer
  /\ calls' = [c \in Slots |-> NoTransfer]
  /\ past' = [past EXCEPT !.failed = TRUE, !.left = TRUE]
  /\ UNCHANGED helper /\ World

-----------------------------------------------------------------------------
(* The cluster and the sandbox's lifecycle *)

HelperComes == helper.st = "pending" /\ helper' = [helper EXCEPT !.st = "ready"] /\ UNCHANGED <<ownPod, calls, issued, failures, moves, past>>
HelperGoes == helper.st = "going" /\ helper' = [helper EXCEPT !.st = "none"] /\ UNCHANGED <<ownPod, calls, issued, failures, moves, past>>
Moves ==
  /\ moves < MaxMoves
  /\ moves' = moves + 1
  /\ ownPod' = CASE ownPod = "none" -> "starting" [] OTHER -> "none"
  /\ past' = [past EXCEPT !.moved = TRUE]
  /\ UNCHANGED <<helper, calls, issued, failures>>
Started == ownPod = "starting" /\ ownPod' = "running" /\ UNCHANGED <<helper, calls, issued, failures, moves, past>>

Steps(c) ==
  \/ Create(c) \/ Clear(c) \/ Recreate(c) \/ Ready(c) \/ WaitEnds(c) \/ Done(c) \/ Cut(c) \/ Release(c)
TransfersNext ==
  \/ \E c \in Slots : BeginTransfer(c) \/ Steps(c) \/ Fails(c)
  \/ Crash \/ HelperComes \/ HelperGoes \/ Moves \/ Started

TransfersFairness ==
  /\ \A c \in Slots : WF_transfersVars(Steps(c))
  /\ WF_transfersVars(HelperComes) /\ WF_transfersVars(HelperGoes)

TransfersSpec == TransfersInit /\ [][TransfersNext]_transfersVars /\ TransfersFairness

-----------------------------------------------------------------------------
(* Properties *)

\* A transfer is in one of its steps, and one in the sandbox's own container
\* never reaches the steps of a helper.
TransfersTypeOK ==
  /\ ownPod \in {"none", "starting", "running"}
  /\ helper.st \in {"none", "pending", "ready", "going"}
  /\ \A c \in Slots : calls[c].on = "own" => calls[c].step = "stream"

\* A helper the previous transfer left behind is not reused: the one a
\* transfer streams through was made after it began (transferPod).
NotReused == ~past.reused

\* A transfer that is alone, with a sandbox that does not move and a cluster
\* that answers, does not fail: every failure has another transfer, a fault or
\* a start behind it (transferPod).
AloneServed == past.failed => issued > 1 \/ failures > 0 \/ past.moved

\* Every transfer answers, whatever its Pod does.
TransfersEnd == \A c \in Slots : (calls[c] # NoTransfer) ~> (calls[c] = NoTransfer)

\* No helper outlives the transfers: it goes once none is in flight, unless
\* the release itself failed or the control plane ended (release).
HelperDropped ==
  (\A c \in Slots : calls[c] = NoTransfer) ~> (helper.st = "none" \/ past.left \/ \E c \in Slots : calls[c] # NoTransfer)

-----------------------------------------------------------------------------
\* One volume of the cluster driver (runtime/k8s/volume.go): a claim that
\* carries the volume's phase, and for an image source a Pod that fills it.
\* The controller's volume loop has one turn at a time on it
\* (c.filling), with the controller's lock released until it settles.

CONSTANTS MaxPasses, MaxVolumeFaults

VARIABLES source,   \* "empty" or "image"
          claim,    \* "no", "there", "going"
          phase,    \* the claim's phase annotation
          fpod,     \* the fill Pod: "no", "running", "late", "succeeded", "failed", "going"
          data,     \* "empty", "partial", "whole"
          row,      \* the controller's volume
          turn,     \* c.filling: the steps left of the driver's turn, what it read
          passes, volumeFaults

volumeVars == <<source, claim, phase, fpod, data, row, turn, passes, volumeFaults>>

NoTurn == [steps |-> <<>>, verdict |-> "none", op |-> "none"]

VolumeInit ==
  /\ source \in {"empty", "image"}
  /\ claim = "no" /\ phase = "none" /\ fpod = "no" /\ data = "empty"
  /\ row = "Pending" /\ turn = NoTurn
  /\ passes = 0 /\ volumeFaults = 0

At(step) == turn.steps # <<>> /\ Head(turn.steps) = step
Go(steps) == turn' = [turn EXCEPT !.steps = steps]
Deletes == [NoTurn EXCEPT !.steps = <<"rmPod", "rmClaim">>, !.op = "Delete"]

\* ------------------------------------------------------------ the loop's turn
\* FillVolumes and fill: a Pending volume is created and read, a delete left
\* to the loop is finished.
Fill ==
  /\ turn = NoTurn
  /\ \/ /\ row = "Pending" /\ passes < MaxPasses /\ passes' = passes + 1
        /\ turn' = [NoTurn EXCEPT !.steps = <<"claim">>, !.op = "Create"]
     \/ row = "Deleting" /\ turn' = Deletes /\ UNCHANGED passes
  /\ UNCHANGED <<source, claim, phase, fpod, data, row, volumeFaults>>

\* CreateVolume: a claim being deleted keeps its name; one that is there and
\* Pending has its Pod made again.
MakeClaim ==
  /\ At("claim")
  /\ IF claim = "no"
     THEN /\ claim' = "there" /\ data' = IF source = "empty" THEN "whole" ELSE "empty"
          /\ phase' = IF source = "empty" THEN "Available" ELSE "Pending"
     ELSE UNCHANGED <<claim, data, phase>>
  /\ Go(IF claim' = "there" /\ phase' = "Pending" THEN <<"pod", "inspect">> ELSE <<"inspect">>)
  /\ UNCHANGED <<source, fpod, row, passes, volumeFaults>>
\* putFillPod: a Pod that exists is left as it is.
MakePod ==
  /\ At("pod") /\ Go(Tail(turn.steps))
  /\ fpod' = IF fpod = "no" THEN "running" ELSE fpod
  /\ UNCHANGED <<source, claim, phase, data, row, passes, volumeFaults>>

\* Bug: a Pod that ended speaks for a whole fill.
fillVerdictEnded ==
  IF fpod \in {"succeeded", "failed"} THEN "Available" ELSE IF fpod = "late" THEN "Failed" ELSE "Pending"

\* fillVerdict: what the Pod says about its volume.
fillVerdict ==
  CASE fpod = "succeeded" -> "Available"
    [] fpod \in {"failed", "late"} -> "Failed"
    [] OTHER -> "Pending"

\* InspectVolume: the claim, then the Pod of one that is Pending.
InspectClaim ==
  /\ At("inspect")
  /\ turn' = [turn EXCEPT !.op = "Inspect",
       !.steps = IF claim = "there" /\ phase = "Pending" THEN <<"read">> ELSE <<"settle">>,
       !.verdict = IF claim = "there" THEN phase ELSE "Pending"]
  /\ UNCHANGED <<source, claim, phase, fpod, data, row, passes, volumeFaults>>
ReadPod ==
  /\ At("read")
  /\ turn' = [turn EXCEPT !.verdict = fillVerdict,
       !.steps = IF fillVerdict = "Pending" THEN <<"settle">> ELSE <<"write", "podGoes", "settle">>]
  /\ UNCHANGED <<source, claim, phase, fpod, data, row, passes, volumeFaults>>
\* The verdict is on the claim before the Pod goes.
WriteVerdict ==
  /\ At("write") /\ Go(Tail(turn.steps))
  /\ phase' = turn.verdict
  /\ UNCHANGED <<source, claim, fpod, data, row, passes, volumeFaults>>
PodGoes ==
  /\ (At("podGoes") \/ At("rmPod")) /\ Go(Tail(turn.steps))
  /\ fpod' = IF fpod = "no" THEN "no" ELSE "going"
  /\ UNCHANGED <<source, claim, phase, data, row, passes, volumeFaults>>

\* settleVolume: the row as it now stands decides; one deleted during the
\* turn has what the turn made removed.
Settle ==
  /\ At("settle")
  /\ IF row = "Pending" THEN turn' = NoTurn /\ row' = turn.verdict
                         ELSE turn' = Deletes /\ UNCHANGED row
  /\ UNCHANGED <<source, claim, phase, fpod, data, passes, volumeFaults>>

\* The controller's DeleteVolume, and finishVolumeDelete's row after the
\* driver's DeleteVolume; a volume in a turn is left to the turn's settle.
Delete ==
  /\ row \in {"Pending", "Available", "Failed"} /\ row' = "Deleting"
  /\ turn' = IF turn = NoTurn THEN Deletes ELSE turn
  /\ UNCHANGED <<source, claim, phase, fpod, data, passes, volumeFaults>>
RemoveClaim ==
  /\ At("rmClaim") /\ turn' = NoTurn
  /\ claim' = IF claim = "no" THEN "no" ELSE "going"
  /\ row' = "gone"
  /\ UNCHANGED <<source, phase, fpod, data, passes, volumeFaults>>

\* The API server fails the next call, or the process dies before it.
VolumeFault ==
  /\ turn # NoTurn /\ volumeFaults < MaxVolumeFaults
  /\ volumeFaults' = volumeFaults + 1 /\ turn' = NoTurn
  /\ UNCHANGED <<source, claim, phase, fpod, data, row, passes>>

\* --------------------------------------------------------------- the cluster
PodFills ==
  /\ fpod \in {"running", "late"} /\ claim = "there"
  /\ \/ data' = "partial" /\ UNCHANGED fpod
     \/ data' = "whole" /\ fpod' = "succeeded"
     \/ fpod' = "failed" /\ UNCHANGED data
     \/ fpod = "running" /\ fpod' = "late" /\ UNCHANGED data
  /\ UNCHANGED <<source, claim, phase, row, turn, passes, volumeFaults>>
PodGone ==
  /\ fpod = "going" /\ fpod' = "no"
  /\ UNCHANGED <<source, claim, phase, data, row, turn, passes, volumeFaults>>
\* A claim goes once no Pod mounts it; a Pod whose claim went is collected.
ClaimGone ==
  /\ claim = "going" /\ fpod = "no"
  /\ claim' = "no" /\ phase' = "none" /\ data' = "empty"
  /\ UNCHANGED <<source, fpod, row, turn, passes, volumeFaults>>
PodCollected ==
  /\ claim = "no" /\ fpod \notin {"no", "going"} /\ fpod' = "going"
  /\ UNCHANGED <<source, claim, phase, data, row, turn, passes, volumeFaults>>

Turn == MakeClaim \/ MakePod \/ InspectClaim \/ ReadPod \/ WriteVerdict \/ PodGoes \/ Settle \/ RemoveClaim
VolumeNext == Fill \/ Turn \/ Delete \/ VolumeFault \/ PodFills \/ PodGone \/ ClaimGone \/ PodCollected

VolumeFairness ==
  /\ WF_volumeVars(Fill) /\ WF_volumeVars(Turn)
  /\ WF_volumeVars(PodGone) /\ WF_volumeVars(ClaimGone) /\ WF_volumeVars(PodCollected)

VolumeSpec == VolumeInit /\ [][VolumeNext]_volumeVars /\ VolumeFairness

\* --------------------------------------------------------------- properties
\* The claim's and the Pod's states stay within those the driver reads.
VolumeTypeOK ==
  /\ claim \in {"no", "there", "going"} /\ phase \in {"none", "Pending", "Available", "Failed"}
  /\ row \in {"Pending", "Available", "Failed", "Deleting", "gone"}
  /\ fpod \in {"no", "running", "late", "succeeded", "failed", "going"}
  /\ (claim = "no") = (phase = "none")

\* The volume as runtime/volume.go promises it, a claim being deleted being a
\* volume already gone.
V == INSTANCE VolumeDriver WITH
  phase <- IF claim = "there" THEN phase ELSE "none",
  whole <- data = "whole", lost <- FALSE,
  open <- {turn.op} \ {"none"}

\* The driver keeps the contract: Available means whole, a verdict stands
\* though the process died between writing it and removing the Pod.
FillContract == V!Spec

\* The row's verdict is the claim's, whatever the turn that settled it and
\* however often the loop was cut off.
RowAgrees == row \in {"Available", "Failed"} => claim = "there" /\ phase = row

\* A deleted volume's claim and fill Pod go and stay gone, though the delete
\* came during a turn that was still making them.
DeletedGoes == (row = "Deleting") ~> [](claim = "no" /\ fpod = "no")

=============================================================================
