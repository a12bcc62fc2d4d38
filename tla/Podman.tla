------------------------------- MODULE Podman -------------------------------
\* The podman driver: one sandbox, and one volume.
EXTENDS Naturals, Sequences, FiniteSets

-----------------------------------------------------------------------------
\* The podman driver (runtime/podman).  One sandbox is a workspace volume,
\* which is the sandbox, a container, and its record: a volume per generation,
\* the highest being the record.  A mutation writes generation n+1 and then
\* removes n; the engine refuses a second volume of one name, which is the
\* only exclusion between two driver instances over one engine.  Inside one
\* instance a lock per sandbox orders creates, deletes and edits.

CONSTANTS Callers, MaxCalls, MaxFaults, NoOne

VARIABLES ws,      \* the workspace volume exists
          cont,    \* the container: "no", "created", "running", "exited" (by itself), "stopped"
          recs,    \* the record volumes: generation, stop flag, pool flag, who made or adopted it
          net,     \* the mesh's network exists
          token,   \* whose identity the container holds
          call,    \* call[p]: the open call of each caller
          held,    \* the callers told that they adopted the entry
          ended,   \* a delete of the sandbox was asked for: its id is not used again
          apart,   \* the callers are in two processes, each with a driver of its own
          calls, faults

sandboxVars == <<ws, cont, recs, net, token, call, held, ended, apart, calls, faults>>
engine == <<ws, cont, recs, net, token>>

Idle == [op |-> "none", steps |-> <<>>, ok |-> TRUE, locked |-> FALSE, read |-> NoOne, mesh |-> FALSE, mixed |-> FALSE, whose |-> NoOne]
Entry == [gen |-> 1, stopped |-> FALSE, pool |-> TRUE, owner |-> NoOne]

EditSteps == <<"read", "write", "sweep">>
CreateSteps == <<"ws", "first", "container", "network", "connect", "project", "run">>
RemoveSteps == <<"inspect", "rmCont", "rmRecs", "rmWs", "members", "rmNet">>
UndoSteps == <<"rmCont", "rmRecs", "rmWs">>

StepsOf(op) ==
  CASE op = "Create" -> CreateSteps
    [] op = "Start" -> <<"exists", "start">> \o EditSteps
    [] op = "Stop" -> <<"exists">> \o EditSteps \o <<"stop">>
    [] op = "Delete" -> RemoveSteps
    [] op = "Update" -> EditSteps
    [] op = "Rotate" -> <<"reproject">> \o EditSteps
    [] op = "Adopt" -> EditSteps \o <<"projectAdopted">>

\* Nothing there, an entry of the pool that runs, or a sandbox that does.
SandboxInit ==
  /\ ws \in BOOLEAN /\ token \in IF ws THEN Callers \cup {NoOne} ELSE {NoOne}
  /\ cont = IF ws THEN "running" ELSE "no"
  /\ recs = IF ws THEN {[Entry EXCEPT !.pool = token = NoOne, !.owner = token]} ELSE {}
  /\ net = FALSE
  /\ call = [p \in Callers |-> Idle]
  /\ held = {}
  /\ apart \in BOOLEAN /\ ended = ws
  /\ calls = 0 /\ faults = 0

\* ------------------------------------------------------------ record volumes
Gens == {r.gen : r \in recs}
Highest == CHOOSE r \in recs : \A s \in recs : s.gen <= r.gen

\* --------------------------------------------------------------------- calls
Open == {p \in Callers : call[p] # Idle}
\* The control plane starts and stops a sandbox and rotates its identity, never
\* an entry of its pool, and its lock orders all but the creates and the edits
\* of one process.  The identity it rotates is the sandbox's own.
Ordered == {"Start", "Stop", "Delete", "Adopt"}
Begin(p, op) ==
  /\ call[p] = Idle /\ calls < MaxCalls
  /\ op \in {"Start", "Stop", "Rotate"} => \A r \in recs : r = Highest => ~r.pool
  /\ op \in Ordered /\ ~apart => \A q \in Callers : call[q].op \notin Ordered
  /\ op = "Create" => ~ended
  /\ ended' = (ended \/ op = "Delete")
  /\ calls' = calls + 1
  /\ call' = [q \in Callers |->
       IF q = p THEN [Idle EXCEPT !.op = op, !.steps = StepsOf(op), !.mixed = Open # {},
                              !.whose = IF op = "Rotate" /\ recs # {} THEN Highest.owner ELSE p]
       ELSE [call[q] EXCEPT !.mixed = @ \/ call[q] # Idle]]
  /\ UNCHANGED <<engine, held, apart, faults>>

Now(p) == IF call[p].steps = <<>> THEN "end" ELSE Head(call[p].steps)
At(p, s) == call[p] # Idle /\ Now(p) = s
Then(p) == call' = [call EXCEPT ![p].steps = Tail(@)] /\ UNCHANGED <<held, ended, apart, calls, faults>>
\* A create that fails undoes its steps and an adoption that cannot project
\* removes the sandbox; every other call just fails.
OnFailure(p) ==
  IF call[p].op = "Create" /\ Now(p) # "ws" THEN UndoSteps
  ELSE IF call[p].op = "Adopt" /\ Now(p) = "projectAdopted" THEN RemoveSteps
  ELSE <<>>
Fails(p) ==
  /\ call' = [call EXCEPT ![p].steps = OnFailure(p), ![p].ok = FALSE]
  /\ UNCHANGED <<held, ended, apart, calls>>
Refused(p) == Fails(p) /\ UNCHANGED faults
UndoFault(p) == ~call[p].ok /\ call[p].op = "Create"

\* The engine fails one call.  The undoing of a create ignores failures.
Fault(p) ==
  /\ call[p] # Idle /\ Now(p) # "end"
  /\ faults < MaxFaults /\ faults' = faults + 1
  /\ IF UndoFault(p) \/ Now(p) \in {"sweep", "inspect"}
     THEN call' = [call EXCEPT ![p].steps = Tail(@)] /\ UNCHANGED <<held, ended, apart, calls>>
     ELSE Fails(p)
  /\ UNCHANGED engine

\* lock: one instance orders the locked calls of its own callers.
Free(p) == \A q \in Callers \ {p} : ~call[q].locked \/ apart

Lock(p) == call' = [call EXCEPT ![p].steps = Tail(@), ![p].locked = TRUE]

CreateWorkspace(p) ==
  /\ At(p, "ws") /\ Free(p)
  /\ IF ws THEN Refused(p) /\ UNCHANGED ws
     ELSE ws' = TRUE /\ Lock(p) /\ UNCHANGED <<held, ended, apart, calls, faults>>
  /\ UNCHANGED <<cont, recs, net, token>>
FirstRecord(p) ==
  /\ At(p, "first")
  /\ IF 1 \in Gens THEN Refused(p) /\ UNCHANGED recs
     ELSE recs' = recs \cup {[Entry EXCEPT !.pool = FALSE, !.owner = p]} /\ Then(p)
  /\ UNCHANGED <<ws, cont, net, token>>
CreateContainer(p) ==
  /\ At(p, "container")
  /\ IF cont # "no" THEN Refused(p) /\ UNCHANGED cont ELSE cont' = "created" /\ Then(p)
  /\ UNCHANGED <<ws, recs, net, token>>
CreateNetwork(p) == At(p, "network") /\ net' = TRUE /\ Then(p) /\ UNCHANGED <<ws, cont, recs, token>>
Connect(p) ==
  /\ At(p, "connect")
  /\ IF net /\ cont # "no" THEN Then(p) ELSE Refused(p)
  /\ UNCHANGED engine
\* An Update puts its token in the container before the edit takes the lock.
Project(p) ==
  /\ Now(p) \in {"project", "projectAdopted", "reproject"} /\ call[p] # Idle
  /\ IF cont = "no" THEN Refused(p) /\ UNCHANGED token ELSE token' = call[p].whose /\ Then(p)
  /\ UNCHANGED <<ws, cont, recs, net>>
RunContainer(p) ==
  /\ Now(p) \in {"run", "start"} /\ call[p] # Idle
  /\ IF cont = "no" THEN Refused(p) /\ UNCHANGED cont ELSE cont' = "running" /\ Then(p)
  /\ UNCHANGED <<ws, recs, net, token>>
StopContainer(p) ==
  /\ At(p, "stop")
  /\ IF cont = "no" THEN Refused(p) /\ UNCHANGED cont
     ELSE cont' = (IF cont = "running" THEN "stopped" ELSE cont) /\ Then(p)
  /\ UNCHANGED <<ws, recs, net, token>>
Exists(p) ==
  /\ At(p, "exists")
  /\ IF ws THEN Then(p) ELSE Refused(p)
  /\ UNCHANGED engine

\* edit and adopt: the highest generation, the ones below it swept.
ReadRecord(p) ==
  /\ At(p, "read") /\ Free(p)
  /\ IF ws /\ recs # {} /\ (call[p].op = "Adopt" => Highest.pool)
     THEN /\ recs' = {Highest}
          /\ call' = [call EXCEPT ![p].steps = Tail(@), ![p].locked = TRUE, ![p].read = Highest]
          /\ UNCHANGED <<held, ended, apart, calls, faults>>
     ELSE Refused(p) /\ UNCHANGED recs
  /\ UNCHANGED <<ws, cont, net, token>>

Edited(p) ==
  LET r == [call[p].read EXCEPT !.gen = @ + 1] IN
  CASE call[p].op = "Stop" -> [r EXCEPT !.stopped = TRUE]
    [] call[p].op = "Start" -> [r EXCEPT !.stopped = FALSE]
    [] call[p].op = "Adopt" -> [r EXCEPT !.stopped = FALSE, !.pool = FALSE, !.owner = p]
    [] OTHER -> r
Unchanged(p) == call[p].op \in {"Start", "Stop"} /\ call[p].read.stopped = (call[p].op = "Stop")
AfterEdit(p) == [call EXCEPT ![p].steps = Tail(Tail(@)), ![p].locked = @ /\ call[p].op = "Adopt"]

WriteRecord(p) ==
  /\ At(p, "write")
  /\ IF Unchanged(p)
     THEN call' = AfterEdit(p) /\ UNCHANGED <<recs, held, ended, apart, calls, faults>>
     ELSE IF Edited(p).gen \in Gens THEN Refused(p) /\ UNCHANGED recs
     ELSE recs' = recs \cup {Edited(p)} /\ Then(p)
  /\ UNCHANGED <<ws, cont, net, token>>

\* Bug: the lock is let go only once no other call is open.
SweepRecordLocked(p) ==
  /\ At(p, "sweep")
  /\ recs' = {r \in recs : r.gen # call[p].read.gen}
  /\ call' = [call EXCEPT ![p].steps = IF \E q \in Callers \ {p} : call[q] # Idle THEN @ ELSE Tail(@)]
  /\ UNCHANGED <<ws, cont, net, token, held, ended, apart, calls, faults>>

\* writeRecord: the generation that was read is removed.
SweepRecord(p) ==
  /\ At(p, "sweep")
  /\ recs' = {r \in recs : r.gen # call[p].read.gen}
  /\ call' = [call EXCEPT ![p].steps = Tail(@), ![p].locked = @ /\ call[p].op = "Adopt"]
  /\ UNCHANGED <<ws, cont, net, token, held, ended, apart, calls, faults>>

\* deleteLocked, and the undoing of a create.
InspectMesh(p) ==
  /\ At(p, "inspect") /\ Free(p)
  /\ call' = [call EXCEPT ![p].steps = Tail(@), ![p].locked = TRUE, ![p].mesh = ws /\ recs # {}]
  /\ UNCHANGED <<engine, held, ended, apart, calls, faults>>
RemoveContainer(p) == At(p, "rmCont") /\ cont' = "no" /\ token' = NoOne /\ Then(p) /\ UNCHANGED <<ws, recs, net>>

RemoveRecords(p) ==
  /\ At(p, "rmRecs")
  /\ recs' = IF call[p].op = "Create" THEN {r \in recs : r.gen # 1} ELSE {}
  /\ Then(p) /\ UNCHANGED <<ws, cont, net, token>>
RemoveWorkspace(p) == At(p, "rmWs") /\ ws' = FALSE /\ Then(p) /\ UNCHANGED <<cont, recs, net, token>>
ListMembers(p) ==
  /\ At(p, "members")
  /\ call' = [call EXCEPT ![p].steps = IF call[p].mesh THEN Tail(@) ELSE <<>>]
  /\ UNCHANGED <<engine, held, ended, apart, calls, faults>>
RemoveNetwork(p) == At(p, "rmNet") /\ net' = FALSE /\ Then(p) /\ UNCHANGED <<ws, cont, recs, token>>

Return(p) ==
  /\ At(p, "end")
  /\ call' = [call EXCEPT ![p] = Idle]
  /\ held' = IF call[p].op = "Adopt" /\ call[p].ok THEN held \cup {p} ELSE held
  /\ UNCHANGED <<engine, ended, apart, calls, faults>>

\* A process dies with the calls of its driver.
Crash(p) ==
  /\ faults < MaxFaults /\ faults' = faults + 1
  /\ call[p] # Idle
  /\ call' = [q \in Callers |-> IF q = p \/ ~apart THEN Idle ELSE call[q]]
  /\ UNCHANGED <<engine, held, ended, apart, calls>>
\* A workload ends by itself.
Exits ==
  /\ cont = "running" /\ cont' = "exited"
  /\ UNCHANGED <<ws, recs, net, token, call, held, ended, apart, calls, faults>>

Step(p) ==
  \/ CreateWorkspace(p) \/ FirstRecord(p) \/ CreateContainer(p) \/ CreateNetwork(p) \/ Connect(p)
  \/ Project(p) \/ RunContainer(p) \/ StopContainer(p) \/ Exists(p)
  \/ ReadRecord(p) \/ WriteRecord(p) \/ SweepRecord(p)
  \/ InspectMesh(p) \/ RemoveContainer(p) \/ RemoveRecords(p) \/ RemoveWorkspace(p)
  \/ ListMembers(p) \/ RemoveNetwork(p) \/ Return(p)
Ops == {"Create", "Start", "Stop", "Delete", "Update", "Rotate", "Adopt"}
SandboxNext ==
  \/ \E p \in Callers : Step(p) \/ Fault(p) \/ Crash(p) \/ \E op \in Ops : Begin(p, op)
  \/ Exits

SandboxFairness ==
  /\ \A p \in Callers : WF_sandboxVars(Step(p))

SandboxSpec == SandboxInit /\ [][SandboxNext]_sandboxVars /\ SandboxFairness

\* --------------------------------------------------------------- properties
\* No two record volumes have one generation: the engine refuses a second of one
\* name.
SandboxTypeOK ==
  /\ cont \in {"no", "created", "running", "exited", "stopped"}
  /\ Gens \subseteq 1..(MaxCalls + 1) /\ Cardinality(Gens) = Cardinality(recs)
  /\ token \in Callers \cup {NoOne}

\* A mutation never leaves a sandbox without a readable record, though the
\* process dies between the write of a generation and the removal of the one
\* it replaces, and though another driver sweeps beside it (writeRecord: "so a
\* crash between them leaves the newer readable").
RecordStays == [][recs # {} /\ recs' = {} => \E p \in Callers : At(p, "rmRecs")]_sandboxVars

\* Inside one driver an entry is adopted once, and the container holds no
\* identity but its adopter's: the lock and the generation exclude the other.
AdoptedOnce == ~apart =>
  /\ Cardinality(held) <= 1
  /\ \A p \in held : recs # {} => Highest.owner = p /\ token \in {p, NoOne}

\* A sandbox an operator stopped does not read as one whose workload failed,
\* whatever edits ran beside the stop (phaseOf reads the flag Stop sets before
\* it stops the container).
StopReads ==
  cont = "stopped" /\ recs # {} /\ ~apart /\ (\A p \in Callers : call[p].op # "Start") => Highest.stopped

\* A delete that ran by itself and held leaves nothing of the sandbox.
DeleteLeavesNothing ==
  \A p \in Callers : At(p, "end") /\ call[p].op = "Delete" /\ call[p].ok /\ ~call[p].mixed =>
    ~ws /\ cont = "no" /\ recs = {}

\* Every call returns: no caller waits on a lock for ever.
CallsEnd == \A p \in Callers : (call[p] # Idle) ~> (call[p] = Idle)

-----------------------------------------------------------------------------
\* One volume of the Podman driver (runtime/podman/volume.go): a data volume,
\* the two containers a fill makes, and a record volume that says the fill is
\* whole.  The controller's loop has one turn at a time on it; the reaper's
\* read takes no lock and runs beside it.

CONSTANTS MaxPasses, MaxVolumeFaults

VARIABLES source,   \* "empty", "image", "unreachable"
          data,     \* "no", "empty", "partial", "whole"
          record,   \* the record volume exists
          fillers,  \* the fill containers exist
          mounted,  \* a sandbox's container mounts the data volume
          row, turn, watch, passes, volumeFaults,
          lost      \* the engine lost the data volume

volumeVars == <<source, data, record, fillers, mounted, row, turn, watch, passes, volumeFaults, lost>>

NoTurn == [steps |-> <<>>, verdict |-> "none", op |-> "none"]

VolumeInit ==
  /\ source \in {"empty", "image", "unreachable"}
  /\ data = "no" /\ record = FALSE /\ fillers = FALSE /\ mounted = FALSE
  /\ row = "Pending" /\ turn = NoTurn /\ watch = "idle"
  /\ passes = 0 /\ volumeFaults = 0 /\ lost = FALSE

TurnAt(step) == turn.steps # <<>> /\ Head(turn.steps) = step
Go(steps) == turn' = [turn EXCEPT !.steps = steps]

\* Bug: the record is removed before the data.
RemoveRecordFirst == <<"rmFillers", "rmRecord", "rmData">>

\* removeVolumeObjects: data before record.
Remove == <<"rmFillers", "rmData", "rmRecord">>
Deletes == [NoTurn EXCEPT !.steps = Remove \o <<"gone">>, !.op = "Delete"]

\* What a step that fails leaves to do: fillFromImage removes its containers
\* on every path, and a fill that failed its data volume.
TurnLeft ==
  IF \E s \in {"source", "export", "copy"} : TurnAt(s) THEN <<"rmFillers", "rmData">>
  ELSE IF TurnAt("record") THEN <<"rmData">> ELSE <<>>

Fill ==
  /\ turn = NoTurn
  /\ \/ /\ row = "Pending" /\ passes < MaxPasses /\ passes' = passes + 1
        /\ turn' = [NoTurn EXCEPT !.steps = <<"filled">>, !.op = "Create"]
     \/ row = "Deleting" /\ turn' = Deletes /\ UNCHANGED passes
  /\ UNCHANGED <<source, data, record, fillers, mounted, row, watch, volumeFaults, lost>>

\* CreateVolume: a volume already filled is read; anything less is removed
\* and filled from the start.
VolumeFilled ==
  /\ TurnAt("filled")
  /\ Go(IF data # "no" /\ record THEN <<"inspect", "settle">>
        ELSE Remove \o <<"data">>
             \o (IF source = "empty" THEN <<>> ELSE <<"source", "export", "copy", "rmFillers">>)
             \o <<"record", "inspect", "settle">>)
  /\ UNCHANGED <<source, data, record, fillers, mounted, row, watch, passes, volumeFaults, lost>>

MakeData ==
  /\ TurnAt("data") /\ Go(Tail(turn.steps))
  /\ data' = IF source = "empty" THEN "whole" ELSE "empty"
  /\ UNCHANGED <<source, record, fillers, mounted, row, watch, passes, volumeFaults, lost>>
\* The image's digest: a pull that fails is a FillError, a Failed reading.
PullImage ==
  /\ TurnAt("source")
  /\ turn' = IF source = "image" THEN [turn EXCEPT !.steps = Tail(@)]
             ELSE [turn EXCEPT !.steps = <<"rmData", "settle">>, !.verdict = "Failed"]
  /\ UNCHANGED <<source, data, record, fillers, mounted, row, watch, passes, volumeFaults, lost>>
MakeFillers ==
  /\ TurnAt("export") /\ Go(Tail(turn.steps))
  /\ fillers' = TRUE
  /\ UNCHANGED <<source, data, record, mounted, row, watch, passes, volumeFaults, lost>>
\* copyRoot: the export streams in; one larger than the volume is a FillError.
CopyRoot ==
  /\ TurnAt("copy")
  /\ \/ data' = "partial" /\ data = "empty" /\ UNCHANGED turn
     \/ data' = "whole" /\ Go(Tail(turn.steps))
     \/ /\ turn' = [turn EXCEPT !.steps = <<"rmFillers", "rmData", "settle">>, !.verdict = "Failed"]
        /\ UNCHANGED data
  /\ UNCHANGED <<source, record, fillers, mounted, row, watch, passes, volumeFaults, lost>>
RemoveFillers ==
  /\ TurnAt("rmFillers") /\ Go(Tail(turn.steps))
  /\ fillers' = FALSE
  /\ UNCHANGED <<source, data, record, mounted, row, watch, passes, volumeFaults, lost>>
\* removeDataVolume is without force: the engine refuses one in use, and the
\* turn ends there.
RemoveData ==
  /\ TurnAt("rmData")
  /\ IF data # "no" /\ (mounted \/ fillers)
     THEN UNCHANGED data /\ turn' = IF turn.verdict = "Failed" THEN [turn EXCEPT !.steps = Tail(@)] ELSE NoTurn
     ELSE data' = "no" /\ Go(Tail(turn.steps))
  /\ UNCHANGED <<source, record, fillers, mounted, row, watch, passes, volumeFaults, lost>>
RemoveRecord ==
  /\ TurnAt("rmRecord") /\ Go(Tail(turn.steps))
  /\ record' = FALSE
  /\ UNCHANGED <<source, data, fillers, mounted, row, watch, passes, volumeFaults, lost>>
WriteVolumeRecord ==
  /\ TurnAt("record") /\ Go(Tail(turn.steps))
  /\ record' = TRUE
  /\ UNCHANGED <<source, data, fillers, mounted, row, watch, passes, volumeFaults, lost>>
\* InspectVolume: Available once the record exists.
Inspect ==
  /\ TurnAt("inspect")
  /\ turn' = [turn EXCEPT !.steps = Tail(@), !.op = "Inspect",
                          !.verdict = IF data # "no" /\ record THEN "Available" ELSE "Pending"]
  /\ UNCHANGED <<source, data, record, fillers, mounted, row, watch, passes, volumeFaults, lost>>

\* settleVolume, DeleteVolume and finishVolumeDelete of the controller.
Settle ==
  /\ TurnAt("settle")
  /\ IF row = "Pending" THEN turn' = NoTurn /\ row' = turn.verdict
                        ELSE turn' = Deletes /\ UNCHANGED row
  /\ UNCHANGED <<source, data, record, fillers, mounted, watch, passes, volumeFaults, lost>>
Delete ==
  /\ row \in {"Pending", "Available", "Failed", "Lost"} /\ row' = "Deleting"
  /\ turn' = IF turn = NoTurn THEN Deletes ELSE turn
  /\ UNCHANGED <<source, data, record, fillers, mounted, watch, passes, volumeFaults, lost>>
Gone ==
  /\ TurnAt("gone") /\ turn' = NoTurn /\ row' = "gone"
  /\ UNCHANGED <<source, data, record, fillers, mounted, watch, passes, volumeFaults, lost>>

\* observeVolumes: the reaper's read of an Available volume, and the row as it
\* stands when the read is done.
Observe ==
  /\ watch = "idle" /\ row = "Available"
  /\ watch' = IF data = "no" THEN "missing" ELSE "idle"
  /\ UNCHANGED <<source, data, record, fillers, mounted, row, turn, passes, volumeFaults, lost>>
Missing ==
  /\ watch = "missing" /\ watch' = "idle"
  /\ row' = IF row = "Available" THEN "Lost" ELSE row
  /\ UNCHANGED <<source, data, record, fillers, mounted, turn, passes, volumeFaults, lost>>

\* The engine fails the next call, having applied it or not; a process that
\* dies also leaves the cleanup undone.
Applied ==
  /\ data' \in {data} \cup (IF TurnAt("data") THEN {"empty"} ELSE IF TurnAt("rmData") /\ ~mounted /\ ~fillers THEN {"no"} ELSE {})
  /\ record' \in {record} \cup (IF TurnAt("record") THEN {TRUE} ELSE IF TurnAt("rmRecord") THEN {FALSE} ELSE {})
  /\ fillers' \in {fillers} \cup (IF TurnAt("export") THEN {TRUE} ELSE {})
VolumeFault ==
  /\ turn # NoTurn /\ volumeFaults < MaxVolumeFaults /\ volumeFaults' = volumeFaults + 1
  /\ Applied
  /\ turn' \in {NoTurn, [NoTurn EXCEPT !.steps = TurnLeft, !.op = turn.op]}
  /\ UNCHANGED <<source, mounted, row, watch, passes, lost>>
\* A cleanup's own end.
CleanedUp ==
  /\ turn # NoTurn /\ turn.steps = <<>> /\ turn' = NoTurn
  /\ UNCHANGED <<source, data, record, fillers, mounted, row, watch, passes, volumeFaults, lost>>

\* A sandbox's container, and a volume removed beside the driver.
Mount ==
  /\ IF mounted THEN TRUE ELSE row = "Available" /\ data # "no"
  /\ mounted' = ~mounted
  /\ UNCHANGED <<source, data, record, fillers, row, turn, watch, passes, volumeFaults, lost>>
Lose ==
  /\ ~mounted /\ row = "Available" /\ volumeFaults < MaxVolumeFaults /\ volumeFaults' = volumeFaults + 1
  /\ data' = "no" /\ lost' = TRUE
  /\ UNCHANGED <<source, record, fillers, mounted, row, turn, watch, passes>>

Turn == VolumeFilled \/ MakeData \/ PullImage \/ MakeFillers \/ CopyRoot \/ RemoveFillers \/ RemoveData
        \/ RemoveRecord \/ WriteVolumeRecord \/ Inspect \/ Settle \/ Gone \/ CleanedUp
VolumeNext == Fill \/ Turn \/ Delete \/ Observe \/ Missing \/ VolumeFault \/ Mount \/ Lose

VolumeFairness ==
  /\ WF_volumeVars(Fill) /\ WF_volumeVars(Turn) /\ WF_volumeVars(Missing)

VolumeSpec == VolumeInit /\ [][VolumeNext]_volumeVars /\ VolumeFairness

\* --------------------------------------------------------------- properties
\* A fill's containers never outlive the volume's row.
VolumeTypeOK ==
  /\ data \in {"no", "empty", "partial", "whole"} /\ record \in BOOLEAN /\ fillers \in BOOLEAN
  /\ row \in {"Pending", "Available", "Failed", "Lost", "Deleting", "gone"}
  /\ row = "gone" => ~fillers

\* The volume as runtime/volume.go promises it.
V == INSTANCE VolumeDriver WITH
  phase <- CASE data = "no" -> "none" [] record -> "Available" [] OTHER -> "Pending",
  whole <- data = "whole",
  open <- {turn.op} \ {"none"}

\* The driver keeps the contract: a record speaks for the whole of the content
\* it was written after, though a failed create left it behind alone.
FillContract == V!Spec

\* A removal the engine refuses leaves the volume reading as it did: one a
\* container mounts stays Available under every delete.
ReadsAsBefore == [][mounted /\ data # "no" /\ record => data' # "no" /\ record']_volumeVars

\* A volume called Lost is one the engine no longer holds, however the reaper's
\* read interleaves with a delete or a turn.
LostMeansGone == row = "Lost" => data = "no"

\* A delete ends with nothing of the volume left, once no container holds it.
DeletedGoes == (row = "Deleting") ~> (mounted \/ (data = "no" /\ ~record /\ ~fillers))

=============================================================================
