------------------------------ MODULE Volumes ------------------------------
(***************************************************************************)
(* Volumes of the control plane (controller/volume.go) and the sandboxes   *)
(* that mount them (the volume half of controller/controller.go): create   *)
(* with the owner's ceiling, the fill loop, the authoritative attach, the  *)
(* wait for a fill, delete, the release with the last sandbox, and Lost.   *)
(*                                                                         *)
(* c.mu makes each critical section one step.  A fill and a sandbox's      *)
(* create release it around their driver calls, so each is a start, the    *)
(* call, and a settle against the row as it then stands.                   *)
(***************************************************************************)
EXTENDS Naturals, FiniteSets

CONSTANTS
    Vols,        \* volume ids; an id is never used twice
    NoVol,       \* no volume
    Boxes,       \* sandboxes, each mounting one volume
    Kinds,       \* the volumes' specs tried: access, retain and source
    MaxVolumes,  \* the owner's ceiling
    MaxFaults    \* driver calls that fail, volumes the runtime loses, restarts

VARIABLES
    kind,     \* spec of every volume, fixed for a behaviour but for retain
    retain,   \* spec.retain, which an update may change
    vol,      \* phase of each volume's row
    fill,     \* c.filling: the turn a volume is in, and what it read
    dvol,     \* what the driver holds of each volume
    box,      \* each sandbox's record
    cont,     \* the driver holds the sandbox's object
    driving,  \* a sandbox's driver create is in flight
    faults,
    stuck     \* a sandbox's object outlived its hold: its delete failed, or
              \* its create was in flight when its record went

vars == <<kind, retain, vol, fill, dvol, box, cont, driving, faults, stuck>>

Phases == {"unmade", "Pending", "Available", "Failed", "Lost", "Deleting", "gone"}

NoBox == [phase |-> "none", vol |-> NoVol, ro |-> FALSE]
Turns == {"no", "Pending", "Deleting"} \union {"read Pending", "read Available", "read Failed"}

Init ==
    /\ kind \in Kinds
    /\ retain \in BOOLEAN
    /\ vol = [v \in Vols |-> "unmade"] /\ fill = [v \in Vols |-> "no"]
    /\ dvol = [v \in Vols |-> "none"]
    /\ box = [b \in Boxes |-> NoBox]
    /\ cont = [b \in Boxes |-> FALSE] /\ driving = [b \in Boxes |-> FALSE]
    /\ faults = 0 /\ stuck = FALSE

Row(v) == vol[v] \notin {"unmade", "gone"}

\* attachedToLocked: the sandboxes bound to a volume that have not begun to go.
AttachedTo(v) == {b \in Boxes : box[b].vol = v /\ box[b].phase # "Deleting"}

\* A driver call that fails, charged to the bound.
Fault == faults < MaxFaults /\ faults' = faults + 1
NoFault == UNCHANGED faults

-----------------------------------------------------------------------------
(* The volume's own operations.                                            *)

\* countVolumesLocked: every volume but those being deleted.
CountVolumes == Cardinality({v \in Vols : Row(v) /\ vol[v] # "Deleting"})

CreateVolume(v) ==
    /\ vol[v] = "unmade" /\ CountVolumes < MaxVolumes
    /\ vol' = [vol EXCEPT ![v] = "Pending"]
    /\ UNCHANGED <<kind, retain, fill, dvol, box, cont, driving, faults, stuck>>

\* UpdateVolume: retain is the field of the spec an update may change.
UpdateVolume(v) ==
    /\ Row(v) /\ retain' = ~retain
    /\ UNCHANGED <<kind, vol, fill, dvol, box, cont, driving, faults, stuck>>

\* finishVolumeDelete: the driver's object, and then the row.  A driver that
\* fails leaves the row Deleting for the loop.
FinishDelete(v) ==
    \/ NoFault /\ vol' = [vol EXCEPT ![v] = "gone"] /\ dvol' = [dvol EXCEPT ![v] = "none"]
    \/ Fault /\ vol' = [vol EXCEPT ![v] = "Deleting"] /\ UNCHANGED dvol

\* DeleteVolume leaves a volume in the driver's hands to the fill's settle.
BeingFilled(v) == fill[v] # "no"

\* DeleteVolume: refused while attached; the intent is written first.
DeleteVolume(v) ==
    /\ Row(v) /\ AttachedTo(v) = {}
    /\ IF BeingFilled(v)
       THEN vol' = [vol EXCEPT ![v] = "Deleting"] /\ NoFault /\ UNCHANGED dvol
       ELSE FinishDelete(v)
    /\ UNCHANGED <<kind, retain, fill, box, cont, driving, stuck>>

-----------------------------------------------------------------------------
(* The volume loop.                                                        *)

\* Bug: a volume being made is not taken up again.
DueDeleting(v) == vol[v] = "Deleting"

\* A volume left to the loop: one being made, or being deleted.
Due(v) == vol[v] \in {"Pending", "Deleting"}

\* FillVolumes takes every volume that is due and not in the driver's hands.
FillVolumes ==
    LET due == {v \in Vols : fill[v] = "no" /\ Due(v)}
    IN  /\ due # {}
        /\ fill' = [v \in Vols |-> IF v \in due THEN vol[v] ELSE fill[v]]
        /\ UNCHANGED <<kind, retain, vol, dvol, box, cont, driving, faults, stuck>>

\* fill, of a delete left to the loop.
FillDeletes(v) ==
    /\ fill[v] = "Deleting"
    /\ IF vol[v] = "Deleting" THEN FinishDelete(v) ELSE NoFault /\ UNCHANGED <<vol, dvol>>
    /\ fill' = [fill EXCEPT ![v] = "no"]
    /\ UNCHANGED <<kind, retain, box, cont, driving, stuck>>

\* What InspectVolume reports of the driver's object.
Reported(d) == CASE d = "ready" -> "read Available"
                 [] d = "failed" -> "read Failed"
                 [] OTHER -> "read Pending"

\* applySource, with the lock released: CreateVolume, which is idempotent,
\* and InspectVolume.  A source the driver cannot apply is a Failed reading
\* with nothing made; a call that fails ends the turn with nothing read, the
\* create having reached the driver or not.
ApplySource(v) ==
    /\ fill[v] = "Pending"
    /\ \/ /\ kind.source = "unsupported" /\ NoFault /\ UNCHANGED dvol
          /\ fill' = [fill EXCEPT ![v] = "read Failed"]
       \/ /\ kind.source # "unsupported" /\ NoFault
          /\ dvol' = [dvol EXCEPT ![v] = IF @ = "none" THEN "filling" ELSE @]
          /\ fill' = [fill EXCEPT ![v] = Reported(dvol[v])]
       \/ /\ Fault /\ fill' = [fill EXCEPT ![v] = "no"]
          /\ dvol' \in {dvol, [dvol EXCEPT ![v] = IF @ = "none" THEN "filling" ELSE @]}
    /\ UNCHANGED <<kind, retain, vol, box, cont, driving, stuck>>

\* The phase a settle writes on a volume that is still Pending.
Settled(v) == [vol EXCEPT ![v] =
    CASE vol[v] = "Pending" /\ fill[v] = "read Available" -> "Available"
      [] vol[v] = "Pending" /\ fill[v] = "read Failed" -> "Failed"
      [] OTHER -> @]

\* settleVolume: a volume deleted while its fill ran has what the fill made
\* removed now.
SettleVolume(v) ==
    /\ fill[v] \in {"read Pending", "read Available", "read Failed"}
    /\ CASE vol[v] = "Deleting" -> FinishDelete(v)
         [] vol[v] = "gone" -> NoFault /\ UNCHANGED vol /\ dvol' = [dvol EXCEPT ![v] = "none"]
         [] OTHER -> vol' = Settled(v) /\ NoFault /\ UNCHANGED dvol
    /\ fill' = [fill EXCEPT ![v] = "no"]
    /\ UNCHANGED <<kind, retain, box, cont, driving, stuck>>

-----------------------------------------------------------------------------
(* Sandboxes that mount a volume.                                          *)

\* attachableLocked: a shared volume takes read-only mounts, a single one one
\* writer or any number of readers.
Attachable(v, ro) ==
    IF kind.access = "shared" THEN ro
    ELSE \A b \in AttachedTo(v) : ro /\ box[b].ro

\* bindVolumesLocked, in the create that writes the sandbox's row.
Bind(b, v, ro) ==
    /\ box[b] = NoBox /\ ~cont[b] /\ ~driving[b]
    /\ vol[v] \in {"Available", "Pending"} /\ Attachable(v, ro)
    /\ box' = [box EXCEPT ![b] = [phase |-> "placed", vol |-> v, ro |-> ro]]
    /\ UNCHANGED <<kind, retain, vol, fill, dvol, cont, driving, faults, stuck>>

\* volumesReadyLocked: the driver is asked once the volume is Available.
VolumesReady(v) == vol[v] = "Available"

\* realize: a placed sandbox waits out a fill, fails on a volume it cannot
\* wait out, and otherwise goes to its driver with the lock released.
Realize(b) ==
    /\ box[b].phase = "placed" /\ ~driving[b]
    /\ LET v == box[b].vol
       IN \/ VolumesReady(v) /\ driving' = [driving EXCEPT ![b] = TRUE] /\ UNCHANGED box
          \/ /\ ~VolumesReady(v) /\ vol[v] # "Pending"
             /\ box' = [box EXCEPT ![b].phase = "failed"] /\ UNCHANGED driving
    /\ UNCHANGED <<kind, retain, vol, fill, dvol, cont, faults, stuck>>

\* drive and settleCreate: a record that went meanwhile has the object
\* removed, one being deleted keeps its phase, and any other takes the outcome.
\* The record the create was for may have been replaced under its id by none.
SettleCreate(b) ==
    /\ driving[b]
    /\ \E made \in BOOLEAN :
        LET v == box[b].vol
            here == cont[b] \/ (made /\ v # NoVol /\ dvol[v] = "ready")
        IN  /\ made \/ faults < MaxFaults
            /\ faults' = IF made THEN faults ELSE faults + 1
            /\ CASE box[b].phase = "none" ->
                      cont' = [cont EXCEPT ![b] = ~made] /\ UNCHANGED box
                 [] box[b].phase = "Deleting" ->
                      cont' = [cont EXCEPT ![b] = here] /\ UNCHANGED box
                 [] OTHER ->
                      /\ cont' = [cont EXCEPT ![b] = here]
                      /\ box' = [box EXCEPT ![b].phase = IF here THEN "running" ELSE "failed"]
    /\ driving' = [driving EXCEPT ![b] = FALSE]
    /\ UNCHANGED <<kind, retain, vol, fill, dvol, stuck>>

\* Bug: the other sandboxes of the volume are not looked at.
ReleaseAlways(v, b) == [vol EXCEPT ![v] = IF ~retain /\ Row(v) THEN "Deleting" ELSE @]

\* releaseVolumesLocked: the volume goes with its last sandbox unless it is
\* retained.
Release(v, b) ==
    [vol EXCEPT ![v] = IF ~retain /\ Row(v) /\ AttachedTo(v) \ {b} = {} THEN "Deleting" ELSE @]

\* Act delete and forgetOne: the intent, the driver's object, the row and then
\* the volume.  A driver that fails leaves the record Deleting.
DeleteBox(b) ==
    /\ box[b].phase # "none"
    /\ \/ /\ NoFault
          /\ cont' = [cont EXCEPT ![b] = FALSE]
          /\ vol' = Release(box[b].vol, b)
          /\ box' = [box EXCEPT ![b] = NoBox]
          /\ stuck' = (stuck \/ driving[b])
       \/ /\ Fault
          /\ box' = [box EXCEPT ![b].phase = "Deleting"]
          /\ stuck' = (stuck \/ cont[b] \/ driving[b])
          /\ UNCHANGED <<cont, vol>>
    /\ UNCHANGED <<kind, retain, fill, dvol, driving>>

\* The reaper removes an object no record names.
Sweep(b) ==
    /\ box[b].phase = "none" /\ cont[b] /\ ~driving[b]
    /\ cont' = [cont EXCEPT ![b] = FALSE]
    /\ UNCHANGED <<kind, retain, vol, fill, dvol, box, driving, faults, stuck>>

-----------------------------------------------------------------------------
(* The runtime and restarts.                                               *)

\* The driver's own fill ends, well or badly.
DriverFills(v) ==
    /\ dvol[v] = "filling"
    /\ dvol' \in {[dvol EXCEPT ![v] = "ready"], [dvol EXCEPT ![v] = "failed"]}
    /\ UNCHANGED <<kind, retain, vol, fill, box, cont, driving, faults, stuck>>

\* The runtime loses a filled volume.
LoseVolume(v) ==
    /\ dvol[v] = "ready" /\ vol[v] = "Available" /\ Fault
    /\ dvol' = [dvol EXCEPT ![v] = "none"]
    /\ UNCHANGED <<kind, retain, vol, fill, box, cont, driving, stuck>>

\* observeVolumes: an Available volume the driver does not hold is Lost.
ObserveVolumes(v) ==
    /\ vol[v] = "Available" /\ dvol[v] = "none"
    /\ vol' = [vol EXCEPT ![v] = "Lost"]
    /\ UNCHANGED <<kind, retain, fill, dvol, box, cont, driving, faults, stuck>>

\* A restart forgets which volumes and sandboxes were in the driver's hands.
Restart ==
    /\ Fault
    /\ fill' = [v \in Vols |-> "no"]
    /\ driving' = [b \in Boxes |-> FALSE]
    /\ UNCHANGED <<kind, retain, vol, dvol, box, cont, stuck>>

Next ==
    \/ FillVolumes \/ Restart
    \/ \E v \in Vols : \/ CreateVolume(v) \/ UpdateVolume(v) \/ DeleteVolume(v)
                       \/ FillDeletes(v) \/ ApplySource(v) \/ SettleVolume(v)
                       \/ DriverFills(v) \/ LoseVolume(v) \/ ObserveVolumes(v)
    \/ \E b \in Boxes : \/ \E v \in Vols, ro \in BOOLEAN : Bind(b, v, ro)
                        \/ Realize(b) \/ SettleCreate(b) \/ DeleteBox(b) \/ Sweep(b)

\* The volume loop ticks, a goroutine it started runs to its end, the driver's
\* fill ends, and the scheduler takes a placed sandbox.
Fairness ==
    /\ WF_vars(FillVolumes)
    /\ \A v \in Vols : WF_vars(FillDeletes(v)) /\ WF_vars(ApplySource(v))
                       /\ WF_vars(SettleVolume(v)) /\ WF_vars(DriverFills(v))
    /\ \A b \in Boxes : WF_vars(Realize(b)) /\ WF_vars(SettleCreate(b))

Spec == Init /\ [][Next]_vars /\ Fairness

-----------------------------------------------------------------------------
\* Every variable holds a value the Go types admit, and the owner's ceiling
\* is never passed by volumes that are not being deleted.
TypeOK ==
    /\ kind \in Kinds /\ retain \in BOOLEAN
    /\ vol \in [Vols -> Phases] /\ fill \in [Vols -> Turns]
    /\ dvol \in [Vols -> {"none", "filling", "ready", "failed"}]
    /\ box \in [Boxes -> [phase: {"none", "placed", "running", "failed", "Deleting"},
                          vol: Vols \union {NoVol}, ro: BOOLEAN]]
    /\ cont \in [Boxes -> BOOLEAN] /\ driving \in [Boxes -> BOOLEAN]
    /\ CountVolumes <= MaxVolumes

\* A volume a sandbox is bound to, and that has not begun to go, is never
\* deleted under it: not by its owner, not by the release of another sandbox,
\* not by the settle of a fill (DeleteVolume, releaseVolumesLocked,
\* settleVolume).
HeldVolumeStays == \A v \in Vols : AttachedTo(v) # {} => Row(v) /\ vol[v] # "Deleting"

\* Nothing the driver holds of a volume is ever unrecorded: the row goes only
\* after the driver's object, whatever fill was in flight (finishVolumeDelete,
\* settleVolume).
RowOutlivesObject == \A v \in Vols : dvol[v] # "none" => Row(v)

\* The objects running in the environment keep a single volume's rule, one
\* writer or only readers, unless a sandbox's object outlived its hold
\* (attachableLocked counts records that have not begun to go).
Running(v) == {b \in Boxes : cont[b] /\ box[b].vol = v}
OneWriter == stuck \/ \A v \in Vols : \A b, c \in Running(v) :
    b = c \/ (box[b].ro /\ box[c].ro)

\* A sandbox runs only on a volume that was filled: it waits out a Pending one
\* and fails on any other (volumesReadyLocked, realize).
RunsFilled == \A b \in Boxes : box[b].phase = "running" => vol[box[b].vol] \in {"Available", "Lost"}

\* A volume being made is settled one way or another, and one being deleted
\* goes, whatever failed or restarted meanwhile (RunVolumes).
FillEnds == \A v \in Vols : vol[v] = "Pending" ~> vol[v] # "Pending"
DeleteEnds == \A v \in Vols : vol[v] = "Deleting" ~> vol[v] = "gone"

\* A sandbox that waits for its volume stops waiting (settleVolume wakes the
\* scheduler).
WaitEnds == \A b \in Boxes : box[b].phase = "placed" ~> box[b].phase # "placed"
=============================================================================
