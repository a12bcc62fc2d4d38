---------------------------- MODULE Environments ----------------------------
(***************************************************************************)
(* One Environment object of the control plane (controller/environment.go, *)
(* controller/registry.go, internal/store/environment.go): its copy in the *)
(* registry, its row in the store, the driver that serves it, the phase    *)
(* loop that observes it, the applies and the delete that edit it, and the *)
(* sandboxes recorded on it.                                               *)
(*                                                                         *)
(* envMu makes one attempt of an apply, and the last half of a delete, one *)
(* step.  phaseOf holds phaseMu only: it reads the object under envMu,     *)
(* asks the data plane with envMu released, writes the whole object it     *)
(* read back into the registry, and then writes the row's status.  Those   *)
(* are four steps here, and every other action may fall between them.      *)
(***************************************************************************)
EXTENDS Naturals, FiniteSets

CONSTANTS
    Boxes,       \* sandboxes a create may place
    Modes,       \* "worker" and "inprocess": the kinds of environment tried
    Stores,      \* "file" and "db": the store behind the control plane
    MaxApplies,  \* applies that reach the store
    MaxAnswers,  \* times the data plane starts to answer again
    MaxRestarts, \* restarts of the control plane
    MaxDeletes,  \* deletes of the environment
    MaxFaults    \* writes the store refuses

VARIABLES
    mode,     \* the environment's mode, fixed for a behaviour
    store,    \* the kind of store, fixed for a behaviour
    mem,      \* c.environments[name]
    row,      \* the row the store holds
    drv,      \* c.drivers[name] is held
    answers,  \* a worker is registered, or the in-process driver is ready
    since,    \* c.answered[name] against the offline window
    pass,     \* phaseOf: where it is, what it read, what it will write
    boxes,    \* sandboxes whose record names this environment
    del,      \* DeleteEnvironment: between its two locks or not running
    tries,    \* attempts of the running apply that met a conflict
    conf,     \* this process answered an apply that named no version with a
              \* conflict
    applies, revived, restarts, deletes, faults,   \* counters against the bounds
    late,     \* boxes created while a delete was between its two locks
    overtaken, \* since this process started, a phase write landed on an object
              \* other than the one it read
    unsaved   \* the store refused the last status and took no write since

vars == <<mode, store, mem, row, drv, answers, since, pass, boxes, del, tries, conf,
          applies, revived, restarts, deletes, faults, late, overtaken, unsaved>>

edits == <<applies, revived, restarts, deletes, faults>>

Phases == {"Pending", "Ready", "Offline"}
Versions == 0..(MaxApplies + MaxDeletes + 1)
ApplyAttempts == 3

\* No object: version 0 is what a missing row answers to a conditional write.
NoObj == [held |-> FALSE, version |-> 0, phase |-> "Pending", workers |-> FALSE]
Obj(v, p, w) == [held |-> TRUE, version |-> v, phase |-> p, workers |-> w]
NoPass == [at |-> "idle", obj |-> NoObj, next |-> NoObj, stale |-> FALSE]

\* The object a running pass holds is no longer the registry's.  An edit
\* after the registry's write leaves the status write right; a delete does not.
Outdated(ats) == [pass EXCEPT !.stale = @ \/ pass.at \in ats]

\* The phase every environment is created in.
CreatedPhase == "Pending"

\* seedDefault: the control plane's own environment is stored Ready before
\* anything else runs; a worker's environment does not exist until applied.
Seeded == IF mode = "inprocess" THEN Obj(1, "Ready", FALSE) ELSE NoObj

Init ==
    /\ mode \in Modes /\ store \in Stores
    /\ mem = Seeded /\ row = Seeded
    /\ drv = (mode = "inprocess")
    /\ answers = FALSE
    /\ since = IF mode = "inprocess" THEN "fresh" ELSE "unset"
    /\ pass = NoPass
    /\ boxes = {} /\ del = "idle" /\ tries = 0 /\ conf = FALSE
    /\ applies = 0 /\ revived = 0 /\ restarts = 0 /\ deletes = 0
    /\ faults = 0 /\ late = {} /\ overtaken = FALSE /\ unsaved = FALSE

-----------------------------------------------------------------------------
(* Applies.                                                                *)

\* Put of the store's Desired and the file store's WriteEnvironment: the write
\* lands only on the version named, a deleted row's version included.
Puts(ifVersion) == row.version = ifVersion

\* The version an attempt that names none writes against: the registry's.
HeldVersion == mem.version

\* The object one attempt writes: an edit keeps the status the registry
\* holds, a create starts Pending.
Written == IF mem.held THEN [mem EXCEPT !.version = row.version + 1]
                       ELSE Obj(row.version + 1, CreatedPhase, FALSE)

\* applyEnvironment that lands: row, registry and driver in one hold of envMu.
Lands ==
    /\ row' = Written /\ mem' = Written /\ drv' = TRUE
    /\ applies' = applies + 1 /\ tries' = 0 /\ unsaved' = FALSE
    /\ pass' = Outdated({"read", "decided"})
    /\ UNCHANGED <<mode, store, answers, since, boxes, del, conf, revived,
                   restarts, deletes, faults, late, overtaken>>

\* One attempt of an apply that named no version.  A conflict is tried again
\* against the registry until ApplyAttempts are spent.
ApplyAttempt ==
    /\ applies < MaxApplies
    /\ \/ Puts(HeldVersion) /\ Lands
       \/ /\ ~Puts(HeldVersion)
          /\ tries' = IF tries + 1 = ApplyAttempts THEN 0 ELSE tries + 1
          /\ conf' = (conf \/ tries + 1 = ApplyAttempts)
          /\ UNCHANGED <<mode, store, mem, row, drv, answers, since, pass, boxes, del,
                         edits, late, overtaken, unsaved>>

\* An apply that named a version: one attempt, refused on any other.
ApplyAt(v) ==
    /\ applies < MaxApplies /\ tries = 0
    /\ v > 0 /\ Puts(v) /\ Lands

-----------------------------------------------------------------------------
(* The delete, in its two locks.                                           *)

\* Under c.mu: every record placed on a worker environment is dropped; an
\* environment that is not a worker's keeps its sandboxes and is refused.  A
\* record the store keeps ends the delete, with those before it gone.
DeleteDrops ==
    /\ del = "idle" /\ deletes < MaxDeletes
    /\ mode = "worker"
    /\ mem.held \/ boxes = {}
    /\ deletes' = deletes + 1
    /\ \/ del' = "dropped" /\ boxes' = {} /\ late' = {} /\ UNCHANGED faults
       \/ /\ faults < MaxFaults /\ faults' = faults + 1
          /\ \E kept \in SUBSET boxes \ {{}} : boxes' = kept /\ late' = late \intersect kept
          /\ UNCHANGED del
    /\ UNCHANGED <<mode, store, mem, row, drv, answers, since, pass, tries, conf,
                   applies, revived, restarts, overtaken, unsaved>>

\* RemoveEnvironment: the file store forgets the row; a database keeps it,
\* deleted, one version on.  A row already deleted is left as it is.
Removed(r) == IF store = "file" THEN NoObj
              ELSE IF r.held THEN [NoObj EXCEPT !.version = r.version + 1] ELSE r

\* Bug: the driver is left registered.
DriverKept == drv

\* delete(c.drivers, name), once the object was found.
DriverLeft == drv /\ ~mem.held

\* Under envMu: the row, the object and the driver go, and the streams of the
\* environment's workers end with it.
DeleteRemoves ==
    /\ del = "dropped"
    /\ del' = "idle"
    /\ row' = IF mem.held THEN Removed(row) ELSE row
    /\ mem' = NoObj
    /\ drv' = DriverLeft
    /\ answers' = (answers /\ ~mem.held)
    /\ pass' = IF mem.held THEN Outdated({"read", "decided", "written"}) ELSE pass
    /\ unsaved' = (unsaved /\ ~mem.held)
    /\ UNCHANGED <<mode, store, since, boxes, tries, conf, edits, late, overtaken>>

\* The store refuses the removal: the records are gone and the environment
\* stays.
DeleteRefused ==
    /\ del = "dropped" /\ mem.held /\ faults < MaxFaults
    /\ del' = "idle" /\ faults' = faults + 1
    /\ UNCHANGED <<mode, store, mem, row, drv, answers, since, pass, boxes, tries, conf,
                   applies, revived, restarts, deletes, late, overtaken, unsaved>>

-----------------------------------------------------------------------------
(* The phase loop and ObserveEnvironment: phaseOf, under phaseMu.          *)

\* The pass reads the object and its driver; an object nothing drives is left.
PassReads ==
    /\ pass.at = "idle" /\ mem.held /\ drv
    /\ pass' = [NoPass EXCEPT !.at = "read", !.obj = mem]
    /\ UNCHANGED <<mode, store, mem, row, drv, answers, since, boxes, del, tries, conf,
                   edits, late, overtaken, unsaved>>

\* lapsed: the object keeps its phase until the window has passed unanswered.
Lapsed(phase) == IF since = "past" THEN "Offline" ELSE phase

\* phase: Ready while something answers; a worker environment nothing ever
\* registered with waits in Pending.
PhaseFrom(phase) ==
    CASE answers -> "Ready"
      [] ~answers /\ mode = "worker" /\ phase = "Pending" -> "Pending"
      [] OTHER -> Lapsed(phase)

\* markAnswered, and the first reading of the window by lapsed.
Marked(phase) ==
    IF answers \/ (since = "unset" /\ (mode = "inprocess" \/ phase # "Pending"))
    THEN "fresh" ELSE since

\* The pass asks the data plane and settles what to write; a reading that
\* changed nothing is not written.
PassDecides ==
    /\ pass.at = "read"
    /\ LET obj  == pass.obj
           next == [obj EXCEPT !.phase = PhaseFrom(obj.phase),
                               !.workers = (mode = "worker" /\ answers)]
       IN  /\ pass' = IF next = obj THEN NoPass
                      ELSE [pass EXCEPT !.at = "decided", !.next = next]
           /\ since' = Marked(obj.phase)
    /\ UNCHANGED <<mode, store, mem, row, drv, answers, boxes, del, tries, conf, edits,
                   late, overtaken, unsaved>>

\* c.environments[name] = next: the object the pass read, whatever the
\* registry holds now.
PassWrites ==
    /\ pass.at = "decided"
    /\ mem' = pass.next
    /\ overtaken' = (overtaken \/ pass.stale)
    /\ pass' = [pass EXCEPT !.at = "written", !.obj = NoObj, !.stale = FALSE]
    /\ UNCHANGED <<mode, store, row, drv, answers, since, boxes, del, tries, conf,
                   edits, late, unsaved>>

\* WriteEnvironmentStatus: the row's status and nothing else; a row that is
\* gone, and a store that refuses, is an error the pass reports.  The registry
\* keeps what the pass decided, so the next pass finds nothing to write.
StatusInto(r, next) == [r EXCEPT !.phase = next.phase, !.workers = next.workers]

PassStores ==
    /\ pass.at = "written"
    /\ \/ /\ row' = IF row.held THEN StatusInto(row, pass.next) ELSE row
          /\ unsaved' = FALSE /\ UNCHANGED faults
       \/ /\ faults < MaxFaults /\ faults' = faults + 1
          /\ unsaved' = TRUE /\ UNCHANGED row
    /\ overtaken' = (overtaken \/ pass.stale)
    /\ pass' = NoPass
    /\ UNCHANGED <<mode, store, mem, drv, answers, since, boxes, del, tries, conf,
                   applies, revived, restarts, deletes, late>>

-----------------------------------------------------------------------------
(* Sandboxes, the data plane, time and restarts.                           *)

\* admits and driverFor, under c.mu with the record's write.
Admits == mem.held /\ mem.phase = "Ready" /\ drv

Create(b) ==
    /\ b \notin boxes /\ Admits
    /\ boxes' = boxes \union {b}
    /\ late' = IF del = "dropped" THEN late \union {b} ELSE late
    /\ UNCHANGED <<mode, store, mem, row, drv, answers, since, pass, del, tries, conf,
                   edits, overtaken, unsaved>>

\* A delete of one sandbox reaches its driver first.
Delete(b) ==
    /\ b \in boxes /\ drv
    /\ boxes' = boxes \ {b} /\ late' = late \ {b}
    /\ UNCHANGED <<mode, store, mem, row, drv, answers, since, pass, del, tries, conf,
                   edits, overtaken, unsaved>>

\* A worker registers, or the in-process driver's probe passes again.
Answer ==
    /\ ~answers /\ revived < MaxAnswers /\ drv
    /\ answers' = TRUE /\ revived' = revived + 1
    /\ UNCHANGED <<mode, store, mem, row, drv, since, pass, boxes, del, tries, conf,
                   applies, restarts, deletes, faults, late, overtaken, unsaved>>

Silence ==
    /\ answers /\ answers' = FALSE
    /\ UNCHANGED <<mode, store, mem, row, drv, since, pass, boxes, del, tries, conf,
                   edits, late, overtaken, unsaved>>

\* The offline window passes since the last answer that was recorded.
Elapse ==
    /\ since = "fresh" /\ since' = "past"
    /\ UNCHANGED <<mode, store, mem, row, drv, answers, pass, boxes, del, tries, conf,
                   edits, late, overtaken, unsaved>>

\* openEnvironments after a crash: the registry is what the store holds, with
\* a driver for each row; a request cut short is gone.
Restart ==
    /\ restarts < MaxRestarts /\ restarts' = restarts + 1
    /\ mem' = (IF row.held THEN row ELSE NoObj) /\ drv' = row.held
    /\ answers' = (mode = "inprocess" /\ answers)
    /\ since' = "unset" /\ pass' = NoPass /\ del' = "idle" /\ tries' = 0
    /\ overtaken' = FALSE /\ unsaved' = FALSE /\ conf' = FALSE
    /\ UNCHANGED <<mode, store, row, boxes, applies, revived, deletes, faults, late>>

Next ==
    \/ ApplyAttempt
    \/ \E v \in Versions : ApplyAt(v)
    \/ DeleteDrops \/ DeleteRemoves \/ DeleteRefused
    \/ PassReads \/ PassDecides \/ PassWrites \/ PassStores
    \/ \E b \in Boxes : Create(b) \/ Delete(b)
    \/ Answer \/ Silence \/ Elapse \/ Restart

\* RunEnvironments ticks for ever and phaseOf runs to its end; a delete that
\* took its first lock takes its second; a conflict is tried again; the clock
\* moves.
Fairness ==
    /\ WF_vars(PassReads) /\ WF_vars(PassDecides)
    /\ WF_vars(PassWrites) /\ WF_vars(PassStores)
    /\ WF_vars(DeleteRemoves \/ DeleteRefused) /\ WF_vars(Elapse)

Spec == Init /\ [][Next]_vars /\ Fairness

-----------------------------------------------------------------------------
Objects == [held: BOOLEAN, version: Versions, phase: Phases, workers: BOOLEAN]

\* Every variable holds a value the Go types admit; no version is above the
\* number of writes that landed.
TypeOK ==
    /\ mode \in Modes /\ store \in Stores /\ mem \in Objects /\ row \in Objects
    /\ drv \in BOOLEAN /\ answers \in BOOLEAN
    /\ since \in {"unset", "fresh", "past"}
    /\ pass \in [at: {"idle", "read", "decided", "written"}, obj: Objects,
                 next: Objects, stale: BOOLEAN]
    /\ boxes \subseteq Boxes /\ late \subseteq Boxes
    /\ del \in {"idle", "dropped"} /\ tries \in 0..(ApplyAttempts - 1)

\* What is driven is what is stored, whatever a late phase write put into the
\* registry: an environment a pass brought back after its delete has no driver,
\* so nothing is placed on it.  The registry holds the stored object at its
\* version until a phase write lands on an object other than the one its pass
\* had read (environment.go phaseOf), and again once the process restarted.
RegistryFollowsStore ==
    /\ drv = row.held
    /\ overtaken \/ /\ mem.held = row.held
                    /\ mem.held => mem.version = row.version

\* An apply that names no version is answered with a conflict only after a
\* phase write was overtaken, or where a database keeps the row of a deleted
\* environment (ApplyAttempts, environment.go:227-231).
ConflictMeansOvertaken == conf => overtaken \/ (store = "db" /\ deletes > 0)

\* A sandbox is recorded on an environment that is not stored only where it
\* was created between the two locks of the delete (DeleteEnvironment,
\* environment.go:336-359): every other record went with the environment.
RecordsGoWithEnvironment == boxes \subseteq late \/ row.held

\* Once the data plane answers for good the environment becomes Ready for
\* good, and once it is silent for good the environment stops being Ready, so
\* that nothing more is placed on it (RunEnvironments, phase, lapsed).  A
\* restart between the two only delays it.
PhaseFollowsDataPlane ==
    /\ <>[](answers /\ drv) => <>[](mem.phase = "Ready")
    /\ <>[](~answers /\ drv) => <>[](mem.phase # "Ready")

\* What a reader of the store sees comes to agree with what the registry
\* holds, so a restart does not go back to an older phase (phaseOf writes the
\* row after the registry; WriteEnvironmentStatus), unless the store refused
\* the last status: the pass after finds the registry as it should be and
\* writes nothing.
StoreSettles ==
    []<>(overtaken \/ unsaved) \/ <>[](row.phase = mem.phase /\ row.workers = mem.workers)

=============================================================================
