-------------------------------- MODULE Fleet --------------------------------
(***************************************************************************)
(* The sandboxes of one environment: what a create decides                 *)
(* (controller/controller.go create, createLocked, adopt), the scheduler's *)
(* pass (scheduler.go, capacity.go), preemption (preempt.go), the pool     *)
(* (pool.go) and the spawn ledger (spawn.go, store.go).                    *)
(*                                                                         *)
(* An id is taken from 1.. in order and names a row, a pool entry, or both *)
(* once an entry is adopted.  The scheduler holds the controller's lock    *)
(* through a pass except around a driver's create (pass.cur # None), a     *)
(* create that adopts holds it between its row and its adoption            *)
(* (adopting), and the refill loop holds no lock at all.  What realize     *)
(* does besides the driver's call is in module Lifecycle.  Memory is       *)
(* counted as cpu is, so it is left out.                                   *)
(***************************************************************************)
EXTENDS Integers, Sequences, FiniteSets, FiniteSetsExt

CONSTANTS
    Shape,          \* the manifests creates are made of, by name: cpu, disk, priority, whether it
                    \* may be preempted, queue, owner, whether it has a start deadline, whether it
                    \* matches the pool's entries
    Capacity,       \* what the environment declares: [cpu, disk, slots]
    Worlds,         \* what else is declared: the mode, the pool, a sandbox's spawn
                    \* budget, the shapes and verbs asked for, and the bound on failures
    MaxPreemptions,
    PoolInFlight,   \* entries one tick prewarms
    MaxIds          \* bound: ids ever made

Shapes == DOMAIN Shape
Ids == 1..MaxIds
None == 0

VARIABLES
    sb,         \* the rows: phase, shape, parent, preemptions, Scheduled, failure reason
    arrived,    \* the rows in the order of createdAt
    obj,        \* what the driver holds under an id
    made,       \* ids made so far
    world,      \* what is declared
    pass,       \* the scheduler's pass
    adopting,   \* a create that took an entry, or lost it and goes on
    refill,     \* the refill loop's tick: entries to drop, how many to make
    ledger,     \* the spawn ledger
    asking,     \* the parent a workload's create was authorized with
    faults,     \* driver calls and writes refused, and restarts
    outside,    \* history: capacity was taken with no placement
    late,       \* history: the children written after their parent was deleted
    unwritten,  \* history: the parents credited for a failure that was not written
    struck,     \* history: the sandboxes the refill loop deleted after they were adopted
    doubled     \* history: the entries that came to be a second sandbox, or one unadopted

vars == <<sb, arrived, obj, made, world, pass, adopting, refill, ledger, asking, faults,
          outside, late, unwritten, struck, doubled>>
history == <<outside, late, unwritten, struck, doubled>>

NoShape == ""
Idle == [at |-> "idle", todo |-> <<>>, cur |-> None, created |-> "no", closed |-> {}, tried |-> {},
         placed |-> {}, joined |-> FALSE]
NotAdopting == [at |-> "no", id |-> None, shape |-> NoShape]
NoRefill == [drop |-> {}, make |-> 0]
NoRow == [phase |-> "none", shape |-> NoShape, parent |-> None, pre |-> 0, sched |-> FALSE, reason |-> ""]

Init ==
    /\ sb = [i \in Ids |-> NoRow] /\ arrived = <<>> /\ obj = [i \in Ids |-> "none"] /\ made = 0
    /\ world \in Worlds /\ pass = Idle /\ adopting = NotAdopting /\ refill = NoRefill
    /\ ledger = [i \in Ids |-> 0] /\ asking = None /\ faults = 0
    /\ outside = FALSE /\ late = {} /\ unwritten = {} /\ struck = {} /\ doubled = {}

\* The controller's lock is free.
Unlocked == adopting.at = "no" /\ (pass.at = "idle" \/ pass.cur # None)

-----------------------------------------------------------------------------
(* Capacity. *)

Rows == {i \in Ids : sb[i].phase # "none"}
spec(i) == Shape[sb[i].shape]
In(phase) == {i \in Ids : sb[i].phase = phase}

holdsCompute(phase) == phase \notin {"none", "Queued", "Deleting", "Failed", "Lost", "Stopped"}

requeued(i) == sb[i].phase = "Queued" /\ sb[i].pre > 0

holdsDisk(i) ==
    CASE sb[i].phase = "Queued" -> requeued(i)
      [] sb[i].phase \in {"none", "Deleting", "Lost"} -> FALSE
      [] sb[i].phase = "Failed" -> sb[i].reason \notin {"NoCapacity", "StartDeadline"}
      [] OTHER -> TRUE

usageOn ==
    LET computing == {i \in Ids : holdsCompute(sb[i].phase)}
    IN  [cpu |-> MapThenSumSet(LAMBDA i : spec(i).cpu, computing),
         disk |-> MapThenSumSet(LAMBDA i : spec(i).disk, {i \in Ids : holdsDisk(i)}),
         slots |-> Cardinality(computing)]

plus(u, w) == [cpu |-> u.cpu + w.cpu, disk |-> u.disk + w.disk, slots |-> u.slots + w.slots]
requestOf(shape) == [cpu |-> Shape[shape].cpu, disk |-> Shape[shape].disk, slots |-> 1]

\* A preempted sandbox kept its disk and does not ask for it again.
askOf(i) == [requestOf(sb[i].shape) EXCEPT !.disk = IF requeued(i) THEN 0 ELSE @]

holds(u) == u.cpu <= Capacity.cpu /\ u.disk <= Capacity.disk /\ u.slots <= Capacity.slots

heldBy(n) == [cpu |-> n * world.pool.cpu, disk |-> n * world.pool.disk, slots |-> n]

\* makeRoom: whether the request fits on what the rows hold, and how many of
\* so many entries have to go for it.
fits(request) == holds(plus(usageOn, request))
evictions(request, entries) ==
    CHOOSE n \in 0..entries :
        /\ holds(plus(plus(usageOn, request), heldBy(entries - n)))
        /\ \A k \in 0..(n - 1) : ~holds(plus(plus(usageOn, request), heldBy(entries - k)))

\* poolEntries: every entry of the environment; an older one has a lower id.
Entries == IF world.pool.size = 0 THEN {} ELSE {i \in Ids : obj[i] \in {"filling", "entry"}}
Oldest(S, n) == {i \in S : Cardinality({j \in S : j < i}) < n}

-----------------------------------------------------------------------------
(* The order of the queues. *)

Waiting(queue) == {i \in In("Queued") : spec(i).queue = queue}

share(owner) ==
    MapThenSumSet(LAMBDA i : spec(i).cpu,
                  {i \in Ids : holdsCompute(sb[i].phase) /\ spec(i).owner = owner})
Arrival(i) == CHOOSE k \in 1..Len(arrived) : arrived[k] = i

\* Bug: arrival alone.
ranksByArrival(i, j) == Arrival(i) < Arrival(j)
ranksBefore(i, j) ==
    LET a == spec(i)
        b == spec(j)
    IN  \/ a.pri > b.pri
        \/ a.pri = b.pri /\ share(a.owner) < share(b.owner)
        \/ a.pri = b.pri /\ share(a.owner) = share(b.owner) /\ Arrival(i) < Arrival(j)

First(S) == CHOOSE i \in S : \A j \in S \ {i} : ranksBefore(i, j)

placed(i) == sb[i].phase = "Pending" /\ ~sb[i].sched

-----------------------------------------------------------------------------
(* Creates. *)

Row(shape, parent, phase) == [NoRow EXCEPT !.phase = phase, !.shape = shape, !.parent = parent]
Failed(row, reason) == [row EXCEPT !.phase = "Failed", !.reason = reason]
debited(l, p) == IF p # None THEN [l EXCEPT ![p] = @ + 1] ELSE l
credited(l, p) == IF p # None /\ l[p] > 0 THEN [l EXCEPT ![p] = @ - 1] ELSE l
Gave(S, n) == [i \in Ids |-> IF i \in Oldest(S, n) THEN "none" ELSE obj[i]]
Arrived(i) == Append(SelectSeq(arrived, LAMBDA k : k # i), i)
Joins == pass' = [pass EXCEPT !.joined = pass.at # "idle"]

\* createLocked with no entry to adopt.  The debit refuses a parent whose budget
\* is spent; a direct environment fails what does not fit and credits it back.
Place(shape, parent, entries) ==
    LET i == made + 1
        queued == world.mode = "queued" /\ (Waiting(Shape[shape].queue) # {} \/ ~fits(requestOf(shape)))
        now == ~queued /\ fits(requestOf(shape))
        row == IF queued THEN Row(shape, parent, "Queued")
               ELSE IF now THEN Row(shape, parent, "Pending")
               ELSE Failed(Row(shape, parent, "Failed"), "NoCapacity")
    IN  /\ made < MaxIds /\ made' = i
        /\ parent # None => ledger[parent] < world.budget
        /\ sb' = [sb EXCEPT ![i] = row] /\ arrived' = Append(arrived, i)
        /\ obj' = IF now THEN Gave(entries, evictions(requestOf(shape), Cardinality(entries))) ELSE obj
        /\ ledger' = IF row.phase # "Failed" THEN debited(ledger, parent) ELSE ledger
        /\ Joins

Matching(shape) == IF Shape[shape].pooled /\ Waiting(Shape[shape].queue) = {} THEN {i \in Entries : obj[i] = "entry"} ELSE {}

\* poolEntries reads none from an environment that cannot be listed.
Create(shape) ==
    /\ Unlocked
    /\ \/ Matching(shape) = {} /\ Place(shape, None, Entries) /\ UNCHANGED faults
       \/ Entries # {} /\ faults < world.faults /\ faults' = faults + 1 /\ Place(shape, None, {})
    /\ UNCHANGED <<world, adopting, refill, asking, history>>

\* An entry in the way that cannot be deleted refuses the create.
CreateEntryStays(shape) ==
    /\ Unlocked /\ Matching(shape) = {} /\ faults < world.faults /\ faults' = faults + 1
    /\ (world.mode = "direct" \/ Waiting(Shape[shape].queue) = {}) /\ fits(requestOf(shape))
    /\ \E n \in 0..(evictions(requestOf(shape), Cardinality(Entries)) - 1) : obj' = Gave(Entries, n)
    /\ UNCHANGED <<sb, arrived, made, world, pass, adopting, refill, ledger, asking, history>>

\* A create that takes the oldest ready entry writes its row under the entry's id.
CreateAdopting(shape) ==
    /\ Unlocked /\ Matching(shape) # {}
    /\ LET e == Min(Matching(shape))
       IN  /\ sb' = [sb EXCEPT ![e] = Row(shape, None, "Pending")] /\ arrived' = Arrived(e)
           /\ adopting' = [at |-> "entry", id |-> e, shape |-> shape] /\ doubled' = doubled \cup ({e} \cap Rows)
    /\ Joins /\ outside' = (outside \/ ~fits(requestOf(shape)))
    /\ UNCHANGED <<obj, made, world, refill, ledger, asking, faults, late, unwritten, struck>>

\* adopt: no gateway takes the boundary and the row goes; or the driver turns the
\* entry into the sandbox, fails, or no longer has it.
Adopt ==
    LET e == adopting.id
    IN  /\ adopting.at = "entry" /\ obj[e] = "entry" /\ adopting' = NotAdopting
        /\ \/ /\ sb' = [sb EXCEPT ![e].phase = "Running", ![e].sched = TRUE]
              /\ obj' = [obj EXCEPT ![e] = "running"]
              /\ UNCHANGED <<arrived, faults>>
           \/ /\ faults < world.faults /\ faults' = faults + 1 /\ UNCHANGED obj
              /\ \/ sb' = [sb EXCEPT ![e] = Failed(@, "CreateFailed")] /\ UNCHANGED arrived
                 \/ sb' = [sb EXCEPT ![e] = NoRow] /\ arrived' = SelectSeq(arrived, LAMBDA k : k # e)
        /\ UNCHANGED <<made, world, pass, refill, ledger, asking, history>>

\* The entry is gone or another's, or the driver says it cannot carry the manifest.
AdoptLost ==
    LET e == adopting.id
    IN  /\ adopting.at = "entry"
        /\ \/ obj[e] # "entry" /\ UNCHANGED faults
           \/ obj[e] = "entry" /\ faults < world.faults /\ faults' = faults + 1
        /\ adopting' = [adopting EXCEPT !.at = "slow"]
        /\ sb' = [sb EXCEPT ![e] = NoRow] /\ arrived' = SelectSeq(arrived, LAMBDA k : k # e)
        /\ UNCHANGED <<obj, made, world, pass, refill, ledger, asking, history>>

CreateAfterLost ==
    /\ adopting.at = "slow" /\ adopting' = NotAdopting
    /\ \/ Place(adopting.shape, None, Entries \ {adopting.id})
       \/ made = MaxIds /\ UNCHANGED <<sb, arrived, obj, made, pass, ledger>>
    /\ UNCHANGED <<world, refill, asking, faults, history>>

\* A direct environment's failure that is not written leaves the row the debit
\* wrote, Pending, and the unit credited back.
NoCapacityUnwritten(shape, parent) ==
    LET i == made + 1
    IN  /\ Unlocked /\ made < MaxIds /\ made' = i /\ faults < world.faults /\ faults' = faults + 1
        /\ world.mode = "direct" /\ (parent # None \/ Matching(shape) = {}) /\ ~fits(requestOf(shape))
        /\ parent # None => ledger[parent] < world.budget
        /\ sb' = [sb EXCEPT ![i] = Row(shape, parent, "Pending")] /\ arrived' = Append(arrived, i) /\ Joins
        /\ asking' = IF parent = None THEN asking ELSE None
        /\ outside' = TRUE /\ unwritten' = unwritten \cup ({parent} \ {None})
        /\ late' = IF parent # None /\ sb[parent].phase \in {"none", "Deleting"} THEN late \cup {i} ELSE late
        /\ UNCHANGED <<obj, world, adopting, refill, ledger, struck, doubled>>

\* A workload's create is authorized against its sandbox as read, and made later.
Ask(p) ==
    /\ asking = None /\ world.budget > 0 /\ sb[p].phase = "Running" /\ asking' = p
    /\ UNCHANGED <<sb, arrived, obj, made, world, pass, adopting, refill, ledger, faults, history>>

Spawn(shape) ==
    /\ asking # None /\ Unlocked
    /\ Place(shape, asking, Entries) /\ asking' = None
    /\ late' = IF sb[asking].phase \in {"none", "Deleting"} THEN late \cup {made'} ELSE late
    /\ UNCHANGED <<world, adopting, refill, faults, outside, unwritten, struck, doubled>>

SpawnRefused ==
    /\ asking # None /\ asking' = None
    /\ UNCHANGED <<sb, arrived, obj, made, world, pass, adopting, refill, ledger, faults, history>>

-----------------------------------------------------------------------------
(* The scheduler's pass. *)

\* Schedule: fail those that waited past their deadline, crediting each whether
\* or not the failure was written.  That is all of the pass on an environment
\* that is not Ready, which it may be at any time; on one that is, the pass then
\* realizes what is placed, oldest first, and reads the queues.
Expire ==
    /\ Unlocked /\ pass.at = "idle" /\ (In("Queued") # {} \/ \E i \in Ids : placed(i))
    /\ \E expired \in SUBSET {i \in In("Queued") : spec(i).deadline /\ sb[i].pre = 0},
          refused \in {{}} \cup {{i} : i \in Ids} :
          /\ refused \subseteq expired /\ (refused # {} => faults < world.faults)
          /\ faults' = faults + Cardinality(refused)
          /\ unwritten' = unwritten \cup ({sb[i].parent : i \in refused} \ {None})
          /\ sb' = [i \in Ids |-> IF i \in expired \ refused THEN Failed(sb[i], "StartDeadline") ELSE sb[i]]
          /\ ledger' = [p \in Ids |-> Max({0, ledger[p] - Cardinality({i \in expired : sb[i].parent = p})})]
    /\ UNCHANGED <<arrived, obj, made, world, adopting, refill, asking, outside, late, struck, doubled>>

PassBegin == Expire /\ pass' = [Idle EXCEPT !.at = "realize", !.todo = SelectSeq(arrived, placed)]
PassNotReady == Expire /\ UNCHANGED pass

\* realize, of the row i of rows: the driver is called with the lock released;
\* or the push or the mint fails the create; or the row stays placed, for a
\* write refused, a volume still filling or a stream still opening.
Realize(rows, i, after) ==
    \/ /\ pass' = [after EXCEPT !.cur = i] /\ sb' = rows
       /\ UNCHANGED <<ledger, unwritten, faults>>
    \/ /\ faults < world.faults /\ faults' = faults + 1 /\ pass' = after
       /\ \/ /\ sb' = [rows EXCEPT ![i] = Failed(@, "CreateFailed")]
             /\ ledger' = credited(ledger, rows[i].parent) /\ UNCHANGED unwritten
          \/ /\ sb' = rows /\ ledger' = credited(ledger, rows[i].parent)
             /\ unwritten' = unwritten \cup ({rows[i].parent} \ {None})
          \/ sb' = rows /\ UNCHANGED <<ledger, unwritten>>

RealizeNext ==
    /\ pass.at = "realize" /\ pass.cur = None /\ adopting.at = "no"
    /\ IF pass.todo = <<>>
       THEN pass' = [pass EXCEPT !.at = "queues"] /\ UNCHANGED <<sb, ledger, unwritten, faults>>
       ELSE LET after == [pass EXCEPT !.todo = Tail(@)]
            IN  IF placed(Head(pass.todo)) THEN Realize(sb, Head(pass.todo), after)
                ELSE pass' = after /\ UNCHANGED <<sb, ledger, unwritten, faults>>
    /\ UNCHANGED <<arrived, obj, made, world, adopting, refill, asking, outside, late, struck, doubled>>

\* drive, without the lock: an object that exists already is taken as this
\* sandbox's own.
DriveCreate ==
    /\ pass.cur # None /\ pass.created = "no"
    /\ \/ /\ pass' = [pass EXCEPT !.created = "ok"] /\ UNCHANGED faults
          /\ obj' = [obj EXCEPT ![pass.cur] = IF @ = "none" THEN "running" ELSE @]
          /\ doubled' = IF obj[pass.cur] = "entry" THEN doubled \cup {pass.cur} ELSE doubled
       \/ /\ faults < world.faults /\ faults' = faults + 1
          /\ pass' = [pass EXCEPT !.created = "failed"] /\ UNCHANGED <<obj, doubled>>
    /\ UNCHANGED <<sb, arrived, made, world, adopting, refill, ledger, asking, outside, late, unwritten, struck>>

\* settleCreate, against the row as it stands: gone, being deleted, failed or up.
\* failCreate credits the parent whether or not the failure was written.
Settle ==
    LET i == pass.cur
    IN  /\ i # None /\ pass.created # "no" /\ adopting.at = "no"
        /\ pass' = [pass EXCEPT !.cur = None, !.created = "no"]
        /\ \/ /\ sb[i].phase = "none" /\ obj' = [obj EXCEPT ![i] = "none"]
              /\ UNCHANGED <<sb, ledger, faults, unwritten>>
           \/ /\ sb[i].phase = "Deleting" /\ UNCHANGED <<sb, obj, ledger, faults, unwritten>>
           \/ /\ sb[i].phase \notin {"none", "Deleting"} /\ pass.created = "failed"
              /\ ledger' = credited(ledger, sb[i].parent) /\ UNCHANGED obj
              /\ \/ sb' = [sb EXCEPT ![i] = Failed(@, "CreateFailed")] /\ UNCHANGED <<faults, unwritten>>
                 \/ /\ faults < world.faults /\ faults' = faults + 1 /\ UNCHANGED sb
                    /\ unwritten' = unwritten \cup ({sb[i].parent} \ {None})
           \/ /\ sb[i].phase \notin {"none", "Deleting"} /\ pass.created = "ok"
              /\ \/ sb' = [sb EXCEPT ![i].phase = "Running", ![i].sched = TRUE] /\ UNCHANGED faults
                 \/ faults < world.faults /\ faults' = faults + 1 /\ UNCHANGED sb
              /\ UNCHANGED <<obj, ledger, unwritten>>
        /\ UNCHANGED <<arrived, made, world, adopting, refill, asking, outside, late, struck, doubled>>

\* The queues, read as one line: the head that ranks first among those of the
\* queues still open.
Open == {i \in In("Queued") : spec(i).queue \notin pass.closed}
Heading == pass.at = "queues" /\ pass.cur = None /\ adopting.at = "no"
Closing(h) == [pass EXCEPT !.closed = @ \cup {spec(h).queue}, !.tried = @ \cup {h}]

\* Bug: a victim gives up its disk.
StoppingWithDisk(S) == [cpu |-> 0 - MapThenSumSet(LAMBDA i : spec(i).cpu, S),
                        disk |-> 0 - MapThenSumSet(LAMBDA i : spec(i).disk, S), slots |-> 0 - Cardinality(S)]
\* victims: the shortest run of candidates, in order, that makes the head fit.
\* A victim keeps its disk.
candidates(h) ==
    {i \in In("Running") : spec(i).preempt /\ spec(i).pri < spec(h).pri /\ sb[i].pre < MaxPreemptions}
victimBefore(i, j) ==
    LET a == spec(i)
        b == spec(j)
    IN  \/ a.pri < b.pri
        \/ a.pri = b.pri /\ a.cpu > b.cpu
        \/ a.pri = b.pri /\ a.cpu = b.cpu /\ Arrival(i) > Arrival(j)
FirstVictims(h, n) == {i \in candidates(h) : Cardinality({j \in candidates(h) : victimBefore(j, i)}) < n}
Stopping(S) == [cpu |-> 0 - MapThenSumSet(LAMBDA i : spec(i).cpu, S), disk |-> 0, slots |-> 0 - Cardinality(S)]
victims(h) ==
    LET enough == {n \in 0..Cardinality(candidates(h)) : holds(plus(plus(usageOn, askOf(h)), Stopping(FirstVictims(h, n))))}
    IN  IF enough = {} THEN {} ELSE FirstVictims(h, Min(enough))

\* requeue: stopped, and back in its queue with its place in line.
Requeued(rows, S) ==
    [i \in Ids |-> IF i \in S THEN [rows[i] EXCEPT !.phase = "Queued", !.pre = @ + 1, !.sched = FALSE] ELSE rows[i]]
Stopped(objs, S) == [i \in Ids |-> IF i \in S /\ objs[i] = "running" THEN "stopped" ELSE objs[i]]

PassDone ==
    /\ Heading /\ Open = {} /\ pass' = Idle
    /\ UNCHANGED <<sb, arrived, obj, made, world, adopting, refill, ledger, asking, faults, history>>

\* Bug: a preempted head is left for another pass.
HeadBlocksPreempted ==
    /\ Heading /\ Open # {}
    /\ LET h == First(Open)
       IN  /\ h \in pass.tried \/ requeued(h) \/ (~fits(askOf(h)) /\ victims(h) = {})
           /\ pass' = Closing(h)
    /\ UNCHANGED <<sb, arrived, obj, made, world, adopting, refill, ledger, asking, faults, history>>
\* A head already tried, or that fits neither now nor with its victims stopped.
HeadBlocks ==
    /\ Heading /\ Open # {}
    /\ LET h == First(Open)
       IN  /\ h \in pass.tried \/ (~fits(askOf(h)) /\ victims(h) = {})
           /\ pass' = Closing(h)
    /\ UNCHANGED <<sb, arrived, obj, made, world, adopting, refill, ledger, asking, faults, history>>

\* fit: the victims are stopped and n of the entries given up, as many as are in
\* the way of the head, or none where the pool could not be listed.
FitRows(V) == Requeued(sb, V)
FitObjs(V, n) == Stopped(Gave(Entries, n), V)
InTheWay(h, V) == evictions(plus(askOf(h), Stopping(V)), Cardinality(Entries))
Tried(h) == [pass EXCEPT !.tried = @ \cup {h}]

\* placeQueued: the row is placed and realized, or its write is refused.
PlaceQueued(h, V, n) ==
    /\ sb[h].pre = 0 /\ obj' = FitObjs(V, n)
    /\ \/ Realize([FitRows(V) EXCEPT ![h].phase = "Pending"], h, [Tried(h) EXCEPT !.placed = @ \cup {h}])
       \/ /\ faults < world.faults /\ faults' = faults + 1 /\ pass' = Tried(h)
          /\ sb' = FitRows(V) /\ UNCHANGED <<ledger, unwritten>>

\* resume: a preempted sandbox is started again; it is Lost when its object is
\* gone, and stays queued when the driver or the write refuses.
Resume(h, V, n) ==
    /\ sb[h].pre > 0 /\ UNCHANGED <<ledger, unwritten>>
    /\ \/ /\ obj[h] # "none" /\ pass' = [Tried(h) EXCEPT !.placed = @ \cup {h}] /\ UNCHANGED faults
          /\ sb' = [FitRows(V) EXCEPT ![h].phase = "Running", ![h].sched = TRUE]
          /\ obj' = [FitObjs(V, n) EXCEPT ![h] = "running"]
       \/ /\ obj[h] = "none" /\ pass' = [Tried(h) EXCEPT !.placed = @ \cup {h}] /\ UNCHANGED faults
          /\ sb' = [FitRows(V) EXCEPT ![h].phase = "Lost"] /\ obj' = FitObjs(V, n)
       \/ /\ faults < world.faults /\ faults' = faults + 1 /\ pass' = Tried(h) /\ sb' = FitRows(V)
          /\ \E up \in BOOLEAN : obj' = [FitObjs(V, n) EXCEPT ![h] = IF up /\ @ # "none" THEN "running" ELSE @]

HeadPlaced ==
    /\ Heading /\ Open # {}
    /\ LET h == First(Open)
       IN  /\ h \notin pass.tried /\ fits(askOf(h))
           /\ \E n \in {0, InTheWay(h, {})} : PlaceQueued(h, {}, n) \/ Resume(h, {}, n)
    /\ UNCHANGED <<arrived, made, world, adopting, refill, asking, outside, late, struck, doubled>>

HeadPreempts ==
    /\ Heading /\ Open # {}
    /\ LET h == First(Open)
           V == victims(h)
       IN  /\ h \notin pass.tried /\ ~fits(askOf(h)) /\ V # {} /\ \A v \in V : obj[v] # "none"
           /\ \E n \in {0, InTheWay(h, V)} : PlaceQueued(h, V, n) \/ Resume(h, V, n)
    /\ UNCHANGED <<arrived, made, world, adopting, refill, asking, outside, late, struck, doubled>>

\* An entry in the way that cannot be deleted: those before it are gone, the
\* victims stay requeued and the head waits.
EntryStays ==
    /\ Heading /\ Open # {} /\ faults < world.faults /\ faults' = faults + 1
    /\ LET h == First(Open)
           V == IF fits(askOf(h)) THEN {} ELSE victims(h)
       IN  /\ h \notin pass.tried /\ (fits(askOf(h)) \/ V # {}) /\ \A v \in V : obj[v] # "none"
           /\ \E n \in 0..(InTheWay(h, V) - 1) : obj' = FitObjs(V, n)
           /\ sb' = FitRows(V) /\ pass' = Closing(h)
    /\ UNCHANGED <<arrived, made, world, adopting, refill, ledger, asking, history>>

\* A victim that cannot be stopped, or written, ends the preemption; the ones
\* before it stay requeued.
PreemptionEnds ==
    /\ Heading /\ Open # {}
    /\ LET h == First(Open)
       IN  /\ h \notin pass.tried /\ ~fits(askOf(h)) /\ pass' = Closing(h)
           /\ \E v \in victims(h) :
                 LET before == {i \in victims(h) : victimBefore(i, v)}
                 IN  /\ \A i \in before : obj[i] # "none"
                     /\ obj[v] # "none" => faults < world.faults
                     /\ faults' = IF obj[v] # "none" THEN faults + 1 ELSE faults
                     /\ sb' = Requeued(sb, before) /\ obj' \in {Stopped(obj, before), Stopped(obj, before \cup {v})}
    /\ UNCHANGED <<arrived, made, world, adopting, refill, ledger, asking, history>>

-----------------------------------------------------------------------------
(* What a client, the reaper, the environment and the substrate do. *)

Stop(i) ==
    /\ Unlocked /\ "stop" \in world.verbs /\ sb[i].phase = "Running" /\ obj[i] = "running"
    /\ sb' = [sb EXCEPT ![i].phase = "Stopped"] /\ obj' = [obj EXCEPT ![i] = "stopped"]
    /\ UNCHANGED <<arrived, made, world, pass, adopting, refill, ledger, asking, faults, history>>

\* Start counts the owner's sandboxes and not the environment's capacity.
Start(i) ==
    /\ Unlocked /\ sb[i].phase = "Stopped" /\ obj[i] = "stopped"
    /\ sb' = [sb EXCEPT ![i].phase = "Running"] /\ obj' = [obj EXCEPT ![i] = "running"]
    /\ outside' = (outside \/ ~holds(plus(usageOn, [requestOf(sb[i].shape) EXCEPT !.disk = 0])))
    /\ UNCHANGED <<arrived, made, world, pass, adopting, refill, ledger, asking, faults, late, unwritten, struck, doubled>>

\* Bug: the children alone.
belowOne(i) == {j \in Rows : sb[j].parent = i}
below(i) ==
    LET within[n \in 0..MaxIds] ==
            IF n = 0 THEN {i} ELSE within[n - 1] \cup {j \in Rows : sb[j].parent \in within[n - 1]}
    IN  within[MaxIds] \ {i}
depth(j) == Cardinality({a \in Rows : j \in below(a)})

Forget(S) ==
    /\ sb' = [i \in Ids |-> IF i \in S THEN NoRow ELSE sb[i]]
    /\ arrived' = SelectSeq(arrived, LAMBDA k : k \notin S)
    /\ obj' = [i \in Ids |-> IF i \in S THEN "none" ELSE obj[i]]
    /\ ledger' = [i \in Ids |-> IF i \in S THEN 0 ELSE ledger[i]]

\* Act with verb delete: the tree below goes first, deepest generation before the
\* one above it, and a driver that refuses one cuts the delete short there.
Delete(i) ==
    /\ Unlocked /\ "delete" \in world.verbs /\ sb[i].phase # "none"
    /\ Forget(below(i) \cup {i})
    /\ UNCHANGED <<made, world, pass, adopting, refill, asking, faults, history>>

DeleteCut(i, j) ==
    LET before == {k \in below(i) : depth(k) > depth(j) \/ (depth(k) = depth(j) /\ k < j)}
    IN  /\ Unlocked /\ "delete" \in world.verbs /\ sb[i].phase # "none" /\ j \in below(i) \cup {i}
        /\ faults < world.faults /\ faults' = faults + 1
        /\ sb' = [k \in Ids |-> IF k \in before THEN NoRow
                                ELSE IF k = j THEN [sb[k] EXCEPT !.phase = "Deleting"] ELSE sb[k]]
        /\ arrived' = SelectSeq(arrived, LAMBDA k : k \notin before)
        /\ obj' = [k \in Ids |-> IF k \in before THEN "none" ELSE obj[k]]
        /\ ledger' = [k \in Ids |-> IF k \in before THEN 0 ELSE ledger[k]]
        /\ UNCHANGED <<made, world, pass, adopting, refill, asking, history>>

\* finishDeletes ends a delete that was cut short.
FinishDelete(i) ==
    /\ Unlocked /\ sb[i].phase = "Deleting" /\ Forget({i})
    /\ UNCHANGED <<made, world, pass, adopting, refill, asking, faults, history>>

Vanish(i) ==
    /\ obj[i] = "stopped" /\ obj' = [obj EXCEPT ![i] = "none"]
    /\ faults < world.faults /\ faults' = faults + 1
    /\ UNCHANGED <<sb, arrived, made, world, pass, adopting, refill, ledger, asking, history>>

\* A restart keeps the rows, the ledger and what the driver holds.
Crash ==
    /\ faults < world.faults /\ faults' = faults + 1
    /\ pass' = Idle /\ adopting' = NotAdopting /\ refill' = NoRefill /\ asking' = None
    /\ UNCHANGED <<sb, arrived, obj, made, world, ledger, history>>

-----------------------------------------------------------------------------
(* The refill loop, which takes no lock. *)

poolTarget(live) == Max({0, Min({world.pool.size, Capacity.slots - live})})

\* refillEnvironment reads the driver once and decides: an entry past its grace
\* and not running goes, then the oldest ready ones above the target.
RefillList ==
    LET all == {i \in Ids : obj[i] \in {"filling", "entry"}}
        target == poolTarget(Cardinality({i \in Ids : obj[i] = "running"}))
    IN  /\ refill = NoRefill /\ world.pool.size > 0
        /\ \E stale \in SUBSET {i \in all : obj[i] = "filling"} :
              LET keep == all \ stale
                  surplus == Oldest({i \in keep : obj[i] = "entry"}, Cardinality(keep) - target)
                  short == target - Cardinality(keep \ surplus)
              IN  refill' = [drop |-> stale \cup surplus, make |-> Max({0, Min({short, PoolInFlight})})]
        /\ UNCHANGED <<sb, arrived, obj, made, world, pass, adopting, ledger, asking, faults, history>>

\* Each one it decided on is deleted by its id, whatever became of it since.
RefillDrop(e) ==
    /\ e \in refill.drop /\ refill' = [refill EXCEPT !.drop = @ \ {e}]
    /\ \/ obj' = [obj EXCEPT ![e] = "none"] /\ UNCHANGED faults
       \/ faults < world.faults /\ faults' = faults + 1 /\ UNCHANGED obj
    /\ struck' = IF obj'[e] = "none" /\ obj[e] \in {"running", "stopped"} THEN struck \cup {e} ELSE struck
    /\ UNCHANGED <<sb, arrived, made, world, pass, adopting, ledger, asking, outside, late, unwritten, doubled>>

\* prewarm; one refusal ends the tick.
RefillMake ==
    /\ refill.drop = {} /\ refill.make > 0
    /\ \/ /\ refill' = [refill EXCEPT !.make = @ - 1] /\ UNCHANGED faults
          /\ made < MaxIds /\ made' = made + 1 /\ obj' = [obj EXCEPT ![made'] = "filling"]
       \/ /\ refill' = NoRefill /\ UNCHANGED <<made, obj>>
          /\ \/ faults < world.faults /\ faults' = faults + 1
             \/ made = MaxIds /\ UNCHANGED faults
    /\ UNCHANGED <<sb, arrived, world, pass, adopting, ledger, asking, history>>

EntryUp(e) ==
    /\ obj[e] = "filling" /\ obj' = [obj EXCEPT ![e] = "entry"]
    /\ UNCHANGED <<sb, arrived, made, world, pass, adopting, refill, ledger, asking, faults, history>>

-----------------------------------------------------------------------------

Schedule == PassBegin \/ RealizeNext \/ DriveCreate \/ Settle \/ PassDone \/ HeadBlocks
            \/ HeadPlaced \/ HeadPreempts \/ EntryStays \/ PreemptionEnds
Creates == (\E s \in world.menu : Create(s) \/ CreateEntryStays(s) \/ CreateAdopting(s) \/ Spawn(s)
                                  \/ \E p \in {None, asking} : NoCapacityUnwritten(s, p))
           \/ Adopt \/ AdoptLost \/ CreateAfterLost \/ SpawnRefused \/ \E p \in Ids : Ask(p)
Refill == RefillList \/ RefillMake \/ \E e \in Ids : RefillDrop(e) \/ EntryUp(e)
Acts == Crash \/ \E i \in Ids : Stop(i) \/ Start(i) \/ Delete(i) \/ FinishDelete(i) \/ Vanish(i)
                                          \/ \E j \in Ids : DeleteCut(i, j)
Next == Schedule \/ PassNotReady \/ Creates \/ Refill \/ Acts

Spec == Init /\ [][Next]_vars

\* The loop runs on its tick, and the request that holds the lock ends.  Weak
\* fairness, with what enables each written out.
SchedulerDue ==
    \/ pass.cur # None /\ pass.created = "no"
    \/ adopting.at = "no" /\ (pass.at # "idle" \/ In("Queued") # {} \/ \E i \in Ids : placed(i))
FairSpec ==
    /\ Spec
    /\ []<>~SchedulerDue \/ []<><<Schedule>>_vars
    /\ []<>(adopting.at = "no")

-----------------------------------------------------------------------------
(* Properties. *)

Phases == {"none", "Queued", "Pending", "Running", "Stopped", "Failed", "Deleting", "Lost"}
TypeOK ==
    /\ \A i \in Ids : /\ sb[i].phase \in Phases /\ sb[i].parent \in 0..MaxIds
                      /\ sb[i].pre \in 0..MaxPreemptions
                      /\ ledger[i] \in 0..world.budget /\ obj[i] \in {"none", "filling", "entry", "running", "stopped"}
    /\ \A i \in Ids : i \in Rows <=> \E k \in 1..Len(arrived) : arrived[k] = i
    /\ made \in 0..MaxIds /\ adopting.id \in 0..MaxIds /\ pass.cur \in 0..MaxIds
    /\ refill.drop \subseteq Ids /\ faults <= world.faults

\* place and fit: what the rows of the environment hold stays within what it
\* declares, through every placement, preemption and resume, until capacity is
\* taken with no placement: Start and the adoption of an entry count none, and a
\* refusal that is not written leaves its row Pending.
CapacityHeld == ~outside => holds(usageOn)

\* scheduleEnvironment: a sandbox is not placed while another of its queue, of a
\* higher priority or of the same and the same owner and earlier, waits.
Placing(i) == sb[i].phase \in {"none", "Queued"} /\ sb'[i].phase \in {"Pending", "Running"}
Ahead(j, shape, at) ==
    LET s == spec(j)
    IN  s.pri > shape.pri \/ (s.pri = shape.pri /\ s.owner = shape.owner /\ Arrival(j) < at)
NoPassing ==
    [][\A i \in Ids : Placing(i) =>
          \A j \in Waiting(Shape[sb'[i].shape].queue) \ {i} :
              ~Ahead(j, Shape[sb'[i].shape], IF i \in Rows THEN Arrival(i) ELSE MaxIds + 1)]_vars

\* A pass never stops a sandbox it placed, where none joined a queue while its
\* lock was released.
PassKeeps == [][\A i \in pass.placed : ~pass.joined /\ sb[i].phase = "Running" => sb'[i].phase # "Queued"]_vars

\* WriteSpawn and CreditSpawn: the ledger counts at least the children that were
\* created and did not fail, so no sandbox has more of them than its budget, but
\* one that was credited for a failure whose write was refused (failCreate, Expire).
BudgetHeld == \A p \in Rows \ unwritten : Cardinality({j \in Rows : sb[j].parent = p /\ sb[j].reason = ""}) <= ledger[p]

\* cascade: no sandbox outlives the one that created it, but a child that was
\* authorized before its parent was deleted and written after (spawn.go).
TreeWhole == \A i \in Rows \ late : sb[i].parent # None => sb[i].parent \in Rows

\* A sandbox that runs has its object: neither the pool's evictions nor a create
\* settled late takes it away; only the refill loop, which deletes by id what it
\* listed, takes an entry that was adopted since (pool.go), and an entry a create
\* took as its own unadopted is still the pool's.
RunningKept == \A i \in In("Running") \ (struck \cup doubled) : obj[i] \in {"running", "stopped"}

\* RunScheduler: where nothing computes and what waits fits, a queue does not stay
\* as it is: its head is placed, resumed, lost or failed.
Stalled == In("Queued") # {} /\ (\A i \in Ids : ~holdsCompute(sb[i].phase)) /\ (\A i \in In("Queued") : fits(askOf(i)))
QueueMoves == Stalled ~> ~Stalled

=============================================================================
