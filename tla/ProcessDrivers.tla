--------------------------- MODULE ProcessDrivers ---------------------------
\* The drivers that run a sandbox as processes of the host: the native driver,
\* the output read from a file while its process writes, and the local driver of
\* a device.
EXTENDS Naturals, FiniteSets

-----------------------------------------------------------------------------
\* The native driver (runtime/native) over one sandbox with a main command: a
\* record on disk, the host processes it started, the reaper of each and the
\* supervisor of each main process.  One lock orders the calls; a stop holds
\* it while it waits for reapers, and a supervisor takes it to write how its
\* process ended, which may be after a stop, a start or a delete.

CONSTANTS Procs,      \* host processes, used in order
          MaxFaults,  \* record writes that fail, drivers that die
          Nil

VARIABLES phase,   \* the record's phase, "none" without a record
          proc,    \* proc[p]: "unborn", "alive", "dead", "done" (reaped)
          active,  \* d.active: the executions not yet dropped
          main,    \* d.mains: the main process held, whether it is being
                   \* stopped and whether its end was written
          sups,    \* supervisors still to write, with the process and the flag
          lock,    \* the call that holds d.mu while it waits: "free", "Stop", "Delete", "Close"
          up,      \* the driver's process: "up", "closing", "down"
          asked,   \* the phase was last set by a stop
          half,    \* a start failed after the record said Running
          faults

nativeVars == <<phase, proc, active, main, sups, lock, up, asked, half, faults>>

NoMain == [p |-> Nil, stopping |-> FALSE, err |-> FALSE]

NativeInit ==
  /\ phase = "none" /\ proc = [p \in Procs |-> "unborn"]
  /\ active = {} /\ main = NoMain /\ sups = {} /\ lock = "free" /\ up = "up"
  /\ asked = FALSE /\ half = FALSE /\ faults = 0

Next_(p) == proc[p] = "unborn" /\ \A q \in Procs : q < p => proc[q] # "unborn"
Called == up = "up" /\ lock = "free"
Fault == faults < MaxFaults /\ faults' = faults + 1

\* startMainLocked: the record says Running before the process exists, and a
\* process whose record cannot be written is ended at once.
StartMain(p) ==
  /\ Next_(p)
  /\ proc' = [proc EXCEPT ![p] = "alive"] /\ active' = active \cup {p}
  /\ main' = [NoMain EXCEPT !.p = p] /\ sups' = sups \cup {p}
  /\ phase' = "Running" /\ asked' = FALSE /\ half' = FALSE
  /\ UNCHANGED <<lock, up, faults>>
\* The command does not start, and the record says Failed if it can be written.
StartFails ==
  /\ Fault /\ half' \in BOOLEAN /\ phase' = IF half' THEN "Running" ELSE "Failed"
  /\ asked' = FALSE
  /\ UNCHANGED <<proc, active, main, sups, lock, up>>
\* The second write fails: the process is ended before the call returns.
StartUnsaved(p) ==
  /\ Fault /\ Next_(p)
  /\ proc' = [proc EXCEPT ![p] = "done"] /\ active' = active \cup {p}
  /\ half' = TRUE /\ phase' = "Running" /\ asked' = FALSE
  /\ UNCHANGED <<main, sups, lock, up>>

\* A create that fails removes its directory.
Create(p) == Called /\ phase = "none" /\ main = NoMain /\ StartMain(p)
CreateUnsaved(p) ==
  /\ Called /\ phase = "none" /\ Fault /\ Next_(p)
  /\ proc' = [proc EXCEPT ![p] = "done"] /\ active' = active \cup {p}
  /\ UNCHANGED <<phase, main, sups, lock, up, asked, half>>
\* Start refuses a lost sandbox, and one whose last end was not written.
Startable == Called /\ phase \in {"Stopped", "Exited", "Failed"} /\ ~main.err
Start(p) == Startable /\ (StartMain(p) \/ StartUnsaved(p))
Exec(p) ==
  /\ Called /\ phase = "Running" /\ ~main.err /\ Next_(p)
  /\ proc' = [proc EXCEPT ![p] = "alive"] /\ active' = active \cup {p}
  /\ UNCHANGED <<phase, main, sups, lock, up, asked, half, faults>>

\* cancel: the group of every active execution is killed, and the call waits
\* for the reapers with the lock held.
Kill(S) == proc' = [p \in Procs |-> IF p \in S /\ proc[p] = "alive" THEN "dead" ELSE proc[p]]
Cancel(op) ==
  /\ Called
  /\ op \in {"Stop", "Delete"} => phase # "none"
  /\ op = "Stop" => phase # "Lost"
  /\ lock' = op /\ Kill(active)
  /\ main' = IF op = "Delete" \/ main = NoMain THEN main ELSE [main EXCEPT !.stopping = TRUE]
  /\ UNCHANGED <<phase, active, sups, up, asked, half, faults>>

AllDone == \A p \in active : proc[p] = "done"

Stopped ==
  /\ lock = "Stop" /\ AllDone /\ lock' = "free"
  /\ \/ /\ phase' = "Stopped" /\ asked' = TRUE /\ half' = FALSE
        /\ main' = IF main.p # Nil /\ main.p \notin sups THEN NoMain ELSE main
        /\ UNCHANGED faults
     \/ Fault /\ UNCHANGED <<phase, main, asked, half>>
  /\ UNCHANGED <<proc, active, sups, up>>
Deleted ==
  /\ lock = "Delete" /\ AllDone /\ lock' = "free"
  /\ \/ /\ phase' = "none" /\ main' = NoMain /\ asked' = FALSE /\ half' = FALSE
        /\ UNCHANGED faults
     \/ Fault /\ UNCHANGED <<phase, main, asked, half>>
  /\ UNCHANGED <<proc, active, sups, up>>
\* Close ends every execution and waits for the supervisors' writes.
Closing ==
  /\ lock = "Close" /\ AllDone /\ lock' = "free" /\ up' = "closing"
  /\ UNCHANGED <<phase, proc, active, main, sups, asked, half, faults>>
Closed ==
  /\ up = "closing" /\ lock = "free" /\ (main = NoMain \/ main.p \notin sups)
  /\ up' = "down" /\ active' = {} /\ main' = NoMain /\ sups' = {}
  /\ UNCHANGED <<phase, proc, lock, asked, half, faults>>

\* A command ends by itself; its reaper says so before it takes the lock.
Exits(p) ==
  /\ proc[p] = "alive" /\ proc' = [proc EXCEPT ![p] = "dead"]
  /\ UNCHANGED <<phase, active, main, sups, lock, up, asked, half, faults>>

Reap(p) ==
  /\ p \in active /\ proc[p] = "dead" /\ proc' = [proc EXCEPT ![p] = "done"]
  /\ UNCHANGED <<phase, active, main, sups, lock, up, asked, half, faults>>
Drop(p) ==
  /\ p \in active /\ proc[p] = "done" /\ lock = "free" /\ up # "down"
  /\ active' = active \ {p}
  /\ UNCHANGED <<phase, proc, main, sups, lock, up, asked, half, faults>>

\* supervise: how the main process ended, unless it is no longer the one held.
Ended == IF main.stopping THEN {"Stopped"} ELSE IF phase = "Running" THEN {"Exited", "Failed"} ELSE {phase}

Supervise(p) ==
  /\ p \in sups /\ proc[p] = "done" /\ lock = "free" /\ up # "down"
  /\ sups' = sups \ {p}
  /\ IF main.p # p \/ phase = "none"
     THEN UNCHANGED <<phase, half, faults>> /\ main' = IF main.p = p THEN NoMain ELSE main
     ELSE \/ phase' \in Ended /\ half' = FALSE /\ main' = NoMain /\ UNCHANGED faults
          \/ Fault /\ main' = [main EXCEPT !.err = TRUE] /\ UNCHANGED <<phase, half>>
  /\ UNCHANGED <<proc, active, lock, up, asked>>

\* The process dies with its reapers; what it started lives on.
Crash ==
  /\ up # "down" /\ Fault /\ up' = "down" /\ lock' = "free"
  /\ active' = {} /\ main' = NoMain /\ sups' = {}
  /\ UNCHANGED <<phase, proc, asked, half>>
\* New: a record that says Running is a process nobody supervises.
Open ==
  /\ up = "down" /\ up' = "up"
  /\ phase' = IF phase = "Running" THEN "Lost" ELSE phase
  /\ half' = FALSE
  /\ UNCHANGED <<proc, active, main, sups, lock, asked, faults>>

Reapers == \E p \in Procs : Reap(p) \/ Drop(p)
Returns == Stopped \/ Deleted \/ Closing \/ Closed
NativeNext ==
  \/ \E p \in Procs : Create(p) \/ CreateUnsaved(p) \/ Start(p) \/ Exec(p) \/ Exits(p) \/ Supervise(p)
  \/ (Startable /\ StartFails)
  \/ Reapers \/ Returns
  \/ \E op \in {"Stop", "Delete", "Close"} : Cancel(op)
  \/ Crash \/ Open

\* A Go mutex hands itself to a waiter that has waited long enough, so a
\* supervisor is not kept out for ever by calls that come one after another.
NativeFairness ==
  /\ WF_nativeVars(Reapers) /\ WF_nativeVars(Returns) /\ \A p \in Procs : SF_nativeVars(Supervise(p))

NativeSpec == NativeInit /\ [][NativeNext]_nativeVars /\ NativeFairness

\* --------------------------------------------------------------- properties
\* At most one main process is held, and an execution is one that was started.
NativeTypeOK ==
  /\ phase \in {"none", "Running", "Stopped", "Exited", "Failed", "Lost"}
  /\ \A p \in active : proc[p] # "unborn"
  /\ main.p # Nil => proc[main.p] # "unborn"

\* A record that says Running is one whose main process this driver holds and
\* will write the end of, or whose unwritten end every read reports: a stop, a
\* start and a late supervisor in any order leave no Running nobody ends.  The
\* exception is a start that failed between its two writes of the record.
RunningIsHeld ==
  up = "up" /\ lock = "free" /\ phase = "Running" => half \/ main.err \/ main.p \in sups

\* A stopped sandbox runs nothing of this driver's, and stays stopped: a
\* supervisor that writes after the stop, or after the start that followed,
\* does not report its own process's end as the sandbox's.
StopHolds == asked /\ up = "up" /\ lock = "free" => phase = "Stopped" /\ \A p \in active : proc[p] = "done"

\* A deleted sandbox leaves none of the processes this driver held running.
DeleteHolds == phase = "none" /\ lock = "free" => \A p \in active : proc[p] = "done"

\* The lock is let go: a call that waits for reapers is not waited on by them.
CallsEnd == (lock # "free") ~> (lock = "free")

\* How the main process ended is written: a Running record does not outlive
\* its process, unless the driver dies with it.
EndIsWritten ==
  \A p \in Procs : (main.p = p /\ proc[p] = "dead" /\ up = "up") ~> (main.p # p \/ main.err \/ up # "up")

-----------------------------------------------------------------------------
\* Output read from a file while a process still writes it: the follower of the
\* local driver's detached commands, beside the wait that removes the file, and
\* the native driver's log follow, whose file holds records.

CONSTANT MaxRecords  \* records a process writes

VARIABLES kind,    \* "local": bytes under a follower; "native": records under Logs
          partial,    \* half records written: a stat may find the file inside one
          ended,   \* the writer has ended, and for native its supervisor said so
          there,   \* the file has its name
          opened,  \* the reader holds the file
          pc,      \* the reader's step
          size,    \* what the reader last found the file to hold
          read,    \* half records read
          waited,  \* the caller's Wait has returned
          result   \* "none", "eof", "short" (ErrUnexpectedEOF)

logsVars == <<kind, partial, ended, there, opened, pc, size, read, waited, result>>

LogsInit ==
  /\ kind \in {"local", "native"} /\ partial = 0 /\ ended = FALSE /\ there = TRUE
  /\ opened = (kind = "native") /\ pc = "read" /\ size = 0 /\ read = 0
  /\ waited = FALSE /\ result = "none"

\* The process writes; a command ends where it likes, a record is ended whole.
Write ==
  /\ ~ended /\ partial < 2 * MaxRecords /\ partial' = partial + 1
  /\ UNCHANGED <<kind, ended, there, opened, pc, size, read, waited, result>>
End ==
  /\ ~ended /\ partial % 2 = 0 /\ ended' = TRUE
  /\ UNCHANGED <<kind, partial, there, opened, pc, size, read, waited, result>>

\* detachedExec.Wait: an ended stage is forgotten, its error file with it.
Wait ==
  /\ kind = "local" /\ ended /\ ~waited /\ waited' = TRUE /\ there' = FALSE
  /\ UNCHANGED <<kind, partial, ended, opened, pc, size, read, result>>

\* follower.Read: what is there; at its end, whether the writer has ended; and
\* if it has, one more read.
Read ==
  /\ kind = "local" /\ pc = "read"
  /\ opened' = (opened \/ there)
  /\ IF opened' /\ read < partial THEN read' = partial /\ pc' = pc ELSE read' = read /\ pc' = "ended?"
  /\ UNCHANGED <<kind, partial, ended, there, size, waited, result>>

AskEnded ==
  /\ kind = "local" /\ pc = "ended?"
  /\ pc' = IF ended THEN "last" ELSE "read"
  /\ UNCHANGED <<kind, partial, ended, there, opened, size, read, waited, result>>
LastRead ==
  /\ kind = "local" /\ pc = "last"
  /\ IF opened /\ read < partial THEN read' = partial /\ pc' = "read" /\ result' = result
     ELSE read' = read /\ pc' = "done" /\ result' = "eof"
  /\ UNCHANGED <<kind, partial, ended, there, opened, size, waited>>

\* streamLogs: the size, the whole records up to it, then whether the main
\* process is done.  A record the size cuts is read again, unless the process
\* is done by then.
Stat ==
  /\ kind = "native" /\ pc = "read" /\ size' = partial /\ pc' = "chunks"
  /\ UNCHANGED <<kind, partial, ended, there, opened, read, waited, result>>

Whole(n) == 2 * (n \div 2)
Chunks ==
  /\ kind = "native" /\ pc = "chunks" /\ read' = Whole(size)
  /\ pc' = IF size > read' THEN "cut" ELSE "done?"
  /\ UNCHANGED <<kind, partial, ended, there, opened, size, waited, result>>
Cut ==
  /\ kind = "native" /\ pc = "cut"
  /\ IF ended THEN pc' = "done" /\ result' = "short" ELSE pc' = "done?" /\ result' = result
  /\ UNCHANGED <<kind, partial, ended, there, opened, size, read, waited>>

Drained == ended /\ read >= partial
AskDone ==
  /\ kind = "native" /\ pc = "done?"
  /\ IF Drained THEN pc' = "done" /\ result' = "eof" ELSE pc' = "read" /\ result' = result
  /\ UNCHANGED <<kind, partial, ended, there, opened, size, read, waited>>

Reader == Read \/ AskEnded \/ LastRead \/ Stat \/ Chunks \/ Cut \/ AskDone
Done == pc = "done" /\ ended /\ (kind = "local" => waited) /\ UNCHANGED logsVars
LogsNext == Write \/ End \/ Wait \/ Reader \/ Done

LogsFairness ==
  /\ WF_logsVars(Reader) /\ WF_logsVars(End)

LogsSpec == LogsInit /\ [][LogsNext]_logsVars /\ LogsFairness

\* --------------------------------------------------------------- properties
\* A reader never reads past what was written, and a result comes at its end.
LogsTypeOK == read <= partial /\ (result # "none" <=> pc = "done")

\* A follow that ends at the end of the file has delivered everything the
\* process wrote, the last write before its end included, once it had the file
\* open when the wait removed its name.
EndsWhole == result = "eof" /\ (opened \/ ~waited) => read = partial

\* A follow ends once its writer has.
ReaderEnds == ended ~> (pc = "done")

-----------------------------------------------------------------------------
\* The local driver (runtime/local) over one sandbox's directory: a record that
\* names every process the sandbox runs, detached stages that outlive the
\* driver, attached commands whose pipes it holds, and the driver that comes
\* after one that was killed.

CONSTANTS LocalProcs,       \* host processes, used in order
          MaxLocalFaults,   \* writes that fail
          MaxDrivers   \* drivers started over the directory

VARIABLES dir,       \* "none", "bare" (a directory with no record), "whole"
          rec,       \* the record
          localProc,      \* proc[p]: whether it runs, its kind and its holder
          localOp,        \* a call that launched a process it has not recorded
          held,      \* d.attached: the attached commands of this driver
          reapers,   \* the goroutines that wait on them, with the name each drops
          doomed,    \* attached commands whose context is cancelled
          localUp, driver, \* whether a driver runs, and which
          localAsked,     \* the sandbox was last stopped, not started
          lost,      \* processes the directory no longer leads to
          taken,     \* processes whose entry another command's reaper dropped
          localFaults

localVars == <<dir, rec, localProc, localOp, held, reapers, doomed, localUp, driver, localAsked, lost, taken, localFaults>>

NoRec == [phase |-> "none", main |-> Nil, stages |-> {}, attached |-> {}, execs |-> 0]
Idle == [kind |-> "none", p |-> Nil]
Unborn == [st |-> "unborn", kind |-> "none", holder |-> 0]

LocalInit ==
  /\ dir = "none" /\ rec = NoRec /\ localProc = [p \in LocalProcs |-> Unborn] /\ localOp = Idle
  /\ held = {} /\ reapers = {} /\ doomed = {} /\ localUp = TRUE /\ driver = 1
  /\ localAsked = FALSE /\ lost = {} /\ taken = {} /\ localFaults = 0

Alive(p) == localProc[p].st = "alive"
Running == {p \in LocalProcs : Alive(p)}
Unused(p) == localProc[p].st = "unborn" /\ \A q \in LocalProcs : q < p => localProc[q].st # "unborn"
LocalCalled == localUp /\ localOp = Idle
LocalFault == localFaults < MaxLocalFaults /\ localFaults' = localFaults + 1
LocalEnded(S) == [p \in LocalProcs |-> IF p \in S /\ Alive(p) THEN [localProc[p] EXCEPT !.st = "dead"] ELSE localProc[p]]
Named == rec.stages \cup {a.p : a \in rec.attached} \cup (IF rec.main = Nil THEN {} ELSE {rec.main})

\* refresh: how the main stage ended, read when the record still says Running.
Refreshed == IF rec.phase = "Running" /\ rec.main # Nil /\ ~Alive(rec.main) THEN "Ended" ELSE rec.phase

\* The guard of each call that launches a process.
MayLaunch(call) ==
  CASE call = "create" -> dir = "none"
    [] call = "start" -> dir = "whole" /\ Refreshed # "Running"
    [] OTHER -> dir = "whole" /\ Refreshed = "Running"
\* A process exists before anything says so.
Launch(call, p) ==
  /\ LocalCalled /\ MayLaunch(call) /\ Unused(p)
  /\ localProc' = [localProc EXCEPT ![p] = [st |-> "alive", kind |-> call, holder |-> driver]]
  /\ localOp' = [kind |-> call, p |-> p]
  /\ dir' = IF call = "create" THEN "bare" ELSE dir
  /\ UNCHANGED <<rec, held, reapers, doomed, localUp, driver, localAsked, lost, taken, localFaults>>

\* What save writes for each call.  A command's name counts the record's execs.
Written(call, p) ==
  LET n == rec.execs + 1
      r == [rec EXCEPT !.phase = Refreshed, !.execs = n]
  IN CASE call = "create" -> [NoRec EXCEPT !.phase = "Running", !.main = p]
       [] call = "start" -> [rec EXCEPT !.phase = "Running", !.main = p]
       [] call = "exec" -> [r EXCEPT !.stages = @ \cup {p}]
       [] call = "attach" -> [r EXCEPT !.attached = @ \cup {[name |-> n, p |-> p, holder |-> driver]}]
Save ==
  /\ localUp /\ localOp # Idle /\ localOp' = Idle
  /\ rec' = Written(localOp.kind, localOp.p) /\ dir' = "whole"
  /\ localAsked' = (localAsked /\ localOp.kind \notin {"create", "start"})
  /\ IF localOp.kind = "attach"
     THEN held' = held \cup {localOp.p} /\ reapers' = reapers \cup {[p |-> localOp.p, name |-> rec.execs + 1]}
     ELSE UNCHANGED <<held, reapers>>
  /\ UNCHANGED <<localProc, doomed, localUp, driver, lost, taken, localFaults>>

\* A create, an exec and an attach end what they could not record; a start
\* returns with its main stage running.
SaveFails ==
  /\ localUp /\ localOp # Idle /\ LocalFault /\ localOp' = Idle
  /\ localProc' = IF localOp.kind = "start" THEN localProc ELSE LocalEnded({localOp.p})
  /\ lost' = IF localOp.kind = "start" THEN lost \cup {localOp.p} ELSE lost
  /\ dir' = IF localOp.kind = "create" THEN "none" ELSE dir
  /\ UNCHANGED <<rec, held, reapers, doomed, localUp, driver, localAsked, taken>>

Inspect ==
  /\ LocalCalled /\ dir = "whole" /\ Refreshed # rec.phase
  /\ rec' = [rec EXCEPT !.phase = Refreshed]
  /\ UNCHANGED <<dir, localProc, localOp, held, reapers, doomed, localUp, driver, localAsked, lost, taken, localFaults>>

\* endAll: the stages and the attached commands this driver does not hold end
\* before the call returns; those it holds are cancelled.
EndAll ==
  /\ localProc' = LocalEnded(Named \ held) /\ doomed' = doomed \cup held
Stop ==
  /\ LocalCalled /\ dir = "whole" /\ EndAll
  /\ \/ rec' = [rec EXCEPT !.phase = "Stopped", !.stages = {}, !.attached = {}] /\ localAsked' = TRUE /\ UNCHANGED localFaults
     \/ LocalFault /\ UNCHANGED <<rec, localAsked>>
  /\ UNCHANGED <<dir, localOp, held, reapers, localUp, driver, lost, taken>>
Delete ==
  /\ LocalCalled /\ dir = "whole" /\ EndAll
  /\ held' = {} /\ dir' = "none" /\ rec' = NoRec /\ localAsked' = TRUE
  /\ UNCHANGED <<localOp, reapers, localUp, driver, lost, taken, localFaults>>

\* A command ends: by itself, by its caller going away or its timeout, or by
\* the cancel that reaches it.
LocalExits(p) ==
  /\ Alive(p) /\ localProc' = LocalEnded({p})
  /\ UNCHANGED <<dir, rec, localOp, held, reapers, doomed, localUp, driver, localAsked, lost, taken, localFaults>>
CallerLeaves(p) ==
  /\ localUp /\ p \in held \ doomed /\ doomed' = doomed \cup {p}
  /\ UNCHANGED <<dir, rec, localProc, localOp, held, reapers, localUp, driver, localAsked, lost, taken, localFaults>>

Killed(p) ==
  /\ p \in doomed /\ Alive(p) /\ localProc' = LocalEnded({p})
  /\ UNCHANGED <<dir, rec, localOp, held, reapers, doomed, localUp, driver, localAsked, lost, taken, localFaults>>
\* The reaper lets the command go, then drops its entry, by name, from the
\* record there is by then.
LocalReap(r) ==
  /\ r \in reapers /\ ~Alive(r.p) /\ r.p \in held \cup doomed /\ LocalCalled
  /\ held' = held \ {r.p} /\ doomed' = doomed \ {r.p}
  /\ UNCHANGED <<dir, rec, localProc, localOp, reapers, localUp, driver, localAsked, lost, taken, localFaults>>
Dropped(name) == {a \in rec.attached : a.name = name}
forgetAttached(r) ==
  /\ r \in reapers /\ ~Alive(r.p) /\ r.p \notin held \cup doomed /\ LocalCalled
  /\ reapers' = reapers \ {r}
  /\ \/ /\ rec' = [rec EXCEPT !.attached = @ \ Dropped(r.name)]
        /\ taken' = taken \cup {a.p : a \in {b \in Dropped(r.name) : b.p # r.p}}
        /\ UNCHANGED localFaults
     \/ LocalFault /\ UNCHANGED <<rec, taken>>
  /\ UNCHANGED <<dir, localProc, localOp, held, doomed, localUp, driver, localAsked, lost>>

\* Close cancels what this driver holds and waits for it.
Close ==
  /\ LocalCalled /\ held # {} /\ ~(held \subseteq doomed) /\ doomed' = doomed \cup held
  /\ UNCHANGED <<dir, rec, localProc, localOp, held, reapers, localUp, driver, localAsked, lost, taken, localFaults>>
\* The process is killed: what it launched and had not recorded, and what it
\* had dropped from the record and not yet killed, nothing leads to any more.
LocalCrash ==
  /\ localUp /\ driver < MaxDrivers /\ localUp' = FALSE
  /\ lost' = lost \cup (IF localOp = Idle THEN {} ELSE {localOp.p}) \cup ((Running \cap doomed) \ Named)
  /\ localOp' = Idle /\ held' = {} /\ reapers' = {} /\ doomed' = {}
  /\ UNCHANGED <<dir, rec, localProc, driver, localAsked, taken, localFaults>>
\* New ends every attached command whose holder no longer runs; one it could
\* not end keeps its entry.
endOrphans(a) == a.holder # driver + 1

LocalOpen ==
  /\ ~localUp /\ localUp' = TRUE /\ driver' = driver + 1
  /\ LET orphans == {a \in rec.attached : endOrphans(a)}
     IN \/ /\ localProc' = LocalEnded({a.p : a \in orphans})
           /\ rec' = [rec EXCEPT !.attached = @ \ orphans] /\ UNCHANGED localFaults
        \/ orphans # {} /\ LocalFault /\ UNCHANGED <<localProc, rec>>
  /\ UNCHANGED <<dir, localOp, held, reapers, doomed, localAsked, lost, taken>>

LocalReapers == \E p \in LocalProcs, n \in 1 .. Cardinality(LocalProcs) :
             LET r == [p |-> p, name |-> n] IN LocalReap(r) \/ forgetAttached(r)
LocalNext ==
  \/ \E p \in LocalProcs : \/ \E call \in {"create", "start", "exec", "attach"} : Launch(call, p)
                           \/ LocalExits(p) \/ CallerLeaves(p) \/ Killed(p)
  \/ Save \/ SaveFails \/ Inspect \/ Stop \/ Delete \/ LocalReapers \/ Close \/ LocalCrash \/ LocalOpen

\* Calls return, cancelled commands are killed, reapers run, and the control
\* plane observes every sandbox again and again.
LocalFairness ==
  /\ WF_localVars(Save) /\ WF_localVars(Inspect) /\ WF_localVars(LocalReapers)
  /\ \A p \in LocalProcs : WF_localVars(Killed(p))

LocalSpec == LocalInit /\ [][LocalNext]_localVars /\ LocalFairness

\* --------------------------------------------------------------- properties
\* A name in the record is a process that was started, and no two attached
\* entries share a name.
LocalTypeOK ==
  /\ \A p \in Named : localProc[p].st # "unborn"
  /\ \A a, b \in rec.attached : a.name = b.name => a = b
  /\ dir # "whole" => rec = NoRec

\* Every process that runs is one the record names, or one being killed, or one
\* the call in progress will record or end: what a stop, a delete or the next
\* driver reads leads to all of it.  Not covered are a start whose write
\* failed, a driver killed in a gap, and an entry dropped under a reused name.
Recorded ==
  \A p \in Running : p \in Named \cup doomed \cup lost \cup taken \/ localOp.p = p

\* A driver started after one was killed holds every attached command that
\* still runs, or its record still names it for the next stop.
OrphansEnded ==
  localUp => \A p \in Running \ (lost \cup taken) :
          localProc[p].kind = "attach" /\ localProc[p].holder # driver => p \in Named

\* A sandbox stopped or deleted comes to run nothing that was recorded, and a
\* stop that returned leaves only commands already cancelled.
StopIsQuiet == localAsked /\ localUp /\ localOp = Idle => Running \subseteq doomed \cup lost \cup taken
\* A stop ends what it cancelled: no process recorded and killed stays alive.
StopEnds == localAsked ~> (~localAsked \/ ~localUp \/ Running \subseteq lost \cup taken)

\* A main stage that ended is reported: the record does not go on saying
\* Running, whichever driver reads it.
EndIsReported ==
  (rec.phase = "Running" /\ rec.main # Nil /\ Refreshed = "Ended" /\ localUp) ~> (~localUp \/ Refreshed = rec.phase)

=============================================================================
