------------------------------ MODULE Autosize ------------------------------
(***************************************************************************)
(* The sizing of one sandbox (controller/autosize.go): readings, raises in *)
(* place, moves, starts at the same size and giving up, beside a client    *)
(* that starts, stops, deletes and opens sessions, a workload that is      *)
(* killed for memory, a driver whose calls fail and a control plane that   *)
(* is replaced with a move half done.                                      *)
(*                                                                         *)
(* A size is a number of 1..Max, Max the manifest's ceiling; NextMemory is *)
(* one more.  A reading and what it hands to follow() hold one claim, so   *)
(* there is one `job' at a time, whose driver calls are each a step.       *)
(***************************************************************************)
EXTENDS Naturals

CONSTANTS Max, SameSizeRestarts, MaxKills, MaxFaults, MaxActs, MaxCrashes

VARIABLES
  obj,      \* the desired record: held, phase, reason, memory, MemoryUnplaced, MemoryAtCeiling
  wl,       \* the driver's state: phase, oom, memory, the size asked for and its verdict
  sizer,    \* c.size: moving, hold, restarts, spaced, the kill count's rise, open sessions
  job,      \* the claimed work: where it is, the record and the state it read, the size
            \* it moves to, and whether it finishes a start that was cut short
  left,     \* what the bounds still allow: kills, faults, acts, crashes
  past      \* history: joined, cut, refused (a stop or a start of a move failed), lost

vars == <<obj, wl, sizer, job, left, past>>

Sizes == 1..Max
Marks == {"raised", "notRaised"}
Idle == [at |-> "idle", of |-> 0, saw |-> 0, was |-> "", to |-> 0, ok |-> FALSE, fin |-> FALSE]
FreshSizer == [moving |-> "", hold |-> FALSE, restarts |-> 0, spaced |-> TRUE, rose |-> FALSE, sessions |-> FALSE]

Init ==
  /\ obj = [held |-> TRUE, phase |-> "Running", reason |-> "", mem |-> 1, unplaced |-> "no", full |-> FALSE]
  /\ wl = [phase |-> "Running", oom |-> FALSE, mem |-> 1, asked |-> 0, how |-> ""]
  /\ sizer = FreshSizer
  /\ job = Idle
  /\ left = [kills |-> MaxKills, faults |-> MaxFaults, acts |-> MaxActs, crashes |-> MaxCrashes]
  /\ past = [joined |-> FALSE, cut |-> FALSE, refused |-> FALSE, lost |-> FALSE]

Spend(b) == /\ left[b] > 0 /\ left' = [left EXCEPT ![b] = @ - 1]

\* The driver's record takes a size; one the sandbox holds is no change.
Asked(w, m, how) ==
  IF w.phase = "none" THEN w
  ELSE IF m = w.mem THEN [w EXCEPT !.asked = 0, !.how = ""] ELSE [w EXCEPT !.asked = m, !.how = how]

-----------------------------------------------------------------------------
(* The rule every read and the loop share.                                 *)

raises(w) == w.phase = "Failed" /\ w.oom /\ w.mem < Max
exhausted(o) == o.unplaced = "exhausted"

\* What the control plane does with a killed sandbox: no more than
\* SameSizeRestarts starts at one size inside the backoff.
fate(o, w) ==
  IF ~raises(w) \/ exhausted(o) THEN "none"
  ELSE IF ~sizer.hold THEN "raise"
  ELSE IF sizer.restarts >= SameSizeRestarts THEN "giveUp"
  ELSE "restart"

marked(o) == IF o.phase = "Starting" /\ o.reason \in Marks THEN o.reason ELSE ""

\* Bug: a read looks at the record only and not at the work in flight.
risingByRecord(o, w) ==
  IF sizer.hold \/ w.phase # "Stopped" THEN "" ELSE marked(o)

rising(o, w) ==
  IF sizer.moving # "" THEN (IF w.phase = "Running" THEN "" ELSE sizer.moving)
  ELSE CASE fate(o, w) = "raise"   -> "raised"
         [] fate(o, w) = "restart" -> "notRaised"
         [] fate(o, w) = "giveUp"  -> ""
         [] OTHER -> IF sizer.hold \/ w.phase # "Stopped" THEN "" ELSE marked(o)

\* The phase a reader of the sandbox is given.
present(o, w) == IF w.phase # "none" /\ rising(o, w) # "" THEN "Starting" ELSE w.phase
Reads == present(obj, wl)

accounted(o, w) ==
  CASE fate(o, w) = "raise"   -> [o EXCEPT !.phase = "Starting", !.reason = "raised"]
    [] fate(o, w) = "restart" -> [o EXCEPT !.phase = "Starting", !.reason = "notRaised"]
    [] OTHER                  -> [o EXCEPT !.phase = w.phase, !.reason = ""]

creating == sizer.moving # ""
Gone == ~obj.held \/ obj.phase = "Deleting"

\* recordSize: the size the driver reports, and with a larger one the end of
\* what was counted against the old.
recordSize(o, w) ==
  LET larger == w.mem > o.mem
  IN  [o EXCEPT !.mem = w.mem,
                !.full = @ /\ (w.mem = o.mem \/ w.mem = Max),
                !.unplaced = IF larger /\ @ # "no" THEN "placed" ELSE @]
Recounted(s, o, w) == IF w.mem > o.mem THEN [s EXCEPT !.restarts = 0, !.spaced = TRUE] ELSE s

-----------------------------------------------------------------------------
(* A reading.                                                              *)

Claimable == obj.held /\ obj.phase # "Deleting" /\ ~creating

\* claim, then Inspect: the record and the state the reading acts on.
Read ==
  /\ job.at = "idle" /\ Claimable /\ wl.phase # "none"
  /\ job' = [Idle EXCEPT !.at = "decide", !.of = obj, !.saw = wl]
  /\ UNCHANGED <<obj, wl, sizer, left, past>>

\* The interval's pass lists an environment's states first and claims each
\* sandbox later, with the state it listed.
List ==
  /\ job.at = "idle" /\ obj.held /\ wl.phase # "none"
  /\ job' = [Idle EXCEPT !.at = "claim", !.saw = wl]
  /\ UNCHANGED <<obj, wl, sizer, left, past>>
claim ==
  /\ job.at = "claim"
  /\ job' = IF Claimable THEN [job EXCEPT !.at = "decide", !.of = obj] ELSE Idle
  /\ UNCHANGED <<obj, wl, sizer, left, past>>

Seen == job.saw
Decide(p) == job.at = "decide" /\ Seen.phase = p
EndJob == job' = Idle
Goto(at) == job' = [job EXCEPT !.at = at]

DecideRaise ==
  /\ Decide("Failed") /\ fate(job.of, Seen) = "raise"
  /\ job' = [job EXCEPT !.at = "mark", !.was = "raised", !.to = Seen.mem + 1]
  /\ UNCHANGED <<obj, wl, sizer, left, past>>

DecideRestart ==
  /\ Decide("Failed") /\ fate(job.of, Seen) = "restart"
  /\ IF sizer.spaced THEN job' = [job EXCEPT !.at = "mark", !.was = "notRaised"] ELSE EndJob
  /\ UNCHANGED <<obj, wl, sizer, left, past>>

giveUp ==
  /\ Decide("Failed") /\ fate(job.of, Seen) = "giveUp"
  /\ obj' = IF Gone THEN obj ELSE [obj EXCEPT !.unplaced = "exhausted"]
  /\ EndJob
  /\ UNCHANGED <<wl, sizer, left, past>>

\* Killed at the ceiling, given up on, or an end that is no kill.
DecideFailed ==
  /\ Decide("Failed") /\ fate(job.of, Seen) = "none"
  /\ obj' = IF Seen.oom /\ Seen.mem = Max /\ ~Gone THEN [obj EXCEPT !.full = TRUE] ELSE obj
  /\ EndJob
  /\ UNCHANGED <<wl, sizer, left, past>>

DecideStopped ==
  /\ Decide("Stopped")
  /\ IF marked(job.of) # "" /\ ~sizer.hold
     THEN Goto("finish") /\ UNCHANGED <<obj, sizer>>
     ELSE /\ EndJob
          /\ obj' = IF Gone THEN obj ELSE recordSize(obj, Seen)
          /\ sizer' = IF Gone THEN sizer ELSE Recounted(sizer, obj, Seen)
  /\ UNCHANGED <<wl, left, past>>

\* outstanding: a size asked for and not held.  A raise in progress is left
\* alone, one never given is asked for again, one refused, then or now, moves
\* the sandbox when no session is open in it.
MoveIfFree ==
  IF sizer.sessions \/ sizer.hold THEN EndJob
  ELSE job' = [job EXCEPT !.at = "mark", !.was = "raised", !.to = Seen.asked]

outstanding ==
  /\ Decide("Running") /\ Seen.asked # 0
  /\ sizer' = [sizer EXCEPT !.rose = FALSE]
  /\ \/ /\ Seen.asked <= Seen.mem \/ Seen.how = "progress"
        /\ EndJob /\ UNCHANGED <<wl, left>>
     \/ /\ Seen.asked > Seen.mem /\ Seen.how = "restart"
        /\ \/ /\ wl.phase # "none" /\ EndJob /\ UNCHANGED left
              /\ wl' = IF wl.phase = "Running" THEN [wl EXCEPT !.how = "progress"] ELSE wl
           \/ /\ wl.phase = "none" /\ MoveIfFree /\ UNCHANGED <<wl, left>>
           \/ /\ wl.phase # "none" /\ Spend("faults") /\ MoveIfFree /\ UNCHANGED wl
     \/ /\ Seen.asked > Seen.mem /\ Seen.how = "refused"
        /\ MoveIfFree /\ UNCHANGED <<wl, left>>
  /\ UNCHANGED <<obj, past>>

\* A running sandbox at a settled size: the record is brought to the driver's
\* account, and a kill below the ceiling asks for the next size in place.
DecideRunning ==
  /\ Decide("Running") /\ Seen.asked = 0
  /\ LET told == IF marked(job.of) # "" THEN accounted(obj, Seen) ELSE obj
         o == recordSize(told, Seen)
         s == Recounted(sizer, obj, Seen)
     IN  /\ obj' = IF Gone THEN obj
                   ELSE [o EXCEPT !.full = IF Seen.mem = Max THEN @ \/ sizer.rose ELSE FALSE]
         /\ sizer' = [(IF Gone THEN sizer ELSE s) EXCEPT !.rose = FALSE]
         /\ IF sizer.rose /\ Seen.mem < Max /\ ~sizer.hold
            THEN job' = [job EXCEPT !.at = "ask", !.to = Seen.mem + 1] ELSE EndJob
  /\ UNCHANGED <<wl, left, past>>

\* The raise: the driver records the size; in place it applies it, may not
\* have been able to, or the call fails and recorded nothing.
Ask ==
  /\ job.at = "ask"
  /\ \/ /\ wl.phase # "none"
        /\ wl' = Asked(wl, job.to, IF wl.phase = "Running" THEN "progress" ELSE "restart")
        /\ UNCHANGED left
     \/ /\ Spend("faults") /\ wl' = Asked(wl, job.to, "restart")
     \/ /\ wl.phase = "none" /\ UNCHANGED <<wl, left>>
  /\ Goto("settle")
  /\ UNCHANGED <<obj, sizer, past>>

\* settle polls for the verdict: applied, refused, ended, or out of time.
settle ==
  /\ job.at = "settle"
  /\ CASE wl.phase = "Running" /\ wl.asked = 0 ->
            /\ EndJob
            /\ obj' = IF Gone THEN obj ELSE recordSize(obj, wl)
            /\ sizer' = IF Gone THEN sizer ELSE Recounted(sizer, obj, wl)
       [] wl.phase = "Running" /\ wl.asked # 0 /\ wl.how # "progress" ->
            /\ IF sizer.sessions THEN EndJob
               ELSE job' = [job EXCEPT !.at = "mark", !.was = "raised", !.to = wl.asked, !.saw = wl]
            /\ UNCHANGED <<obj, sizer>>
       [] OTHER -> EndJob /\ UNCHANGED <<obj, sizer>>
  /\ UNCHANGED <<wl, left, past>>

-----------------------------------------------------------------------------
(* A move, a start at the same size and the end of one cut short.          *)

\* The mark and the record come before the workload is touched.
Mark ==
  /\ job.at = "mark"
  /\ \/ /\ (Gone \/ creating) /\ EndJob /\ UNCHANGED <<obj, sizer, left>>
     \/ /\ ~Gone /\ ~creating
        /\ sizer' = [sizer EXCEPT !.moving = job.was,
                                  !.restarts = IF job.was = "notRaised" THEN @ + 1 ELSE @,
                                  !.spaced = @ /\ job.was # "notRaised"]
        /\ obj' = [obj EXCEPT !.phase = "Starting", !.reason = job.was]
        /\ Goto(IF job.was = "raised" THEN "size" ELSE "start")
        /\ UNCHANGED left
     \/ /\ ~Gone /\ ~creating /\ Spend("faults") /\ EndJob /\ UNCHANGED <<obj, sizer>>
  /\ UNCHANGED <<wl, past>>

Unmark(s) == [s EXCEPT !.moving = ""]

\* The driver's record takes the size first; a failure that left it without
\* the size ends the move.
Size ==
  /\ job.at = "size"
  /\ \/ /\ wl.phase # "none"
        /\ wl' = Asked(wl, job.to, "restart")
        /\ Goto(IF Seen.phase = "Running" THEN "stop" ELSE "start")
        /\ UNCHANGED <<sizer, left>>
     \/ /\ wl.phase = "none" /\ EndJob /\ sizer' = Unmark(sizer) /\ UNCHANGED <<wl, left>>
     \/ /\ wl.phase # "none" /\ Spend("faults")
        /\ IF job.to \in {wl.asked, wl.mem} THEN Goto(IF Seen.phase = "Running" THEN "stop" ELSE "start") /\ UNCHANGED sizer
           ELSE EndJob /\ sizer' = Unmark(sizer)
        /\ UNCHANGED wl
  /\ UNCHANGED <<obj, past>>

Stopped(w) == IF w.phase = "none" THEN w ELSE [w EXCEPT !.phase = "Stopped", !.oom = FALSE]

\* Stop: every command running in the sandbox ends with it.  A stop the driver
\* fails, whether or not it took effect, is a move that failed.
Stop ==
  /\ job.at = "stop"
  /\ \/ wl' = Stopped(wl) /\ Goto("start") /\ UNCHANGED left
     \/ wl' \in {wl, Stopped(wl)} /\ Goto("failed") /\ Spend("faults")
  /\ past' = [past EXCEPT !.cut = @ \/ (sizer.sessions /\ wl.phase = "Running" /\ wl' # wl),
                          !.refused = @ \/ job'.at = "failed"]
  /\ sizer' = [sizer EXCEPT !.sessions = @ /\ wl' = wl]
  /\ UNCHANGED obj

\* Start is handed to the substrate while the sandbox is there...
Start ==
  /\ job.at = "start"
  /\ IF wl.phase = "none" THEN Goto("failed") ELSE Goto("starting")
  /\ UNCHANGED <<obj, wl, sizer, left, past>>

Sized(w) == [phase |-> "Running", oom |-> FALSE, asked |-> 0, how |-> "",
             mem |-> IF w.asked # 0 THEN w.asked ELSE w.mem]

\* ...and comes up, beside a delete too, which then left a workload behind.
Started ==
  /\ job.at = "starting"
  /\ wl' = Sized(IF wl.phase = "none" THEN Seen ELSE wl)
  /\ job' = [job EXCEPT !.at = "after", !.ok = TRUE]
  /\ UNCHANGED <<obj, sizer, left, past>>

\* No room: what was there stays as it was, or was removed for the start.
NoRoom ==
  /\ job.at = "starting" /\ Spend("faults")
  /\ wl' \in {wl, Stopped(wl)}
  /\ past' = [past EXCEPT !.refused = TRUE]
  /\ Goto("failed")
  /\ UNCHANGED <<obj, sizer>>

\* The failure of a move begins the backoff, counted afresh, and is undone; that
\* of a start that finishes either kind begins the backoff; that of a start at
\* the same size was counted before it.
Held(s) == [s EXCEPT !.hold = TRUE, !.restarts = 0, !.spaced = TRUE]
Failed ==
  /\ job.at = "failed"
  /\ \/ job.fin /\ sizer' = [sizer EXCEPT !.hold = TRUE] /\ Goto("after")
     \/ ~job.fin /\ job.was = "raised" /\ sizer' = Held(sizer) /\ Goto("undo")
     \/ ~job.fin /\ job.was = "notRaised" /\ UNCHANGED sizer /\ Goto("after")
  /\ UNCHANGED <<obj, wl, left, past>>

Undo ==
  /\ job.at = "undo"
  /\ \/ /\ wl.phase # "none"
        /\ wl' = Asked(wl, Seen.mem, "restart")
        /\ Goto("restore") /\ UNCHANGED left
     \/ /\ wl.phase = "none" /\ Goto("after") /\ UNCHANGED <<wl, left>>
     \/ /\ Spend("faults") /\ Goto("after") /\ UNCHANGED wl
  /\ UNCHANGED <<obj, sizer, past>>

\* The start at the previous size, which may find no room either.
Restore ==
  /\ job.at = "restore"
  /\ \/ /\ wl' = Sized(IF wl.phase = "none" THEN [Seen EXCEPT !.asked = 0] ELSE wl) /\ UNCHANGED left
     \/ /\ Spend("faults") /\ wl' \in {wl, Stopped(wl)}
  /\ Goto("after")
  /\ UNCHANGED <<obj, sizer, past>>

\* afterMove and afterRestart: a sandbox deleted meanwhile has what was made
\* removed, any other's record says what its driver reports.
After ==
  /\ job.at = "after"
  /\ EndJob
  /\ \/ /\ Gone
        /\ wl' = [wl EXCEPT !.phase = "none", !.oom = FALSE, !.asked = 0, !.how = ""]
        /\ sizer' = Unmark(sizer)
        /\ UNCHANGED <<obj, left, past>>
     \/ /\ ~Gone
        /\ LET o == accounted(obj, wl)
               grown == job.ok /\ job.was = "raised"
           IN  /\ obj' = IF grown THEN recordSize(o, wl)
                         ELSE IF job.was = "raised" /\ ~job.fin THEN [o EXCEPT !.unplaced = "noRoom"] ELSE o
               /\ sizer' = Unmark(IF grown THEN Recounted(sizer, obj, wl) ELSE sizer)
        /\ UNCHANGED <<wl, left, past>>
     \/ /\ Spend("faults") /\ sizer' = Unmark(sizer)
        /\ past' = [past EXCEPT !.lost = @ \/ Gone]
        /\ UNCHANGED <<obj, wl>>

\* finishMove: the start that was cut short is made at the recorded size.
Finish ==
  /\ job.at = "finish"
  /\ IF Gone \/ marked(obj) = "" \/ creating THEN EndJob /\ UNCHANGED sizer
     ELSE /\ sizer' = [sizer EXCEPT !.moving = marked(obj)]
          /\ job' = [job EXCEPT !.at = "start", !.was = marked(obj), !.fin = TRUE]
  /\ UNCHANGED <<obj, wl, left, past>>

-----------------------------------------------------------------------------
(* The client.                                                             *)

reopen(o) == IF exhausted(o) THEN [o EXCEPT !.unplaced = "noRoom"] ELSE o

ClientStart ==
  /\ obj.held /\ obj.phase # "Deleting" /\ ~creating
  /\ Reads \in {"Stopped", "Failed"}
  /\ Spend("acts")
  /\ wl' = Sized(wl)
  /\ obj' = [reopen(obj) EXCEPT !.phase = "Running", !.reason = ""]
  /\ sizer' = [sizer EXCEPT !.restarts = 0, !.spaced = TRUE]
  /\ UNCHANGED <<job, past>>

ClientStop ==
  /\ obj.held /\ obj.phase # "Deleting" /\ ~creating
  /\ Reads = "Running"
  /\ Spend("acts")
  /\ wl' = Stopped(wl)
  /\ obj' = [obj EXCEPT !.phase = "Stopped", !.reason = ""]
  /\ sizer' = [sizer EXCEPT !.sessions = FALSE]
  /\ UNCHANGED <<job, past>>

Delete ==
  /\ obj.held /\ obj.phase # "Deleting" /\ Spend("acts")
  /\ obj' = [obj EXCEPT !.phase = "Deleting", !.reason = ""]
  /\ UNCHANGED <<wl, sizer, job, past>>

deleteOne ==
  /\ obj.held /\ obj.phase = "Deleting"
  /\ wl' = [wl EXCEPT !.phase = "none", !.oom = FALSE, !.asked = 0, !.how = ""]
  /\ obj' = [obj EXCEPT !.held = FALSE]
  /\ sizer' = [sizer EXCEPT !.sessions = FALSE]
  /\ UNCHANGED <<job, left, past>>

\* Exec and Attach reach the driver with no look at the sizing work.
SessionOpen ==
  /\ obj.held /\ wl.phase = "Running" /\ ~sizer.sessions
  /\ sizer' = [sizer EXCEPT !.sessions = TRUE]
  /\ past' = [past EXCEPT !.joined = @ \/ job.at \notin {"idle", "claim", "decide", "ask", "settle"}]
  /\ UNCHANGED <<obj, wl, job, left>>

SessionClose ==
  /\ sizer.sessions
  /\ sizer' = [sizer EXCEPT !.sessions = FALSE]
  /\ UNCHANGED <<obj, wl, job, left, past>>

-----------------------------------------------------------------------------
(* The substrate, the clock and the process.                               *)

\* The kernel kills the workload, or one process of it.
Kill ==
  /\ wl.phase = "Running" /\ Spend("kills")
  /\ \/ wl' = [wl EXCEPT !.phase = "Failed", !.oom = TRUE] /\ sizer' = [sizer EXCEPT !.sessions = FALSE]
     \/ wl' = wl /\ sizer' = [sizer EXCEPT !.rose = TRUE]
  /\ UNCHANGED <<obj, job, past>>

Verdict ==
  /\ wl.phase = "Running" /\ wl.asked # 0 /\ wl.how = "progress"
  /\ \/ wl' = Sized(wl)
     \/ wl' = [wl EXCEPT !.how = "refused"]
  /\ UNCHANGED <<obj, sizer, job, left, past>>

\* MoveBackoff ends; SameSizeRestartBackoff ends.
HoldEnds ==
  /\ sizer.hold /\ sizer' = [sizer EXCEPT !.hold = FALSE]
  /\ UNCHANGED <<obj, wl, job, left, past>>
SpaceEnds ==
  /\ ~sizer.spaced /\ sizer' = [sizer EXCEPT !.spaced = TRUE]
  /\ UNCHANGED <<obj, wl, job, left, past>>

\* The process is replaced: what it held in memory is gone, and its streams.
\* The next reading of the kill count is a baseline that raises nothing.
Crash ==
  /\ Spend("crashes")
  /\ sizer' = FreshSizer
  /\ EndJob
  /\ past' = [past EXCEPT !.lost = @ \/ (Gone /\ job.at # "idle")]
  /\ UNCHANGED <<obj, wl>>

JobStep ==
  \/ claim \/ DecideRaise \/ DecideRestart \/ giveUp \/ DecideFailed \/ DecideStopped
  \/ outstanding \/ DecideRunning \/ Ask \/ settle \/ Mark \/ Size \/ Stop \/ Start
  \/ Started \/ Failed \/ Undo \/ Restore \/ After \/ Finish

Next ==
  \/ Read \/ List \/ JobStep \/ NoRoom
  \/ ClientStart \/ ClientStop \/ Delete \/ deleteOne \/ SessionOpen \/ SessionClose
  \/ Kill \/ Verdict \/ HoldEnds \/ SpaceEnds \/ Crash

\* The loop reads on its interval and its goroutines run on (RunAutosize,
\* follow); a delete is retried; backoffs are clock time; the substrate gives
\* a verdict.
Fairness ==
  /\ WF_vars(Read) /\ WF_vars(JobStep) /\ WF_vars(deleteOne)
  /\ WF_vars(HoldEnds) /\ WF_vars(SpaceEnds) /\ WF_vars(Verdict)

Spec == Init /\ [][Next]_vars /\ Fairness

-----------------------------------------------------------------------------
(* Properties.                                                             *)

\* The record, the driver's state and the sizer's maps hold what the code
\* puts in them, and no more than SameSizeRestarts starts are counted.
TypeOK ==
  /\ obj.held \in BOOLEAN /\ obj.phase \in {"Running", "Stopped", "Failed", "Starting", "Deleting"}
  /\ obj.reason \in Marks \cup {""} /\ obj.mem \in Sizes /\ obj.full \in BOOLEAN
  /\ obj.unplaced \in {"no", "noRoom", "exhausted", "placed"}
  /\ wl.phase \in {"Running", "Failed", "Stopped", "none"} /\ wl.mem \in Sizes /\ wl.asked \in 0..Max
  /\ sizer.restarts \in 0..SameSizeRestarts
  /\ sizer.moving \in Marks \cup {""}
  /\ job.at = "idle" => sizer.moving = ""

\* "No client's command is cut by a restart the control plane chose": a move
\* ends a session only where it was opened after the look at the count.
CutOnlyWhenJoined == past.cut => past.joined

\* "There is no instant at which such a sandbox reads as Failed or Stopped":
\* a sandbox comes to read so only where a client stopped it, a stop or a
\* start of a move failed, it was killed at its ceiling, or the starts at its size were used
\* up; a kill and every step of a move read as Running or Starting.
NoFlicker ==
  [][(Reads \notin {"Failed", "Stopped"} /\ Reads' \in {"Failed", "Stopped"} /\ ~Gone')
       => \/ left'.acts < left.acts \/ past.refused' \/ wl'.mem = Max
          \/ exhausted(obj') \/ sizer'.restarts >= SameSizeRestarts]_vars

\* A sandbox killed for memory below its ceiling runs again, is left stopped
\* or failed with the condition that says why, or is deleted; none stays
\* killed and reading as Starting.
KilledSettles ==
  raises(wl) ~> (wl.phase # "Failed" \/ exhausted(obj) \/ Gone)

\* A start cut short between its stop and its start is finished, or its
\* record no longer says it is being made.
CutShortFinishes ==
  (marked(obj) # "" /\ wl.phase = "Stopped") ~> (wl.phase # "Stopped" \/ marked(obj) = "")

\* status.resources comes to what the driver holds, whichever of a raise in
\* place, a move or a start changed it and whatever was lost on the way,
\* while no further size is outstanding.
SizeFollows == <>[](Gone \/ wl.phase # "Running" \/ wl.asked # 0 \/ obj.mem = wl.mem)

\* "A sandbox deleted while it moved has what the move made removed": nothing
\* is left of one unless the end of the move failed or its process died.
DeletedGoes == ~obj.held ~> (wl.phase = "none" \/ past.lost)
=============================================================================
