----------------------- MODULE LifecycleOutcomeProofs -----------------------
(***************************************************************************)
(* What each step of a sandbox's handlers, driver and reaper keeps, for    *)
(* every bound on tokens, faults, restarts and recoveries, so that the     *)
(* rows say what the driver has (RowsTellDriver) and an identity stands    *)
(* while its workload is kept and no longer (IdentityFollows).             *)
(*                                                                         *)
(* Each of the four outcomes holds under the failures it names, and each   *)
(* has an invariant over the handler in progress on top of what the lock   *)
(* gives (IInv of Lifecycle).  A step is shown to keep all four at once.   *)
(***************************************************************************)
EXTENDS Lifecycle, TLAPS

\* The steps of a delete, and the steps of a recovery before the driver is asked.
Deletes == {"delete", "forgetMap", "forgetToken", "forgetRow"}
Recreates == {"attempt", "repush", "remint", "recreate"}

\* The driver's object is there, it runs or is coming up, and the phases that
\* are not counted as running.
There == obj.state # "None"
Up == obj.state \in {"Pending", "Running"}
Down == {"Stopped", "Failed"}

\* A driver that answers truly and a process that goes on: once the row is
\* gone, and once the delete's own call was answered, nothing is there but what
\* a create in flight has made and will find out about.
DriverHeld == "driver" \notin seen /\ "ambiguous" \notin seen /\ crashes = 0
OrphanInv ==
    /\ DriverHeld
    /\ (row.phase = "None" /\ op.at # "unmake") \/ op.at \in Deletes \ {"delete"}
    /\ drive.at \notin {"inspect", "settle"}
    => ~There

\* A row says Stopped or Failed only of what is not up, except while a start
\* is being written.  What a handler read stays true until it writes it, and a
\* recovery gives up only what is really gone, or never does.
Counting ==
    /\ {"driver", "gateway", "mint", "volume", "ambiguous"} \cap seen = {} /\ crashes = 0
    /\ "stale" \in seen => "store" \notin seen /\ RecoveryAttempts > 0
CountInv ==
    Counting =>
    /\ row.phase \in Down /\ op.at \notin {"started", "unstart"} => ~Up
    /\ op.at \notin {"hold", "failing", "revoking", "failed"}
    /\ drive.at = "settle" => drive.created /\ (drive.read \in Down => ~Up)
    /\ op.at = "settled" /\ op.read \in Down => ~Up
    /\ "stale" \notin seen /\ op.at \in Recreates => ~There
    /\ "store" \notin seen /\ attempts > 0 => op.at \in Recreates \ {"attempt"}

\* A token on its way into the workload is not ended and is not the one it
\* replaces; the token about to be ended is not the one the workload holds.
HoldInv ==
    "ambiguous" \notin seen =>
    /\ row.sched /\ row.phase # "Deleting" /\ There => obj.token \notin revoked
    /\ row.phase = "Pending" /\ drive.at # "none" =>
           drive.token \notin revoked /\ drive.token # drive.previous
    /\ drive.at = "inspect" \/ (drive.at = "settle" /\ drive.created) =>
           (There => obj.token = drive.token)
    /\ op.at \in {"write", "project", "recreate", "settled", "rotated", "recovered"} =>
           op.token \notin revoked /\ op.token # op.previous
    /\ op.at \in {"project", "recreate", "endNew"} /\ There => obj.token # op.token
    /\ op.at \in {"settled", "rotated", "recovered"} /\ There => obj.token = op.token
    /\ op.at = "endPrevious" /\ There => obj.token # op.previous
    /\ op.at \in {"endPrevious", "endNew"} => drive.at = "none"

\* Every token the workload was given and that stands is named by the row, or
\* by the handler that is about to write it there or to end it.  A create that
\* was not settled has given none before, which is why a delete that overtakes
\* it has only the row's to end.
Ending == "store" \notin seen /\ "revoke" \notin seen /\ "ambiguous" \notin seen /\ crashes = 0
Left(tokens) == \A t \in given : t \in revoked \cup tokens
EndInv ==
    Ending =>
    /\ ~born => ~There
    /\ row.phase = "None" => Left({}) /\ (drive.at # "none" => drive.token \in revoked \cup {NoToken})
    /\ row.phase # "None" /\ op.at \notin {"rotated", "recovered", "endPrevious"} => Left({row.token})
    /\ op.at \in {"project", "recreate", "rotated", "recovered"} => op.previous = row.token
    /\ op.at \in {"rotated", "recovered"} => Left({row.token, op.token})
    /\ op.at = "endPrevious" => row.phase # "None" /\ Left({row.token, op.previous})
    /\ op.at \in Deletes => op.token = row.token
    /\ op.at = "forgetRow" => Left({}) /\ row.token \in revoked \cup {NoToken}
    /\ op.at \in {"failing", "revoking"} => row.token \in {op.token, NoToken}
    /\ op.at = "failed" => Left({})
    /\ op.at # "undo"
    /\ row.phase # "None" /\ drive.at # "none" => row.token = drive.token
    /\ drive.at = "create" \/ (drive.at = "settle" /\ ~drive.created) => ~There
    /\ ~row.sched => row.phase \in {"None", "Pending", "Failed", "Deleting"}
    /\ ~row.sched /\ row.phase \notin {"None", "Deleting"} /\ drive.at = "none" /\ op.at # "settled" =>
           ~There /\ (op.at \notin {"failing", "revoking", "failed"} => row.token = NoToken)
    /\ op.at \in Recreates \cup {"started", "unstart", "stopped", "project", "rotated", "recovered"} => row.sched

Follows == OrphanInv /\ CountInv /\ HoldInv /\ EndInv

\* What the types of the variables say of them, field by field.
Fields ==
    /\ op \in Handlers /\ drive \in Drives /\ (Held <=> row.phase # "None") /\ (Made <=> There)
    /\ (row.phase # "None" => row \in Rows) /\ (There => obj \in Objects) /\ (row.sched => row.phase # "None")

\* A step that leaves the sandbox's handler, row and create alone and brings no
\* object up, and the step that begins a delete.
Resting ==
    /\ UNCHANGED <<row, born, op, drive, revoked, given, crashes>> /\ seen \subseteq seen'
    /\ attempts' = attempts \/ attempts' = 0
    /\ \/ obj'.state = "None"
       \/ obj'.token = obj.token /\ (There' <=> There) /\ (Up' => Up)
Deleting ==
    /\ op.at = "idle" /\ row.phase # "None"
    /\ row'.phase = "Deleting" /\ row'.sched = row.sched /\ row'.token = row.token
    /\ op'.at = "delete" /\ op'.token = row.token
    /\ UNCHANGED <<born, obj, drive, revoked, given, crashes, attempts, seen>>

-----------------------------------------------------------------------------
(* The pieces the actions are made of. *)

\* What the type invariant says of the records, field by field.
LEMMA Plain ==
    ASSUME IInv
    PROVE  Fields /\ obj.state \in Reads
<1>1. RowOK /\ ObjOK /\ op \in Handlers /\ drive \in Drives
  BY DEF IInv, TypeInv, OpOK, DriveOK
<1>2. /\ NoRow.phase = "None" /\ ~NoRow.sched /\ \A r \in Rows : r.phase # "None"
      /\ NoObj.state = "None" /\ \A o \in Objects : o.state \in DriverStates /\ o.state # "None"
  BY DEF NoRow, Rows, Phases, NoObj, Objects, DriverStates
<1>3. /\ Held <=> row.phase # "None"
      /\ row.phase # "None" => row \in Rows
      /\ row.sched => row.phase # "None"
  BY <1>1, <1>2 DEF RowOK, Held
<1>4. (Made <=> There) /\ (There => obj \in Objects) /\ obj.state \in Reads
  BY <1>1, <1>2 DEF ObjOK, Made, There, Reads
<1> QED
  BY <1>1, <1>3, <1>4 DEF Fields

\* A token just minted is nobody's yet.
LEMMA Fresh ==
    ASSUME IInv
    PROVE  /\ minted + 1 \notin revoked /\ minted + 1 # NoToken
           /\ minted + 1 # row.token /\ minted + 1 # obj.token /\ minted + 1 # op.previous
           /\ NoToken \notin given
<1>1. minted \in Nat /\ revoked \subseteq 1..minted /\ given \subseteq 1..minted
  BY LifecycleAssumption DEF IInv, TypeInv, TokOK
<1>2. row.token \in 0..minted /\ obj.token \in 0..minted /\ op.previous \in 0..minted
  BY DEF IInv, TypeInv, RowOK, ObjOK, OpOK
<1> QED
  BY <1>1, <1>2 DEF NoToken

\* A handler that goes on carries what it carried.
LEMMA GoesOn ==
    ASSUME op \in Handlers, NEW step, Goto(step)
    PROVE  op'.at = step /\ op'.token = op.token /\ op'.previous = op.previous /\ op'.read = op.read
<1>1. op' = [at |-> step, token |-> op.token, previous |-> op.previous, read |-> op.read]
  BY Zenon DEF Goto, Handlers
<1> QED
  BY <1>1

\* One that ends holds nothing.
LEMMA Ends == ASSUME Done PROVE op'.at = "idle"
BY DEF Done, Idle

\* What revokeToken leaves, and what it ended when no revocation failed.
LEMMA Revokes ==
    ASSUME NEW T, revokeToken(T)
    PROVE  /\ seen \subseteq seen' /\ seen' \subseteq seen \cup {"revoke"}
           /\ revoked \subseteq revoked' /\ revoked' \subseteq revoked \cup (T \ {NoToken})
           /\ "revoke" \notin seen' => T \ {NoToken} \subseteq revoked'
<1>1. PICK ended \in SUBSET (T \ {NoToken}) :
          /\ revoked' = revoked \cup ended
          /\ IF ended = T \ {NoToken} THEN Answers ELSE Fails("revoke")
  BY DEF revokeToken
<1>2. CASE ended = T \ {NoToken}
  BY <1>1, <1>2 DEF Answers
<1>3. CASE ended # T \ {NoToken}
  BY <1>1, <1>3 DEF Fails
<1> QED
  BY <1>2, <1>3

\* The object whose state or token changes keeps the other.
LEMMA ObjFields ==
    ASSUME obj \in Objects, NEW x
    PROVE  /\ obj' = [obj EXCEPT !.token = x] => obj'.state = obj.state /\ obj'.token = x
           /\ obj' = [obj EXCEPT !.state = x] => obj'.state = x /\ obj'.token = obj.token
BY DEF Objects

\* What is written of a read: never that it stopped or failed when it is up.
LEMMA ReadsAs ==
    ASSUME IInv, row.phase # "None"
    PROVE  /\ readPhase(row) \in Phases
           /\ readPhase(row) = "Deleting" <=> row.phase = "Deleting"
           /\ row.phase = "Pending" /\ ~row.sched => readPhase(row) = "Pending"
           /\ row.phase = "Failed" /\ ~There => readPhase(row) = "Failed"
           /\ readPhase(row) \in Down => ~Up
           /\ row.phase # "Deleting" /\ ~placed /\ There => readPhase(row) = obj.state
           /\ row.phase # "Deleting" /\ ~placed /\ readPhase(row) = "Running" => There
<1>1. row \in Rows /\ ObjOK /\ (Made <=> There) /\ Held
  BY Plain DEF Fields, IInv, TypeInv
<1>2. /\ readPhase(row) \in Phases
      /\ readPhase(row) = "Deleting" <=> row.phase = "Deleting"
      /\ row.phase = "Pending" /\ ~row.sched => readPhase(row) = "Pending"
  <2>1. row.phase \in Phases /\ (There => obj.state \in DriverStates)
    BY <1>1, Plain DEF Fields, Rows, Objects
  <2>2. DriverStates \subseteq Phases /\ "Deleting" \notin DriverStates /\ "Lost" \in Phases
    BY DEF DriverStates, Phases
  <2> QED
    BY <1>1, <2>1, <2>2 DEF readPhase
<1>3. /\ row.phase = "Failed" /\ ~There => readPhase(row) = "Failed"
      /\ readPhase(row) \in Down => ~Up
  BY <1>1 DEF readPhase, Down, Up, There
<1>4. row.phase # "Deleting" /\ ~placed /\ There => readPhase(row) = obj.state
  BY <1>1 DEF readPhase, placed
<1>5. row.phase # "Deleting" /\ ~placed /\ readPhase(row) = "Running" => There
  BY <1>1 DEF readPhase, placed
<1> QED
  BY <1>2, <1>3, <1>4, <1>5

\* refresh writes what was read and keeps the rest but the reason.
LEMMA ReadWrites ==
    ASSUME row \in Rows
    PROVE  \E q : refresh(row) = [phase |-> readPhase(row), sched |-> row.sched, reason |-> q, token |-> row.token]
<1>1. PICK q : refresh(row) = [row EXCEPT !.phase = readPhase(row), !.reason = q]
  BY Zenon DEF refresh
<1>2. ASSUME NEW r, NEW p, r = [row EXCEPT !.phase = p, !.reason = q]
      PROVE  r = [phase |-> p, sched |-> row.sched, reason |-> q, token |-> row.token]
  BY <1>2, Zenon DEF Rows
<1>3. refresh(row) = [phase |-> readPhase(row), sched |-> row.sched, reason |-> q, token |-> row.token]
  BY <1>1, <1>2, Zenon
<1> QED
  BY <1>3

\* What leaves the row, the handler and the create alone, and makes nothing
\* come up, keeps every outcome.
LEMMA Rests == ASSUME IInv, Follows, Resting PROVE Follows'
<1>1. UNCHANGED <<row, born, op, drive, revoked, given, crashes>> /\ seen \subseteq seen'
      /\ (attempts' = attempts \/ attempts' = 0)
      /\ \/ obj'.state = "None"
         \/ obj'.token = obj.token /\ (There' <=> There) /\ (Up' => Up)
  BY DEF Resting
<1>2. OrphanInv'
  BY <1>1 DEF IInv, LockInv, Follows, OrphanInv, DriverHeld, There, Deletes
<1>3. CountInv'
  BY <1>1 DEF IInv, LockInv, Follows, CountInv, Counting, There, Up, Down, Recreates
<1>4. HoldInv'
  BY <1>1 DEF IInv, LockInv, Follows, HoldInv, There
<1>5. EndInv'
  BY <1>1 DEF IInv, LockInv, Follows, EndInv, Ending, Left, There, Deletes, Recreates
<1> QED
  BY <1>2, <1>3, <1>4, <1>5 DEF Follows

\* A delete that begins carries the row's token, and the row says Deleting.
LEMMA Deleted == ASSUME IInv, Follows, Deleting PROVE Follows'
<1>1. op.at = "idle" /\ row.phase # "None"
      /\ row'.phase = "Deleting" /\ row'.sched = row.sched /\ row'.token = row.token
      /\ op'.at = "delete" /\ op'.token = row.token
      /\ UNCHANGED <<born, obj, drive, revoked, given, crashes, attempts, seen>>
  BY DEF Deleting
<1>2. OrphanInv'
  BY <1>1 DEF IInv, LockInv, Follows, OrphanInv, DriverHeld, There, Deletes
<1>3. CountInv'
  BY <1>1 DEF IInv, LockInv, Follows, CountInv, Counting, There, Up, Down, Recreates
<1>4. HoldInv'
  BY <1>1 DEF IInv, LockInv, Follows, HoldInv, There
<1>5. EndInv'
  BY <1>1 DEF IInv, LockInv, Follows, EndInv, Ending, Left, There, Deletes, Recreates
<1> QED
  BY <1>2, <1>3, <1>4, <1>5 DEF Follows

-----------------------------------------------------------------------------
(* The create. *)

\* Nothing was there before the row is written.
LEMMA CreateFollows == ASSUME IInv, Follows, Create PROVE Follows'
<1>1. /\ op.at = "idle" /\ ~born /\ row'.phase = "Pending" /\ ~row'.sched /\ row'.token = NoToken
      /\ UNCHANGED <<obj, op, drive, revoked, given, attempts, crashes, seen>>
  BY Zenon DEF Create, Free, identity, recovery, bounds, Answers
<1>2. OrphanInv'
  BY <1>1 DEF IInv, LockInv, Follows, OrphanInv, DriverHeld, There, Deletes
<1>3. CountInv'
  BY <1>1 DEF IInv, LockInv, Follows, CountInv, Counting, There, Up, Down, Recreates
<1>4. HoldInv'
  BY <1>1 DEF IInv, LockInv, Follows, HoldInv, There
<1>5. EndInv'
  BY <1>1 DEF IInv, LockInv, Follows, EndInv, Ending, Left, There, Deletes, Recreates
<1> QED
  BY <1>2, <1>3, <1>4, <1>5 DEF Follows

\* A row that waits to be realized has no token of its own yet.
LEMMA RealizeBeginFollows == ASSUME Fields, IInv, Follows, RealizeBegin PROVE Follows'
<1>1. /\ op.at = "idle" /\ row.phase = "Pending" /\ ~row.sched /\ drive.at = "none"
      /\ UNCHANGED <<row, born, obj, drive, revoked, given, attempts, crashes>>
      /\ \/ op'.at = "push" /\ seen' = seen
         \/ op'.at = "revoking" /\ seen' = seen \cup {"volume"}
  BY Zenon DEF RealizeBegin, Free, placed, realizing, Idle, identity, recovery, bounds, Answers, Fails
<1>2. OrphanInv'
  BY <1>1 DEF Fields, IInv, LockInv, Follows, OrphanInv, DriverHeld, There, Deletes
<1>3. CountInv'
  BY <1>1 DEF Fields, IInv, LockInv, Follows, CountInv, Counting, There, Up, Down, Recreates
<1>4. HoldInv'
  BY <1>1 DEF Fields, IInv, LockInv, Follows, HoldInv, There
<1>5. EndInv'
  BY <1>1 DEF Fields, IInv, LockInv, Follows, EndInv, Ending, Left, There, Deletes, Recreates
<1> QED
  BY <1>2, <1>3, <1>4, <1>5 DEF Follows

\* The push moves the handler alone.
LEMMA RealizePushFollows == ASSUME Fields, IInv, Follows, RealizePush PROVE Follows'
<1>1. /\ op.at = "push" /\ UNCHANGED <<row, born, obj, drive, revoked, given, attempts, crashes>>
      /\ \/ Goto("mint") /\ seen' = seen
         \/ (Goto("hold") \/ Goto("failing")) /\ seen' = seen \cup {"gateway"}
  BY DEF RealizePush, At, identity, recovery, bounds, Answers, Fails
<1>2. /\ op'.token = op.token /\ op'.previous = op.previous
      /\ \/ op'.at = "mint" /\ seen' = seen
         \/ op'.at \in {"hold", "failing"} /\ seen' = seen \cup {"gateway"}
  BY <1>1, GoesOn DEF Fields
<1>3. OrphanInv'
  BY <1>1, <1>2 DEF Fields, IInv, LockInv, Follows, OrphanInv, DriverHeld, There, Deletes
<1>4. CountInv'
  BY <1>1, <1>2 DEF Fields, IInv, LockInv, Follows, CountInv, Counting, There, Up, Down, Recreates
<1>5. HoldInv'
  BY <1>1, <1>2 DEF Fields, IInv, LockInv, Follows, HoldInv, There
<1>6. EndInv'
  BY <1>1, <1>2 DEF Fields, IInv, LockInv, Follows, EndInv, Ending, Left, There, Deletes, Recreates
<1> QED
  BY <1>3, <1>4, <1>5, <1>6 DEF Follows

\* So does its hold.
LEMMA RealizeHoldFollows == ASSUME IInv, Follows, RealizeHold PROVE Follows'
<1>1. op.at = "hold" /\ op'.at = "idle" /\ UNCHANGED <<row, born, obj, drive, revoked, given, attempts, crashes, seen>>
  BY Ends DEF RealizeHold, At, identity, recovery, bounds, Answers
<1>2. OrphanInv'
  BY <1>1 DEF IInv, LockInv, Follows, OrphanInv, DriverHeld, There, Deletes
<1>3. CountInv'
  BY <1>1 DEF IInv, LockInv, Follows, CountInv, Counting, There, Up, Down, Recreates
<1>4. HoldInv'
  BY <1>1 DEF IInv, LockInv, Follows, HoldInv, There
<1>5. EndInv'
  BY <1>1 DEF IInv, LockInv, Follows, EndInv, Ending, Left, There, Deletes, Recreates
<1> QED
  BY <1>2, <1>3, <1>4, <1>5 DEF Follows

\* The token minted is fresh.
LEMMA RealizeMintFollows == ASSUME Fields, IInv, Follows, RealizeMint PROVE Follows'
<1>1. /\ op.at = "mint" /\ UNCHANGED <<row, born, obj, drive, revoked, given, attempts, crashes>>
      /\ \/ op' = [op EXCEPT !.at = "write", !.token = minted + 1] /\ seen' = seen
         \/ Goto("failing") /\ seen' = seen \cup {"mint"}
  BY DEF RealizeMint, At, recovery, bounds, Answers, Fails
<1>2. ASSUME op' = [op EXCEPT !.at = "write", !.token = minted + 1]
      PROVE  op'.at = "write" /\ op'.token = minted + 1 /\ op'.previous = op.previous
  <2>1. op' = [at |-> "write", token |-> minted + 1, previous |-> op.previous, read |-> op.read]
    BY <1>2, Zenon DEF Fields, Handlers
  <2> QED
    BY <2>1
<1>3. /\ op'.previous = op.previous
      /\ \/ op'.at = "write" /\ op'.token = minted + 1 /\ seen' = seen
         \/ op'.at = "failing" /\ op'.token = op.token /\ seen' = seen \cup {"mint"}
  BY <1>1, <1>2, GoesOn DEF Fields
<1>4. minted + 1 \notin revoked /\ minted + 1 # op.previous
  BY Fresh
<1>5. OrphanInv'
  BY <1>1, <1>2, <1>3, <1>4 DEF Fields, IInv, LockInv, Follows, OrphanInv, DriverHeld, There, Deletes
<1>6. CountInv'
  BY <1>1, <1>2, <1>3, <1>4 DEF Fields, IInv, LockInv, Follows, CountInv, Counting, There, Up, Down, Recreates
<1>7. HoldInv'
  BY <1>1, <1>2, <1>3, <1>4 DEF Fields, IInv, LockInv, Follows, HoldInv, There
<1>8. EndInv'
  BY <1>1, <1>2, <1>3, <1>4 DEF Fields, IInv, LockInv, Follows, EndInv, Ending, Left, There, Deletes, Recreates
<1> QED
  BY <1>5, <1>6, <1>7, <1>8 DEF Follows

\* The row carries the token before the driver is asked, and none before it.
LEMMA RealizeWriteFollows == ASSUME Fields, IInv, Follows, RealizeWrite PROVE Follows'
<1>1. /\ op.at = "write" /\ UNCHANGED <<born, obj, revoked, given, attempts, crashes>>
      /\ \/ /\ row' = [row EXCEPT !.token = op.token] /\ Done /\ seen' = seen
            /\ drive' = [NoDrive EXCEPT !.at = "create", !.token = op.token, !.previous = op.previous]
         \/ Goto("undo") /\ seen' = seen \cup {"store"} /\ UNCHANGED <<row, drive>>
  BY DEF RealizeWrite, At, identity, recovery, bounds, Answers, Fails
<1>2. row.phase = "Pending" /\ ~row.sched /\ drive.at = "none" /\ row \in Rows /\ NoToken \notin given
  BY <1>1, Fresh DEF Fields, IInv, LockInv
<1>3. ASSUME row' = [row EXCEPT !.token = op.token]
      PROVE  row'.phase = row.phase /\ row'.sched = row.sched /\ row'.token = op.token
  <2>1. row' = [phase |-> row.phase, sched |-> row.sched, reason |-> row.reason, token |-> op.token]
    BY <1>2, <1>3, Zenon DEF Rows
  <2> QED
    BY <2>1, Zenon
<1>4. drive' = [NoDrive EXCEPT !.at = "create", !.token = op.token, !.previous = op.previous]
      => drive'.at = "create" /\ drive'.token = op.token /\ drive'.previous = op.previous
  BY DEF NoDrive
<1>5. \/ /\ row'.phase = "Pending" /\ ~row'.sched /\ row'.token = op.token /\ op'.at = "idle" /\ seen' = seen
         /\ drive'.at = "create" /\ drive'.token = op.token /\ drive'.previous = op.previous
      \/ op'.at = "undo" /\ seen' = seen \cup {"store"} /\ UNCHANGED <<row, drive>>
  BY <1>1, <1>2, <1>3, <1>4, GoesOn, Ends DEF Fields
<1>6. OrphanInv'
  BY <1>1, <1>2, <1>3, <1>4, <1>5 DEF Fields, IInv, LockInv, Follows, OrphanInv, DriverHeld, There, Deletes
<1>7. CountInv'
  BY <1>1, <1>2, <1>3, <1>4, <1>5 DEF Fields, IInv, LockInv, Follows, CountInv, Counting, There, Up, Down, Recreates
<1>8. HoldInv'
  BY <1>1, <1>2, <1>3, <1>4, <1>5 DEF Fields, IInv, LockInv, Follows, HoldInv, There
<1>9. EndInv'
  BY <1>1, <1>2, <1>3, <1>4, <1>5 DEF Fields, IInv, LockInv, Follows, EndInv, Ending, Left, There, Deletes, Recreates
<1> QED
  BY <1>6, <1>7, <1>8, <1>9 DEF Follows

\* The token of a create whose write was refused was never handed out.
LEMMA RealizeUndoFollows == ASSUME IInv, Follows, RealizeUndo PROVE Follows'
<1>1. /\ op.at = "undo" /\ op'.at = "idle" /\ UNCHANGED <<row, born, obj, drive, given, attempts, crashes>>
      /\ seen \subseteq seen' /\ revoked \subseteq revoked'
  BY Ends, Revokes DEF RealizeUndo, At, recovery, bounds
<1>2. OrphanInv'
  BY <1>1 DEF IInv, LockInv, Follows, OrphanInv, DriverHeld, There, Deletes
<1>3. CountInv'
  BY <1>1 DEF IInv, LockInv, Follows, CountInv, Counting, There, Up, Down, Recreates
<1>4. HoldInv'
  BY <1>1 DEF IInv, LockInv, Follows, HoldInv, There
<1>5. EndInv'
  BY <1>1 DEF IInv, LockInv, Follows, EndInv, Ending, Left, There, Deletes, Recreates
<1> QED
  BY <1>2, <1>3, <1>4, <1>5 DEF Follows

\* The purge moves the handler alone.
LEMMA FailPurgeFollows == ASSUME Fields, IInv, Follows, FailPurge PROVE Follows'
<1>1. /\ op.at = "failing" /\ Goto("revoking") /\ UNCHANGED <<row, born, obj, drive, revoked, given, attempts, crashes, seen>>
  BY DEF FailPurge, At, identity, recovery, bounds, Answers
<1>2. op'.at = "revoking" /\ op'.token = op.token
  BY <1>1, GoesOn DEF Fields
<1>3. OrphanInv'
  BY <1>1, <1>2 DEF Fields, IInv, LockInv, Follows, OrphanInv, DriverHeld, There, Deletes
<1>4. CountInv'
  BY <1>1, <1>2 DEF Fields, IInv, LockInv, Follows, CountInv, Counting, There, Up, Down, Recreates
<1>5. HoldInv'
  BY <1>1, <1>2 DEF Fields, IInv, LockInv, Follows, HoldInv, There
<1>6. EndInv'
  BY <1>1, <1>2 DEF Fields, IInv, LockInv, Follows, EndInv, Ending, Left, There, Deletes, Recreates
<1> QED
  BY <1>3, <1>4, <1>5, <1>6 DEF Follows

\* A create that failed ends every token it could have handed out.
LEMMA FailRevokeFollows == ASSUME Fields, IInv, Follows, FailRevoke PROVE Follows'
<1>1. /\ op.at = "revoking" /\ Goto("failed") /\ UNCHANGED <<row, born, obj, drive, given, attempts, crashes>>
      /\ seen \subseteq seen' /\ revoked \subseteq revoked'
      /\ ("revoke" \notin seen' => {op.token, op.previous} \ {NoToken} \subseteq revoked')
  BY Revokes DEF FailRevoke, At, recovery, bounds
<1>2. op'.at = "failed" /\ NoToken \notin given
  BY <1>1, GoesOn, Fresh DEF Fields
<1>3. OrphanInv'
  BY <1>1, <1>2 DEF Fields, IInv, LockInv, Follows, OrphanInv, DriverHeld, There, Deletes
<1>4. CountInv'
  BY <1>1, <1>2 DEF Fields, IInv, LockInv, Follows, CountInv, Counting, There, Up, Down, Recreates
<1>5. HoldInv'
  BY <1>1, <1>2 DEF Fields, IInv, LockInv, Follows, HoldInv, There
<1>6. EndInv'
  BY <1>1, <1>2 DEF Fields, IInv, LockInv, Follows, EndInv, Ending, Left, There, Deletes, Recreates
<1> QED
  BY <1>3, <1>4, <1>5, <1>6 DEF Follows

\* The row of a create that failed names no token and nothing is there.
LEMMA FailWriteFollows == ASSUME Fields, IInv, Follows, FailWrite PROVE Follows'
<1>1. /\ op.at = "failed" /\ op'.at = "idle" /\ UNCHANGED <<born, obj, drive, revoked, given, attempts, crashes>>
      /\ \/ row' = [row EXCEPT !.phase = "Failed", !.reason = "CreateFailed", !.token = NoToken] /\ seen' = seen
         \/ row' = row /\ seen' = seen \cup {"store"}
  BY Ends DEF FailWrite, At, identity, recovery, bounds, Answers, Fails
<1>2. row.phase # "None" /\ row \in Rows
  BY <1>1 DEF Fields, IInv, LockInv
<1>3. ASSUME row' = [row EXCEPT !.phase = "Failed", !.reason = "CreateFailed", !.token = NoToken]
      PROVE  row'.phase = "Failed" /\ row'.sched = row.sched /\ row'.token = NoToken
  <2>1. row' = [phase |-> "Failed", sched |-> row.sched, reason |-> "CreateFailed", token |-> NoToken]
    BY <1>2, <1>3, Zenon DEF Rows
  <2> QED
    BY <2>1, Zenon
<1>4. \/ row'.phase = "Failed" /\ row'.sched = row.sched /\ row'.token = NoToken /\ seen' = seen
      \/ row' = row /\ seen' = seen \cup {"store"}
  BY <1>1, <1>3
<1>5. OrphanInv'
  BY <1>1, <1>2, <1>3, <1>4 DEF Fields, IInv, LockInv, Follows, OrphanInv, DriverHeld, There, Deletes
<1>6. CountInv'
  BY <1>1, <1>2, <1>3, <1>4 DEF Fields, IInv, LockInv, Follows, CountInv, Counting, There, Up, Down, Recreates
<1>7. HoldInv'
  BY <1>1, <1>2, <1>3, <1>4 DEF Fields, IInv, LockInv, Follows, HoldInv, There
<1>8. EndInv'
  BY <1>1, <1>2, <1>3, <1>4 DEF Fields, IInv, LockInv, Follows, EndInv, Ending, Left, There, Deletes, Recreates
<1> QED
  BY <1>5, <1>6, <1>7, <1>8 DEF Follows

-----------------------------------------------------------------------------
(* The driver's create, and settling it. *)

\* What the create makes or adopts holds the create's own token.
LEMMA DriveCreateFollows == ASSUME Fields, IInv, Follows, DriveCreate PROVE Follows'
<1>1. /\ drive.at = "create" /\ UNCHANGED <<row, born, op, revoked, attempts, crashes>>
      /\ \/ /\ seen' = seen /\ given' = given \cup {drive.token}
            /\ obj' \in IF Made THEN {[obj EXCEPT !.token = drive.token]}
                        ELSE [state : {"Pending", "Running"}, token : {drive.token}]
            /\ drive' = [drive EXCEPT !.at = "inspect"]
         \/ seen' = seen \cup {"driver"} /\ DriveAnswered(FALSE, "None") /\ UNCHANGED <<obj, given>>
         \/ seen' = seen \cup {"ambiguous"}
  BY Zenon DEF DriveCreate, recovery, bounds, Answers, Fails
<1>2. ASSUME DriveAnswered(FALSE, "None")
      PROVE  drive'.at = "settle" /\ drive'.token = drive.token /\ drive'.previous = drive.previous
             /\ ~drive'.created /\ drive'.read = "None"
  <2>1. drive' = [at |-> "settle", token |-> drive.token, previous |-> drive.previous, created |-> FALSE, read |-> "None"]
    BY <1>2, Zenon DEF Fields, DriveAnswered, Drives
  <2> QED
    BY <2>1
<1>3. ASSUME drive' = [drive EXCEPT !.at = "inspect"]
      PROVE  drive'.at = "inspect" /\ drive'.token = drive.token /\ drive'.previous = drive.previous
  <2>1. drive' = [at |-> "inspect", token |-> drive.token, previous |-> drive.previous,
                 created |-> drive.created, read |-> drive.read]
    BY <1>3, Zenon DEF Fields, Drives
  <2> QED
    BY <2>1
<1>4. ASSUME obj' \in IF Made THEN {[obj EXCEPT !.token = drive.token]}
                      ELSE [state : {"Pending", "Running"}, token : {drive.token}]
      PROVE  obj'.token = drive.token /\ obj'.state # "None"
  BY <1>4, ObjFields DEF Fields, There
<1>5. drive.token # NoToken
  BY <1>1 DEF IInv, TypeInv, DriveOK
<1>6. \/ /\ seen' = seen /\ given' = given \cup {drive.token}
         /\ obj'.token = drive.token /\ obj'.state # "None"
         /\ drive'.at = "inspect" /\ drive'.token = drive.token /\ drive'.previous = drive.previous
      \/ /\ seen' = seen \cup {"driver"} /\ UNCHANGED <<obj, given>>
         /\ drive'.at = "settle" /\ drive'.token = drive.token /\ drive'.previous = drive.previous
         /\ ~drive'.created
      \/ seen' = seen \cup {"ambiguous"}
  BY <1>1, <1>2, <1>3, <1>4, Zenon
<1>7. drive.at = "create" /\ UNCHANGED <<row, born, op, revoked, attempts, crashes>>
  BY <1>1
<1>8. OrphanInv'
  BY <1>5, <1>6, <1>7 DEF Fields, IInv, LockInv, Follows, OrphanInv, DriverHeld, There, Deletes
<1>9. CountInv'
  BY <1>5, <1>6, <1>7 DEF Fields, IInv, LockInv, Follows, CountInv, Counting, There, Up, Down, Recreates
<1>10. HoldInv'
  BY <1>5, <1>6, <1>7 DEF Fields, IInv, LockInv, Follows, HoldInv, There
<1>11. EndInv'
  BY <1>5, <1>6, <1>7 DEF Fields, IInv, LockInv, Follows, EndInv, Ending, Left, There, Deletes, Recreates
<1> QED
  BY <1>8, <1>9, <1>10, <1>11 DEF Follows

\* What was read is what is there, or nothing.
LEMMA DriveInspectFollows == ASSUME Fields, IInv, Follows, DriveInspect PROVE Follows'
<1>1. /\ drive.at = "inspect" /\ UNCHANGED <<row, born, obj, op, revoked, given, attempts, crashes>>
      /\ \/ DriveAnswered(TRUE, obj.state) /\ seen' = seen
         \/ DriveAnswered(TRUE, "None") /\ seen \subseteq seen'
  BY Zenon DEF DriveInspect, identity, recovery, bounds, Answers, Fails
<1>2. ASSUME DriveAnswered(TRUE, obj.state)
      PROVE  drive'.at = "settle" /\ drive'.token = drive.token /\ drive'.previous = drive.previous
             /\ drive'.created /\ drive'.read = obj.state
  <2>1. drive' = [at |-> "settle", token |-> drive.token, previous |-> drive.previous, created |-> TRUE, read |-> obj.state]
    BY <1>2, Zenon DEF Fields, DriveAnswered, Drives
  <2> QED
    BY <2>1
<1>3. ASSUME DriveAnswered(TRUE, "None")
      PROVE  drive'.at = "settle" /\ drive'.token = drive.token /\ drive'.previous = drive.previous
             /\ drive'.created /\ drive'.read = "None"
  <2>1. drive' = [at |-> "settle", token |-> drive.token, previous |-> drive.previous, created |-> TRUE, read |-> "None"]
    BY <1>3, Zenon DEF Fields, DriveAnswered, Drives
  <2> QED
    BY <2>1
<1>4. /\ drive'.at = "settle" /\ drive'.token = drive.token /\ drive'.previous = drive.previous
      /\ drive'.created /\ drive'.read \in {obj.state, "None"} /\ seen \subseteq seen'
  BY <1>1, <1>2, <1>3, Zenon
<1>5. drive.at = "inspect" /\ UNCHANGED <<row, born, obj, op, revoked, given, attempts, crashes>>
  BY <1>1
<1>6. OrphanInv'
  BY <1>4, <1>5 DEF Fields, IInv, LockInv, Follows, OrphanInv, DriverHeld, There, Deletes
<1>7. CountInv'
  BY <1>4, <1>5 DEF Fields, IInv, LockInv, Follows, CountInv, Counting, There, Up, Down, Recreates
<1>8. HoldInv'
  BY <1>4, <1>5 DEF Fields, IInv, LockInv, Follows, HoldInv, There
<1>9. EndInv'
  BY <1>4, <1>5 DEF Fields, IInv, LockInv, Follows, EndInv, Ending, Left, There, Deletes, Recreates
<1> QED
  BY <1>6, <1>7, <1>8, <1>9 DEF Follows

\* The result is judged by the row as it stands: unmade, left to the delete,
\* failed, or written.
LEMMA SettleFollows == ASSUME Fields, IInv, Follows, Settle PROVE Follows'
<1>1. /\ op.at = "idle" /\ drive.at = "settle" /\ drive' = NoDrive
      /\ UNCHANGED <<row, born, obj, revoked, given, attempts, crashes, seen>>
  BY DEF Settle, Free, identity, recovery, bounds, Answers
<1>2. drive'.at = "none"
  BY <1>1 DEF NoDrive
<1>3. \/ op' = op /\ row.phase = "Deleting"
      \/ /\ op'.token = drive.token /\ op'.previous = drive.previous /\ op'.read = drive.read
         /\ \/ row.phase = "None" /\ op'.at = "unmake"
            \/ row.phase \notin {"None", "Deleting"} /\ ~drive.created /\ op'.at = "failing"
            \/ row.phase \notin {"None", "Deleting"} /\ drive.created /\ op'.at = "settled"
  BY DEF Fields, Settle
<1>4. OrphanInv'
  BY <1>1, <1>2, <1>3 DEF Fields, IInv, LockInv, Follows, OrphanInv, DriverHeld, There, Deletes
<1>5. CountInv'
  BY <1>1, <1>2, <1>3 DEF Fields, IInv, LockInv, Follows, CountInv, Counting, There, Up, Down, Recreates
<1>6. HoldInv'
  BY <1>1, <1>2, <1>3 DEF Fields, IInv, LockInv, Follows, HoldInv, There
<1>7. EndInv'
  BY <1>1, <1>2, <1>3 DEF Fields, IInv, LockInv, Follows, EndInv, Ending, Left, There, Deletes, Recreates
<1> QED
  BY <1>4, <1>5, <1>6, <1>7 DEF Follows

\* What a create made for a row that went is taken away.
LEMMA SettleUnmakeFollows == ASSUME Fields, IInv, Follows, SettleUnmake PROVE Follows'
<1>1. /\ op.at = "unmake" /\ Goto("unmade") /\ UNCHANGED <<row, born, drive, revoked, given, attempts, crashes>>
      /\ \/ obj' = NoObj /\ seen' = seen
         \/ obj' = obj /\ seen' = seen \cup {"driver"}
  BY Zenon DEF SettleUnmake, At, identity, recovery, bounds, Answers, Fails
<1>2. op'.at = "unmade" /\ NoObj.state = "None"
  BY <1>1, GoesOn DEF Fields, NoObj
<1>3. OrphanInv'
  BY <1>1, <1>2 DEF Fields, IInv, LockInv, Follows, OrphanInv, DriverHeld, There, Deletes
<1>4. CountInv'
  BY <1>1, <1>2 DEF Fields, IInv, LockInv, Follows, CountInv, Counting, There, Up, Down, Recreates
<1>5. HoldInv'
  BY <1>1, <1>2 DEF Fields, IInv, LockInv, Follows, HoldInv, There
<1>6. EndInv'
  BY <1>1, <1>2 DEF Fields, IInv, LockInv, Follows, EndInv, Ending, Left, There, Deletes, Recreates
<1> QED
  BY <1>3, <1>4, <1>5, <1>6 DEF Follows

\* Its tokens end with it.
LEMMA SettleUnmadeFollows == ASSUME Fields, IInv, Follows, SettleUnmade PROVE Follows'
<1>1. /\ op.at = "unmade" /\ op'.at = "idle" /\ UNCHANGED <<row, born, obj, drive, given, attempts, crashes>>
      /\ seen \subseteq seen' /\ revoked \subseteq revoked'
  BY Ends, Revokes DEF SettleUnmade, At, recovery, bounds
<1>2. OrphanInv'
  BY <1>1 DEF Fields, IInv, LockInv, Follows, OrphanInv, DriverHeld, There, Deletes
<1>3. CountInv'
  BY <1>1 DEF Fields, IInv, LockInv, Follows, CountInv, Counting, There, Up, Down, Recreates
<1>4. HoldInv'
  BY <1>1 DEF Fields, IInv, LockInv, Follows, HoldInv, There
<1>5. EndInv'
  BY <1>1 DEF Fields, IInv, LockInv, Follows, EndInv, Ending, Left, There, Deletes, Recreates
<1> QED
  BY <1>2, <1>3, <1>4, <1>5 DEF Follows

\* What is written of the first read is still so, and the previous token is not
\* the one the workload was given.
LEMMA SettleWriteFollows == ASSUME Fields, IInv, Follows, SettleWrite PROVE Follows'
<1>1. /\ op.at = "settled" /\ Goto("endPrevious") /\ UNCHANGED <<born, obj, drive, revoked, given, attempts, crashes>>
      /\ \/ row' = [row EXCEPT !.sched = TRUE, !.phase = IF op.read = "None" THEN "Pending" ELSE op.read, !.reason = ""] /\ seen' = seen
         \/ row' = row /\ seen' = seen \cup {"store"}
  BY Zenon DEF SettleWrite, At, identity, recovery, bounds, Answers, Fails
<1>2. row.phase # "None" /\ row \in Rows
  BY <1>1 DEF Fields, IInv, LockInv
<1>3. ASSUME row' = [row EXCEPT !.sched = TRUE, !.phase = IF op.read = "None" THEN "Pending" ELSE op.read, !.reason = ""]
      PROVE  row'.phase = (IF op.read = "None" THEN "Pending" ELSE op.read) /\ row'.sched = TRUE /\ row'.token = row.token
  <2>1. row' = [phase |-> (IF op.read = "None" THEN "Pending" ELSE op.read), sched |-> TRUE, reason |-> "", token |-> row.token]
    BY <1>2, <1>3, Zenon DEF Rows
  <2> QED
    BY <2>1, Zenon
<1>4. /\ (IF op.read = "None" THEN "Pending" ELSE op.read) \in {"Pending", "Running", "Stopped", "Failed"}
      /\ (IF op.read = "None" THEN "Pending" ELSE op.read) \in Down => op.read \in Down
  BY DEF Fields, Handlers, Reads, DriverStates, Down
<1>5. /\ op'.at = "endPrevious" /\ op'.previous = op.previous /\ op'.token = op.token
  BY <1>1, GoesOn DEF Fields
<1>6. \/ /\ row'.sched = TRUE /\ row'.token = row.token /\ seen' = seen
         /\ row'.phase \in {"Pending", "Running", "Stopped", "Failed"} /\ (row'.phase \in Down => op.read \in Down)
      \/ row' = row /\ seen' = seen \cup {"store"}
  BY <1>1, <1>3, <1>4, Zenon
<1>7. op.at = "settled" /\ UNCHANGED <<born, obj, drive, revoked, given, attempts, crashes>>
  BY <1>1
<1>8. OrphanInv'
  BY <1>5, <1>6, <1>7 DEF Fields, IInv, LockInv, Follows, OrphanInv, DriverHeld, There, Deletes
<1>9. CountInv'
  BY <1>5, <1>6, <1>7 DEF Fields, IInv, LockInv, Follows, CountInv, Counting, There, Up, Down, Recreates
<1>10. HoldInv'
  BY <1>5, <1>6, <1>7 DEF Fields, IInv, LockInv, Follows, HoldInv, There
<1>11. EndInv'
  BY <1>5, <1>6, <1>7 DEF Fields, IInv, LockInv, Follows, EndInv, Ending, Left, There, Deletes, Recreates
<1> QED
  BY <1>8, <1>9, <1>10, <1>11 DEF Follows

\* The token that is ended is not the one the workload holds, and the row's is
\* left.
LEMMA EndPreviousFollows == ASSUME Fields, IInv, Follows, EndPrevious PROVE Follows'
<1>1. /\ op.at = "endPrevious" /\ op'.at = "idle" /\ UNCHANGED <<row, born, obj, drive, given, attempts, crashes>>
      /\ seen \subseteq seen' /\ revoked \subseteq revoked' /\ revoked' \subseteq revoked \cup ({op.previous} \ {NoToken})
      /\ ("revoke" \notin seen' => {op.previous} \ {NoToken} \subseteq revoked')
  BY Ends, Revokes DEF EndPrevious, At, recovery, bounds
<1>2. NoToken \notin given
  BY Fresh
<1>3. OrphanInv'
  BY <1>1, <1>2 DEF Fields, IInv, LockInv, Follows, OrphanInv, DriverHeld, There, Deletes
<1>4. CountInv'
  BY <1>1, <1>2 DEF Fields, IInv, LockInv, Follows, CountInv, Counting, There, Up, Down, Recreates
<1>5. HoldInv'
  BY <1>1, <1>2 DEF Fields, IInv, LockInv, Follows, HoldInv, There
<1>6. EndInv'
  BY <1>1, <1>2 DEF Fields, IInv, LockInv, Follows, EndInv, Ending, Left, There, Deletes, Recreates
<1> QED
  BY <1>3, <1>4, <1>5, <1>6 DEF Follows

\* The token of a projection that failed was not handed out.
LEMMA EndNewFollows == ASSUME Fields, IInv, Follows, EndNew PROVE Follows'
<1>1. /\ op.at = "endNew" /\ op'.at = "idle" /\ UNCHANGED <<row, born, obj, drive, given, attempts, crashes>>
      /\ seen \subseteq seen' /\ revoked \subseteq revoked' /\ revoked' \subseteq revoked \cup ({op.token} \ {NoToken})
  BY Ends, Revokes DEF EndNew, At, recovery, bounds
<1>2. OrphanInv'
  BY <1>1 DEF Fields, IInv, LockInv, Follows, OrphanInv, DriverHeld, There, Deletes
<1>3. CountInv'
  BY <1>1 DEF Fields, IInv, LockInv, Follows, CountInv, Counting, There, Up, Down, Recreates
<1>4. HoldInv'
  BY <1>1 DEF Fields, IInv, LockInv, Follows, HoldInv, There
<1>5. EndInv'
  BY <1>1 DEF Fields, IInv, LockInv, Follows, EndInv, Ending, Left, There, Deletes, Recreates
<1> QED
  BY <1>2, <1>3, <1>4, <1>5 DEF Follows

-----------------------------------------------------------------------------
(* Start, stop and delete. *)

\* What a driver call does to the object, whatever it answers.
LEMMA Called ==
    ASSUME NEW result, NEW onAnswer, NEW onError, Calls(result, onAnswer, onError)
    PROVE  \/ seen' = seen /\ obj' = result /\ onAnswer
           \/ seen' = seen \cup {"driver"} /\ obj' = obj /\ onError
           \/ seen' = seen \cup {"ambiguous"} /\ obj' = result /\ onError
BY Zenon DEF Calls, Answers, Fails

\* What is started was stopped, and its row had been scheduled.
LEMMA StartFollows == ASSUME Fields, IInv, Follows, Start PROVE Follows'
<1>1. /\ op.at = "idle" /\ drive.at = "none" /\ row.phase \notin {"None", "Deleting"} /\ There
      /\ UNCHANGED <<row, born, drive, revoked, given, attempts, crashes>>
  BY DEF Fields, Start, Free, creating, realizing, identity, recovery, bounds
<1>2. \/ seen' = seen /\ obj' = [obj EXCEPT !.state = "Running"] /\ op' = [Idle EXCEPT !.at = "started"]
      \/ seen' = seen \cup {"driver"} /\ obj' = obj /\ op' = op
      \/ seen' = seen \cup {"ambiguous"}
  BY Called, Zenon DEF Start
<1>3. \/ seen' = seen /\ obj'.state = "Running" /\ obj'.token = obj.token /\ op'.at = "started"
      \/ seen' = seen \cup {"driver"} /\ obj' = obj /\ op' = op
      \/ seen' = seen \cup {"ambiguous"}
  BY <1>1, <1>2, ObjFields DEF Fields, Idle
<1>4. OrphanInv'
  BY <1>1, <1>3 DEF Fields, IInv, LockInv, Follows, OrphanInv, DriverHeld, There, Deletes
<1>5. CountInv'
  BY <1>1, <1>3 DEF Fields, IInv, LockInv, Follows, CountInv, Counting, There, Up, Down, Recreates
<1>6. HoldInv'
  BY <1>1, <1>3 DEF Fields, IInv, LockInv, Follows, HoldInv, There
<1>7. EndInv'
  BY <1>1, <1>3 DEF Fields, IInv, LockInv, Follows, EndInv, Ending, Left, There, Deletes, Recreates
<1> QED
  BY <1>4, <1>5, <1>6, <1>7 DEF Follows

\* The record of a start says that it is up.
LEMMA StartWriteFollows == ASSUME Fields, IInv, Follows, StartWrite PROVE Follows'
<1>1. /\ op.at = "started" /\ UNCHANGED <<born, obj, drive, revoked, given, attempts, crashes>>
  BY DEF StartWrite, At, identity, recovery, bounds
<1>2. row.phase \notin {"None", "Deleting"} /\ row \in Rows
  BY <1>1 DEF Fields, IInv, LockInv
<1>3. ASSUME row' = [row EXCEPT !.phase = "Starting", !.reason = ""]
      PROVE  row'.phase = "Starting" /\ row'.sched = row.sched /\ row'.token = row.token
  <2>1. row' = [phase |-> "Starting", sched |-> row.sched, reason |-> "", token |-> row.token]
    BY <1>2, <1>3, Zenon DEF Rows
  <2> QED
    BY <2>1, Zenon
<1>4. ASSUME row' = refresh(row)
      PROVE  row'.phase = readPhase(row) /\ row'.sched = row.sched /\ row'.token = row.token
  BY <1>2, <1>4, ReadWrites
<1>5. readPhase(row) \in Phases \ {"Deleting"}
  BY <1>2, ReadsAs
<1>6. \/ /\ op' = Idle /\ seen' = seen
         /\ \/ row' = [row EXCEPT !.phase = "Starting", !.reason = ""]
            \/ row' = refresh(row) /\ readPhase(row) \notin {"Stopped", "Failed"}
      \/ Goto("unstart") /\ row' = row /\ seen' = seen \cup {"store"}
  BY Zenon DEF StartWrite, Done, Answers, Fails
<1>7. \/ /\ op'.at = "idle" /\ seen' = seen /\ row'.sched = row.sched /\ row'.token = row.token
         /\ row'.phase \in Phases \ {"Deleting", "Stopped", "Failed"}
      \/ op'.at = "unstart" /\ row' = row /\ seen' = seen \cup {"store"}
  BY <1>3, <1>4, <1>5, <1>6, GoesOn DEF Fields, Idle, Phases
<1>8. "None" \notin Phases
  BY DEF Phases
<1>9. OrphanInv'
  BY <1>1, <1>2, <1>7, <1>8 DEF Fields, IInv, LockInv, Follows, OrphanInv, DriverHeld, There, Deletes
<1>10. CountInv'
  BY <1>1, <1>2, <1>7, <1>8 DEF Fields, IInv, LockInv, Follows, CountInv, Counting, There, Up, Down, Recreates
<1>11. HoldInv'
  BY <1>1, <1>2, <1>7, <1>8 DEF Fields, IInv, LockInv, Follows, HoldInv, There
<1>12. EndInv'
  BY <1>1, <1>2, <1>7, <1>8 DEF Fields, IInv, LockInv, Follows, EndInv, Ending, Left, There, Deletes, Recreates
<1> QED
  BY <1>9, <1>10, <1>11, <1>12 DEF Follows

\* A start that is undone is down again.
LEMMA StartUndoFollows == ASSUME Fields, IInv, Follows, StartUndo PROVE Follows'
<1>1. /\ op.at = "unstart" /\ UNCHANGED <<row, born, drive, revoked, given, attempts, crashes>>
  BY DEF StartUndo, At, identity, recovery, bounds
<1>2. /\ op' = Idle
      /\ \/ seen' = seen /\ obj' = IF Made THEN [obj EXCEPT !.state = "Stopped"] ELSE NoObj
         \/ seen' = seen \cup {"driver"} /\ obj' = obj
         \/ seen' = seen \cup {"ambiguous"}
  BY Called, Zenon DEF StartUndo, Done
<1>3. /\ op'.at = "idle"
      /\ \/ seen' = seen /\ obj'.state = "Stopped" /\ obj'.token = obj.token /\ There
         \/ seen' = seen /\ obj'.state = "None"
         \/ seen' = seen \cup {"driver"} /\ obj' = obj
         \/ seen' = seen \cup {"ambiguous"}
  BY <1>2, ObjFields DEF Fields, Idle, NoObj
<1>4. OrphanInv'
  BY <1>1, <1>3 DEF Fields, IInv, LockInv, Follows, OrphanInv, DriverHeld, There, Deletes
<1>5. CountInv'
  BY <1>1, <1>3 DEF Fields, IInv, LockInv, Follows, CountInv, Counting, There, Up, Down, Recreates
<1>6. HoldInv'
  BY <1>1, <1>3 DEF Fields, IInv, LockInv, Follows, HoldInv, There
<1>7. EndInv'
  BY <1>1, <1>3 DEF Fields, IInv, LockInv, Follows, EndInv, Ending, Left, There, Deletes, Recreates
<1> QED
  BY <1>4, <1>5, <1>6, <1>7 DEF Follows

\* What is stopped was running, and its row had been scheduled.
LEMMA StopFollows == ASSUME Fields, IInv, Follows, Stop PROVE Follows'
<1>1. /\ op.at = "idle" /\ drive.at = "none" /\ row.phase \notin {"None", "Deleting"} /\ ~placed
      /\ readPhase(row) = "Running"
      /\ UNCHANGED <<row, born, drive, revoked, given, attempts, crashes>>
  BY DEF Fields, Stop, Free, creating, realizing, identity, recovery, bounds
<1>2. There
  BY <1>1, ReadsAs
<1>3. \/ seen' = seen /\ obj' = [obj EXCEPT !.state = "Stopped"] /\ op' = [Idle EXCEPT !.at = "stopped"]
      \/ seen' = seen \cup {"driver"} /\ obj' = obj /\ op' = op
      \/ seen' = seen \cup {"ambiguous"}
  BY Called, Zenon DEF Stop
<1>4. \/ seen' = seen /\ obj'.state = "Stopped" /\ obj'.token = obj.token /\ op'.at = "stopped"
      \/ seen' = seen \cup {"driver"} /\ obj' = obj /\ op' = op
      \/ seen' = seen \cup {"ambiguous"}
  BY <1>2, <1>3, ObjFields DEF Fields, Idle
<1>5. OrphanInv'
  BY <1>1, <1>2, <1>4 DEF Fields, IInv, LockInv, Follows, OrphanInv, DriverHeld, There, Deletes
<1>6. CountInv'
  BY <1>1, <1>2, <1>4 DEF Fields, IInv, LockInv, Follows, CountInv, Counting, There, Up, Down, Recreates
<1>7. HoldInv'
  BY <1>1, <1>2, <1>4 DEF Fields, IInv, LockInv, Follows, HoldInv, There
<1>8. EndInv'
  BY <1>1, <1>2, <1>4 DEF Fields, IInv, LockInv, Follows, EndInv, Ending, Left, There, Deletes, Recreates
<1> QED
  BY <1>5, <1>6, <1>7, <1>8 DEF Follows

\* What is written after a stop is what the driver has.
LEMMA StopWriteFollows == ASSUME Fields, IInv, Follows, StopWrite PROVE Follows'
<1>1. /\ op.at \in {"stopped", "autoStopped"} /\ op'.at = "idle" /\ UNCHANGED <<born, obj, drive, revoked, given, attempts, crashes>>
      /\ \/ seen' = seen /\ row' = refresh(row)
         \/ seen' = seen /\ row' = [refresh(row) EXCEPT !.reason = "AutoStop"]
         \/ seen' = seen \cup {"store"} /\ row' = row
  BY Ends, Zenon DEF StopWrite, At, identity, recovery, bounds, Answers, Fails
<1>2. row.phase # "None" /\ row \in Rows
  BY <1>1 DEF Fields, IInv, LockInv
<1>3. PICK q : refresh(row) = [phase |-> readPhase(row), sched |-> row.sched, reason |-> q, token |-> row.token]
  BY <1>2, ReadWrites
<1>4. \/ /\ seen' = seen /\ row'.phase = readPhase(row) /\ row'.sched = row.sched /\ row'.token = row.token
      \/ seen' = seen \cup {"store"} /\ row' = row
  BY <1>1, <1>3
<1>5. /\ readPhase(row) \in Phases /\ "None" \notin Phases
      /\ readPhase(row) = "Deleting" <=> row.phase = "Deleting"
      /\ row.phase = "Pending" /\ ~row.sched => readPhase(row) = "Pending"
      /\ row.phase = "Failed" /\ ~There => readPhase(row) = "Failed"
      /\ readPhase(row) \in Down => ~Up
  BY <1>2, ReadsAs DEF Phases
<1>6. op.at \in {"stopped", "autoStopped"} /\ op'.at = "idle" /\ UNCHANGED <<born, obj, drive, revoked, given, attempts, crashes>>
  BY <1>1
<1>7. OrphanInv'
  BY <1>2, <1>4, <1>5, <1>6 DEF Fields, IInv, LockInv, Follows, OrphanInv, DriverHeld, There, Deletes
<1>8. CountInv'
  BY <1>2, <1>4, <1>5, <1>6 DEF Fields, IInv, LockInv, Follows, CountInv, Counting, There, Up, Down, Recreates
<1>9. HoldInv'
  BY <1>2, <1>4, <1>5, <1>6 DEF Fields, IInv, LockInv, Follows, HoldInv, There
<1>10. EndInv'
  BY <1>2, <1>4, <1>5, <1>6 DEF Fields, IInv, LockInv, Follows, EndInv, Ending, Left, There, Deletes, Recreates
<1> QED
  BY <1>7, <1>8, <1>9, <1>10 DEF Follows

\* Deleting is written and the delete begins, or nothing changes.
LEMMA IntendFollows ==
    ASSUME IInv, Follows, op.at = "idle", Held, IntendDelete,
           UNCHANGED <<born, obj, drive, revoked, given, crashes, attempts>>
    PROVE  Follows'
<1>1. row.phase # "None" /\ row \in Rows
  BY Plain DEF Fields
<1>2. CASE row' = [row EXCEPT !.phase = "Deleting"] /\ op' = [Idle EXCEPT !.at = "delete", !.token = row.token] /\ Answers
  <2>1. row' = [phase |-> "Deleting", sched |-> row.sched, reason |-> row.reason, token |-> row.token]
    BY <1>1, <1>2, Zenon DEF Rows
  <2>2. op'.at = "delete" /\ op'.token = row.token
    BY <1>2 DEF Idle
  <2>3. Deleting
    BY <1>1, <1>2, <2>1, <2>2 DEF Deleting, Answers
  <2> QED
    BY <2>3, Deleted
<1>3. CASE UNCHANGED <<row, op>> /\ Fails("store")
  BY <1>3, Rests DEF Resting, Fails, There, Up
<1> QED
  BY <1>2, <1>3 DEF IntendDelete

\* A delete that is asked for.
LEMMA DeleteFollows == ASSUME IInv, Follows, Delete PROVE Follows'
BY IntendFollows, Zenon DEF Delete, Free, identity, recovery, bounds

\* Once the driver answered, the object is gone.
LEMMA DeleteObjectFollows == ASSUME Fields, IInv, Follows, DeleteObject PROVE Follows'
<1>1. op.at = "delete" /\ UNCHANGED <<row, born, drive, revoked, given, attempts, crashes>>
  BY DEF DeleteObject, At, identity, recovery, bounds
<1>2. \/ seen' = seen /\ obj' = NoObj /\ Goto("forgetMap")
      \/ seen' = seen \cup {"driver"} /\ obj' = obj /\ Done
      \/ seen' = seen \cup {"ambiguous"}
  BY Called, Zenon DEF DeleteObject
<1>3. \/ seen' = seen /\ obj'.state = "None" /\ op'.at = "forgetMap" /\ op'.token = op.token
      \/ seen' = seen \cup {"driver"} /\ obj' = obj /\ op'.at = "idle"
      \/ seen' = seen \cup {"ambiguous"}
  BY <1>2, GoesOn, Ends DEF Fields, NoObj
<1>4. OrphanInv'
  BY <1>1, <1>3 DEF Fields, IInv, LockInv, Follows, OrphanInv, DriverHeld, There, Deletes
<1>5. CountInv'
  BY <1>1, <1>3 DEF Fields, IInv, LockInv, Follows, CountInv, Counting, There, Up, Down, Recreates
<1>6. HoldInv'
  BY <1>1, <1>3 DEF Fields, IInv, LockInv, Follows, HoldInv, There
<1>7. EndInv'
  BY <1>1, <1>3 DEF Fields, IInv, LockInv, Follows, EndInv, Ending, Left, There, Deletes, Recreates
<1> QED
  BY <1>4, <1>5, <1>6, <1>7 DEF Follows

\* Forgetting moves the handler alone.
LEMMA ForgetMapFollows == ASSUME Fields, IInv, Follows, ForgetMap PROVE Follows'
<1>1. /\ op.at = "forgetMap" /\ Goto("forgetToken") /\ attempts' = 0
      /\ UNCHANGED <<row, born, obj, drive, revoked, given, crashes, seen>>
  BY DEF ForgetMap, At, identity, bounds, Answers
<1>2. op'.at = "forgetToken" /\ op'.token = op.token
  BY <1>1, GoesOn DEF Fields
<1>3. OrphanInv'
  BY <1>1, <1>2 DEF Fields, IInv, LockInv, Follows, OrphanInv, DriverHeld, There, Deletes
<1>4. CountInv'
  BY <1>1, <1>2 DEF Fields, IInv, LockInv, Follows, CountInv, Counting, There, Up, Down, Recreates
<1>5. HoldInv'
  BY <1>1, <1>2 DEF Fields, IInv, LockInv, Follows, HoldInv, There
<1>6. EndInv'
  BY <1>1, <1>2 DEF Fields, IInv, LockInv, Follows, EndInv, Ending, Left, There, Deletes, Recreates
<1> QED
  BY <1>3, <1>4, <1>5, <1>6 DEF Follows

\* The row's token ends.
LEMMA ForgetTokenFollows == ASSUME Fields, IInv, Follows, ForgetToken PROVE Follows'
<1>1. /\ op.at = "forgetToken" /\ Goto("forgetRow") /\ UNCHANGED <<row, born, obj, drive, given, attempts, crashes>>
      /\ seen \subseteq seen' /\ revoked \subseteq revoked'
      /\ ("revoke" \notin seen' => {op.token} \ {NoToken} \subseteq revoked')
  BY Revokes DEF ForgetToken, At, recovery, bounds
<1>2. op'.at = "forgetRow" /\ op'.token = op.token /\ NoToken \notin given
  BY <1>1, GoesOn, Fresh DEF Fields
<1>3. OrphanInv'
  BY <1>1, <1>2 DEF Fields, IInv, LockInv, Follows, OrphanInv, DriverHeld, There, Deletes
<1>4. CountInv'
  BY <1>1, <1>2 DEF Fields, IInv, LockInv, Follows, CountInv, Counting, There, Up, Down, Recreates
<1>5. HoldInv'
  BY <1>1, <1>2 DEF Fields, IInv, LockInv, Follows, HoldInv, There
<1>6. EndInv'
  BY <1>1, <1>2 DEF Fields, IInv, LockInv, Follows, EndInv, Ending, Left, There, Deletes, Recreates
<1> QED
  BY <1>3, <1>4, <1>5, <1>6 DEF Follows

\* The row goes when nothing it names stands.
LEMMA ForgetRowFollows == ASSUME Fields, IInv, Follows, ForgetRow PROVE Follows'
<1>1. /\ op.at = "forgetRow" /\ op'.at = "idle" /\ UNCHANGED <<born, obj, drive, revoked, given, attempts, crashes>>
      /\ \/ row' = NoRow /\ seen' = seen
         \/ row' = row /\ seen' = seen \cup {"store"}
  BY Ends DEF ForgetRow, At, identity, recovery, bounds, Answers, Fails
<1>2. NoRow.phase = "None" /\ ~NoRow.sched /\ NoRow.token = NoToken
  BY DEF NoRow
<1>3. OrphanInv'
  BY <1>1, <1>2 DEF Fields, IInv, LockInv, Follows, OrphanInv, DriverHeld, There, Deletes
<1>4. CountInv'
  BY <1>1, <1>2 DEF Fields, IInv, LockInv, Follows, CountInv, Counting, There, Up, Down, Recreates
<1>5. HoldInv'
  BY <1>1, <1>2 DEF Fields, IInv, LockInv, Follows, HoldInv, There
<1>6. EndInv'
  BY <1>1, <1>2 DEF Fields, IInv, LockInv, Follows, EndInv, Ending, Left, There, Deletes, Recreates
<1> QED
  BY <1>3, <1>4, <1>5, <1>6 DEF Follows

-----------------------------------------------------------------------------
(* The reaper's pass, the lost rule and recovery. *)

\* The list is read and nothing else.
LEMMA ReapListFollows == ASSUME IInv, Follows, ReapList PROVE Follows'
<1>1. Resting
  BY DEF ReapList, Resting, There, Up, identity, recovery, bounds, Answers, Fails
<1> QED
  BY <1>1, Rests

\* No rule matched.
LEMMA ReapNothingFollows == ASSUME IInv, Follows, ReapNothing PROVE Follows'
<1>1. Resting
  BY DEF ReapNothing, Resting, There, Up, identity, recovery, bounds, Answers, Fails
<1> QED
  BY <1>1, Rests

\* What the list holds owes no recovery.
LEMMA ReapVanishedFollows == ASSUME IInv, Follows, ReapVanished PROVE Follows'
<1>1. Resting
  BY Zenon DEF ReapVanished, Resting, There, Up, identity, recovery, bounds, Answers, Fails
<1> QED
  BY <1>1, Rests

\* What is there is not lost.
LEMMA LostNotFollows == ASSUME IInv, Follows, LostNot PROVE Follows'
<1>1. Resting
  BY DEF LostNot, Resting, There, Up, identity, recovery, bounds, Answers, Fails
<1> QED
  BY <1>1, Rests

\* A grace that has not run out.
LEMMA LostWaitFollows == ASSUME IInv, Follows, LostWait PROVE Follows'
<1>1. Resting
  BY DEF LostWait, Missed, Resting, There, Up, identity, recovery, bounds, Answers, Fails
<1> QED
  BY <1>1, Rests

\* A backoff that has.
LEMMA BackoffEndsFollows == ASSUME IInv, Follows, BackoffEnds PROVE Follows'
<1>1. Resting
  BY DEF BackoffEnds, Resting, There, Up, identity, recovery, bounds, Answers, Fails
<1> QED
  BY <1>1, Rests

\* A rule that deletes begins the delete a request begins, or takes away an
\* object with no row.
LEMMA ReapDeleteFollows == ASSUME IInv, Follows, ReapDelete PROVE Follows'
<1>1. op.at = "idle" /\ UNCHANGED <<born, drive, revoked, given, attempts, crashes>>
  BY DEF ReapDelete, Free, identity, recovery, bounds
<1>2. CASE Held
  <2>1. IntendDelete /\ UNCHANGED obj
    BY <1>2, Zenon DEF ReapDelete
  <2> QED
    BY <1>1, <1>2, <2>1, IntendFollows
<1>3. CASE ~Held
  <2>1. UNCHANGED <<row, op>> /\ seen \subseteq seen' /\ (obj' = NoObj \/ obj' = obj)
    BY <1>3 DEF ReapDelete, Calls, Answers, Fails
  <2>2. Resting
    BY <1>1, <2>1 DEF Resting, There, Up, NoObj
  <2> QED
    BY <2>2, Rests
<1> QED
  BY <1>2, <1>3

\* A rule that stops an object takes it down.
LEMMA ReapStopFollows == ASSUME Fields, IInv, Follows, ReapStop PROVE Follows'
<1>1. op.at = "idle" /\ There /\ UNCHANGED <<row, born, drive, revoked, given, attempts, crashes>>
  BY DEF ReapStop, Free, There, identity, recovery, bounds
<1>2. \/ /\ seen' = seen /\ obj' = [obj EXCEPT !.state = "Stopped"]
         /\ (Held /\ op' = [Idle EXCEPT !.at = "autoStopped"]) \/ op' = op
      \/ seen' = seen \cup {"driver"} /\ obj' = obj /\ op' = op
      \/ seen' = seen \cup {"ambiguous"}
  BY Called, Zenon DEF ReapStop
<1>3. \/ /\ seen' = seen /\ obj'.state = "Stopped" /\ obj'.token = obj.token
         /\ (row.phase # "None" /\ op'.at = "autoStopped") \/ op' = op
      \/ seen' = seen \cup {"driver"} /\ obj' = obj /\ op' = op
      \/ seen' = seen \cup {"ambiguous"}
  BY <1>1, <1>2, ObjFields DEF Fields, Idle
<1>4. OrphanInv'
  BY <1>1, <1>3 DEF Fields, IInv, LockInv, Follows, OrphanInv, DriverHeld, There, Deletes
<1>5. CountInv'
  BY <1>1, <1>3 DEF Fields, IInv, LockInv, Follows, CountInv, Counting, There, Up, Down, Recreates
<1>6. HoldInv'
  BY <1>1, <1>3 DEF Fields, IInv, LockInv, Follows, HoldInv, There
<1>7. EndInv'
  BY <1>1, <1>3 DEF Fields, IInv, LockInv, Follows, EndInv, Ending, Left, There, Deletes, Recreates
<1> QED
  BY <1>4, <1>5, <1>6, <1>7 DEF Follows

\* A rotation mints a fresh token and remembers the row's.
LEMMA ReapTokenFollows == ASSUME Fields, IInv, Follows, ReapToken PROVE Follows'
<1>1. /\ op.at = "idle" /\ row.phase \notin {"None", "Deleting"} /\ drive.at = "none" /\ row.token # NoToken
      /\ UNCHANGED <<row, born, obj, drive, revoked, given, attempts, crashes>>
      /\ \/ op' = [Idle EXCEPT !.at = "project", !.token = minted + 1, !.previous = row.token] /\ seen' = seen
         \/ op' = op /\ seen' = seen \cup {"mint"}
  BY DEF Fields, ReapToken, Free, rotatable, creating, realizing, recovery, bounds, Answers, Fails
<1>2. ASSUME op' = [Idle EXCEPT !.at = "project", !.token = minted + 1, !.previous = row.token]
      PROVE  op'.at = "project" /\ op'.token = minted + 1 /\ op'.previous = row.token
  BY <1>2 DEF Idle
<1>3. \/ op'.at = "project" /\ op'.token = minted + 1 /\ op'.previous = row.token /\ seen' = seen
      \/ op' = op /\ seen' = seen \cup {"mint"}
  BY <1>1, <1>2, Zenon
<1>4. minted + 1 \notin revoked /\ minted + 1 # row.token /\ minted + 1 # obj.token
  BY Fresh
<1>5. /\ op.at = "idle" /\ row.phase \notin {"None", "Deleting"} /\ drive.at = "none" /\ row.token # NoToken
      /\ UNCHANGED <<row, born, obj, drive, revoked, given, attempts, crashes>>
  BY <1>1
<1>6. OrphanInv'
  BY <1>3, <1>4, <1>5 DEF Fields, IInv, LockInv, Follows, OrphanInv, DriverHeld, There, Deletes
<1>7. CountInv'
  BY <1>3, <1>4, <1>5 DEF Fields, IInv, LockInv, Follows, CountInv, Counting, There, Up, Down, Recreates
<1>8. HoldInv'
  BY <1>3, <1>4, <1>5 DEF Fields, IInv, LockInv, Follows, HoldInv, There
<1>9. EndInv'
  BY <1>3, <1>4, <1>5 DEF Fields, IInv, LockInv, Follows, EndInv, Ending, Left, There, Deletes, Recreates
<1> QED
  BY <1>6, <1>7, <1>8, <1>9 DEF Follows

\* The new token reaches the workload, or is ended unused.
LEMMA RotateProjectFollows == ASSUME Fields, IInv, Follows, RotateProject PROVE Follows'
<1>1. op.at = "project" /\ UNCHANGED <<row, born, drive, revoked, attempts, crashes>>
  BY DEF RotateProject, At, recovery, bounds
<1>2. \/ /\ There /\ seen' = seen /\ obj' = [obj EXCEPT !.token = op.token] /\ given' = given \cup {op.token}
         /\ Goto("rotated")
      \/ (seen' = seen \/ seen' = seen \cup {"driver"}) /\ Goto("endNew") /\ UNCHANGED <<obj, given>>
      \/ seen' = seen \cup {"ambiguous"}
  BY Zenon DEF Fields, RotateProject, Answers, Fails
<1>3. \/ /\ There /\ seen' = seen /\ obj'.state = obj.state /\ obj'.token = op.token /\ given' = given \cup {op.token}
         /\ op'.at = "rotated" /\ op'.token = op.token /\ op'.previous = op.previous
      \/ /\ seen \subseteq seen' /\ UNCHANGED <<obj, given>>
         /\ op'.at = "endNew" /\ op'.token = op.token /\ op'.previous = op.previous
      \/ seen' = seen \cup {"ambiguous"}
  BY <1>2, GoesOn, ObjFields DEF Fields
<1>4. OrphanInv'
  BY <1>1, <1>3 DEF Fields, IInv, LockInv, Follows, OrphanInv, DriverHeld, There, Deletes
<1>5. CountInv'
  BY <1>1, <1>3 DEF Fields, IInv, LockInv, Follows, CountInv, Counting, There, Up, Down, Recreates
<1>6. HoldInv'
  BY <1>1, <1>3 DEF Fields, IInv, LockInv, Follows, HoldInv, There
<1>7. EndInv'
  BY <1>1, <1>3 DEF Fields, IInv, LockInv, Follows, EndInv, Ending, Left, There, Deletes, Recreates
<1> QED
  BY <1>4, <1>5, <1>6, <1>7 DEF Follows

\* The row names the token the workload holds before the old one ends.
LEMMA RotateWriteFollows == ASSUME Fields, IInv, Follows, RotateWrite PROVE Follows'
<1>1. op.at = "rotated" /\ UNCHANGED <<born, obj, drive, revoked, given, attempts, crashes>>
  BY DEF RotateWrite, At, identity, recovery, bounds
<1>2. row.phase # "None" /\ row \in Rows
  BY <1>1 DEF Fields, IInv, LockInv
<1>3. ASSUME row' = [row EXCEPT !.token = op.token]
      PROVE  row'.phase = row.phase /\ row'.sched = row.sched /\ row'.token = op.token
  <2>1. row' = [phase |-> row.phase, sched |-> row.sched, reason |-> row.reason, token |-> op.token]
    BY <1>2, <1>3, Zenon DEF Rows
  <2> QED
    BY <2>1, Zenon
<1>4. \/ row' = [row EXCEPT !.token = op.token] /\ Goto("endPrevious") /\ seen' = seen
      \/ row' = row /\ Done /\ seen' = seen \cup {"store"}
  BY Zenon DEF RotateWrite, Answers, Fails
<1>5. \/ /\ row'.phase = row.phase /\ row'.sched = row.sched /\ row'.token = op.token /\ seen' = seen
         /\ op'.at = "endPrevious" /\ op'.previous = op.previous
      \/ row' = row /\ op'.at = "idle" /\ seen' = seen \cup {"store"}
  BY <1>3, <1>4, GoesOn, Ends DEF Fields
<1>6. OrphanInv'
  BY <1>1, <1>2, <1>5 DEF Fields, IInv, LockInv, Follows, OrphanInv, DriverHeld, There, Deletes
<1>7. CountInv'
  BY <1>1, <1>2, <1>5 DEF Fields, IInv, LockInv, Follows, CountInv, Counting, There, Up, Down, Recreates
<1>8. HoldInv'
  BY <1>1, <1>2, <1>5 DEF Fields, IInv, LockInv, Follows, HoldInv, There
<1>9. EndInv'
  BY <1>1, <1>2, <1>5 DEF Fields, IInv, LockInv, Follows, EndInv, Ending, Left, There, Deletes, Recreates
<1> QED
  BY <1>6, <1>7, <1>8, <1>9 DEF Follows

\* A delete that was cut short begins again, from the row as it is.
LEMMA ReapFinishFollows == ASSUME IInv, Follows, ReapFinish PROVE Follows'
<1>1. op.at = "idle" /\ UNCHANGED <<row, born, obj, drive, revoked, given, attempts, crashes, seen>>
  BY DEF ReapFinish, Free, identity, recovery, bounds, Answers
<1>2. CASE Held /\ row.phase = "Deleting" /\ op' = [Idle EXCEPT !.at = "delete", !.token = row.token]
  <2>1. op'.at = "delete" /\ op'.token = row.token /\ row.phase # "None"
    BY <1>2 DEF Idle
  <2>2. Deleting
    BY <1>1, <1>2, <2>1 DEF Deleting
  <2> QED
    BY <2>2, Deleted
<1>3. CASE op' = op
  BY <1>1, <1>3, Rests DEF Resting, There, Up
<1> QED
  BY <1>2, <1>3, Zenon DEF ReapFinish

\* A grace that ran out deletes as a request does.
LEMMA LostDeleteFollows == ASSUME IInv, Follows, LostDelete PROVE Follows'
BY IntendFollows, Zenon DEF LostDelete, Graced, Free, canBeLost, identity, recovery, bounds

\* What is marked Lost had been scheduled.
LEMMA LostMarkFollows == ASSUME Fields, IInv, Follows, LostMark PROVE Follows'
<1>1. /\ op.at = "idle" /\ row.phase \notin {"None", "Pending", "Failed", "Deleting"}
      /\ UNCHANGED <<born, obj, op, drive, revoked, given, attempts, crashes>>
  BY DEF Fields, LostMark, Graced, Free, canBeLost, identity, bounds
<1>2. row \in Rows
  BY <1>1 DEF Fields
<1>3. ASSUME row' = [row EXCEPT !.phase = "Lost", !.reason = "Lost"]
      PROVE  row'.phase = "Lost" /\ row'.sched = row.sched /\ row'.token = row.token
  <2>1. row' = [phase |-> "Lost", sched |-> row.sched, reason |-> "Lost", token |-> row.token]
    BY <1>2, <1>3, Zenon DEF Rows
  <2> QED
    BY <2>1, Zenon
<1>4. seen \subseteq seen' /\ (row' = row \/ row' = [row EXCEPT !.phase = "Lost", !.reason = "Lost"])
  BY DEF LostMark, Missed, Answers, Fails
<1>5. seen \subseteq seen' /\ (row' = row \/ (row'.phase = "Lost" /\ row'.sched = row.sched /\ row'.token = row.token))
  BY <1>3, <1>4, Zenon
<1>6. OrphanInv'
  BY <1>1, <1>5 DEF Fields, IInv, LockInv, Follows, OrphanInv, DriverHeld, There, Deletes
<1>7. CountInv'
  BY <1>1, <1>5 DEF Fields, IInv, LockInv, Follows, CountInv, Counting, There, Up, Down, Recreates
<1>8. HoldInv'
  BY <1>1, <1>5 DEF Fields, IInv, LockInv, Follows, HoldInv, There
<1>9. EndInv'
  BY <1>1, <1>5 DEF Fields, IInv, LockInv, Follows, EndInv, Ending, Left, There, Deletes, Recreates
<1> QED
  BY <1>6, <1>7, <1>8, <1>9 DEF Follows

\* A recovery begins for what was missed and had been scheduled.
LEMMA RecoverBeginFollows == ASSUME Fields, IInv, Follows, RecoverBegin PROVE Follows'
<1>1. /\ op.at = "idle" /\ row.phase \notin {"None", "Pending", "Failed", "Deleting"}
      /\ UNCHANGED <<born, obj, drive, revoked, given, attempts, crashes>>
  BY DEF Fields, RecoverBegin, Free, canBeLost, identity, recovery, bounds
<1>2. row \in Rows
  BY <1>1 DEF Fields
<1>3. ASSUME row' = [row EXCEPT !.phase = "Lost", !.reason = "Lost"]
      PROVE  row'.phase = "Lost" /\ row'.sched = row.sched /\ row'.token = row.token
  <2>1. row' = [phase |-> "Lost", sched |-> row.sched, reason |-> "Lost", token |-> row.token]
    BY <1>2, <1>3, Zenon DEF Rows
  <2> QED
    BY <2>1, Zenon
<1>4. /\ (~There /\ seen' = seen) \/ seen' = seen \cup {"stale"} \/ (seen' = seen \cup {"store"} /\ row' = row /\ op' = op)
      /\ \/ row' = row /\ op' = op
         \/ /\ op' = [Idle EXCEPT !.at = "attempt"]
            /\ \/ row.phase \in {"Lost", "Recovering"} /\ row' = row
               \/ row' = [row EXCEPT !.phase = "Lost", !.reason = "Lost"]
  BY Zenon DEF Fields, RecoverBegin, Missed, Answers, Fails
<1>5. [Idle EXCEPT !.at = "attempt"].at = "attempt"
  BY DEF Idle
<1>6. /\ (~There /\ seen' = seen) \/ seen' = seen \cup {"stale"} \/ (seen' = seen \cup {"store"} /\ row' = row /\ op' = op)
      /\ \/ row' = row /\ op' = op
         \/ /\ op'.at = "attempt" /\ row'.phase \in {"Lost", "Recovering"}
            /\ row'.sched = row.sched /\ row'.token = row.token
  BY <1>3, <1>4, <1>5, Zenon
<1>7. OrphanInv'
  BY <1>1, <1>6 DEF Fields, IInv, LockInv, Follows, OrphanInv, DriverHeld, There, Deletes
<1>8. CountInv'
  BY <1>1, <1>6 DEF Fields, IInv, LockInv, Follows, CountInv, Counting, There, Up, Down, Recreates
<1>9. HoldInv'
  BY <1>1, <1>6 DEF Fields, IInv, LockInv, Follows, HoldInv, There
<1>10. EndInv'
  BY <1>1, <1>6 DEF Fields, IInv, LockInv, Follows, EndInv, Ending, Left, There, Deletes, Recreates
<1> QED
  BY <1>7, <1>8, <1>9, <1>10 DEF Follows

\* Only what is gone is given up, or the attempt was the first.
LEMMA RecoverAttemptFollows == ASSUME Fields, IInv, Follows, RecoverAttempt PROVE Follows'
<1>1. op.at = "attempt" /\ UNCHANGED <<born, obj, drive, revoked, given, crashes>>
  BY DEF RecoverAttempt, At, identity, bounds
<1>2. row.phase \in {"Lost", "Recovering"} /\ row \in Rows
  BY <1>1 DEF Fields, IInv, LockInv
<1>3. attempts \in Nat /\ RecoveryAttempts \in Nat
  BY LifecycleAssumption DEF IInv, TypeInv, CountOK
<1>4. ASSUME row' = [row EXCEPT !.phase = "Failed", !.reason = "RecoveryExhausted"]
      PROVE  row'.phase = "Failed" /\ row'.sched = row.sched /\ row'.token = row.token
  <2>1. row' = [phase |-> "Failed", sched |-> row.sched, reason |-> "RecoveryExhausted", token |-> row.token]
    BY <1>2, <1>4, Zenon DEF Rows
  <2> QED
    BY <2>1, Zenon
<1>5. ASSUME row' = [row EXCEPT !.phase = "Failed", !.reason = "VolumeMissing"]
      PROVE  row'.phase = "Failed" /\ row'.sched = row.sched /\ row'.token = row.token
  <2>1. row' = [phase |-> "Failed", sched |-> row.sched, reason |-> "VolumeMissing", token |-> row.token]
    BY <1>2, <1>5, Zenon DEF Rows
  <2> QED
    BY <2>1, Zenon
<1>6. ASSUME row' = [row EXCEPT !.phase = "Recovering", !.reason = "Lost"]
      PROVE  row'.phase = "Recovering" /\ row'.sched = row.sched /\ row'.token = row.token
  <2>1. row' = [phase |-> "Recovering", sched |-> row.sched, reason |-> "Lost", token |-> row.token]
    BY <1>2, <1>6, Zenon DEF Rows
  <2> QED
    BY <2>1, Zenon
<1>7. \/ /\ attempts + 1 > RecoveryAttempts /\ seen' = seen /\ op' = Idle /\ attempts' = 0
         /\ row' = [row EXCEPT !.phase = "Failed", !.reason = "RecoveryExhausted"]
      \/ seen' = seen \cup {"store"} /\ op' = Idle /\ row' = row
      \/ /\ seen' = seen \cup {"volume"} /\ op' = Idle
         /\ row' = [row EXCEPT !.phase = "Failed", !.reason = "VolumeMissing"]
      \/ /\ seen' = seen /\ Goto("repush")
         /\ row' = [row EXCEPT !.phase = "Recovering", !.reason = "Lost"]
  BY Zenon DEF RecoverAttempt, exhausted, GiveUp, Done, Answers, Fails
<1>8. /\ row'.sched = row.sched /\ row'.token = row.token
      /\ \/ /\ attempts + 1 > RecoveryAttempts /\ seen' = seen /\ op'.at = "idle" /\ attempts' = 0
            /\ row'.phase = "Failed"
         \/ seen' = seen \cup {"store"} /\ op'.at = "idle" /\ row' = row
         \/ seen' = seen \cup {"volume"} /\ op'.at = "idle" /\ row'.phase = "Failed"
         \/ seen' = seen /\ op'.at = "repush" /\ row'.phase = "Recovering"
  <2>1. Idle.at = "idle" /\ (Goto("repush") => op'.at = "repush")
    BY GoesOn DEF Fields, Idle
  <2> QED
    BY <1>4, <1>5, <1>6, <1>7, <2>1, Zenon
<1>9. OrphanInv'
  BY <1>1, <1>2, <1>3, <1>8 DEF Fields, IInv, LockInv, Follows, OrphanInv, DriverHeld, There, Deletes
<1>10. CountInv'
  BY <1>1, <1>2, <1>3, <1>8 DEF Fields, IInv, LockInv, Follows, CountInv, Counting, There, Up, Down, Recreates
<1>11. HoldInv'
  BY <1>1, <1>2, <1>3, <1>8 DEF Fields, IInv, LockInv, Follows, HoldInv, There
<1>12. EndInv'
  BY <1>1, <1>2, <1>3, <1>8 DEF Fields, IInv, LockInv, Follows, EndInv, Ending, Left, There, Deletes, Recreates
<1> QED
  BY <1>9, <1>10, <1>11, <1>12 DEF Follows

\* The push moves the handler alone, or the recovery waits.
LEMMA RecoverPushFollows == ASSUME Fields, IInv, Follows, RecoverPush PROVE Follows'
<1>1. op.at = "repush" /\ UNCHANGED <<row, born, obj, drive, revoked, given, attempts, crashes>>
  BY DEF RecoverPush, At, identity, bounds
<1>2. \/ Goto("remint") /\ seen' = seen
      \/ Done /\ seen' = seen \cup {"gateway"}
  BY Zenon DEF RecoverPush, Backoff, Answers, Fails
<1>3. (op'.at = "remint" /\ seen' = seen) \/ (op'.at = "idle" /\ seen' = seen \cup {"gateway"})
  BY <1>2, GoesOn, Ends DEF Fields
<1>4. OrphanInv'
  BY <1>1, <1>3 DEF Fields, IInv, LockInv, Follows, OrphanInv, DriverHeld, There, Deletes
<1>5. CountInv'
  BY <1>1, <1>3 DEF Fields, IInv, LockInv, Follows, CountInv, Counting, There, Up, Down, Recreates
<1>6. HoldInv'
  BY <1>1, <1>3 DEF Fields, IInv, LockInv, Follows, HoldInv, There
<1>7. EndInv'
  BY <1>1, <1>3 DEF Fields, IInv, LockInv, Follows, EndInv, Ending, Left, There, Deletes, Recreates
<1> QED
  BY <1>4, <1>5, <1>6, <1>7 DEF Follows

\* The token minted is fresh, and the row's is remembered.
LEMMA RecoverMintFollows == ASSUME Fields, IInv, Follows, RecoverMint PROVE Follows'
<1>1. op.at = "remint" /\ UNCHANGED <<row, born, obj, drive, revoked, given, attempts, crashes>>
  BY DEF RecoverMint, At, bounds
<1>2. ASSUME op' = [op EXCEPT !.at = "recreate", !.token = minted + 1, !.previous = row.token]
      PROVE  op'.at = "recreate" /\ op'.token = minted + 1 /\ op'.previous = row.token
  <2>1. op' = [at |-> "recreate", token |-> minted + 1, previous |-> row.token, read |-> op.read]
    BY <1>2, Zenon DEF Fields, Handlers
  <2> QED
    BY <2>1
<1>3. \/ op' = [op EXCEPT !.at = "recreate", !.token = minted + 1, !.previous = row.token] /\ seen' = seen
      \/ op' = Idle /\ seen' = seen \cup {"mint"}
  BY Zenon DEF RecoverMint, Backoff, Done, Answers, Fails
<1>4. \/ op'.at = "recreate" /\ op'.token = minted + 1 /\ op'.previous = row.token /\ seen' = seen
      \/ op'.at = "idle" /\ seen' = seen \cup {"mint"}
  <2>1. Idle.at = "idle"
    BY DEF Idle
  <2> QED
    BY <1>2, <1>3, <2>1, Zenon
<1>5. minted + 1 \notin revoked /\ minted + 1 # row.token /\ minted + 1 # obj.token
  BY Fresh
<1>6. OrphanInv'
  BY <1>1, <1>4, <1>5 DEF Fields, IInv, LockInv, Follows, OrphanInv, DriverHeld, There, Deletes
<1>7. CountInv'
  BY <1>1, <1>4, <1>5 DEF Fields, IInv, LockInv, Follows, CountInv, Counting, There, Up, Down, Recreates
<1>8. HoldInv'
  BY <1>1, <1>4, <1>5 DEF Fields, IInv, LockInv, Follows, HoldInv, There
<1>9. EndInv'
  BY <1>1, <1>4, <1>5 DEF Fields, IInv, LockInv, Follows, EndInv, Ending, Left, There, Deletes, Recreates
<1> QED
  BY <1>6, <1>7, <1>8, <1>9 DEF Follows

\* What is recreated or adopted holds the new token.
LEMMA RecoverCreateFollows == ASSUME Fields, IInv, Follows, RecoverCreate PROVE Follows'
<1>1. op.at = "recreate" /\ UNCHANGED <<row, born, drive, revoked, crashes>>
  BY DEF RecoverCreate, At, bounds
<1>2. ASSUME obj' \in IF Made THEN {[obj EXCEPT !.token = op.token]}
                      ELSE [state : {"Pending", "Running"}, token : {op.token}]
      PROVE  obj'.token = op.token /\ obj'.state # "None"
  BY <1>2, ObjFields DEF Fields, There
<1>3. \/ /\ seen' = seen /\ given' = given \cup {op.token} /\ Goto("recovered") /\ attempts' = 0
         /\ obj' \in IF Made THEN {[obj EXCEPT !.token = op.token]}
                     ELSE [state : {"Pending", "Running"}, token : {op.token}]
      \/ seen' = seen \cup {"driver"} /\ UNCHANGED <<obj, given, attempts>> /\ Goto("endNew")
      \/ seen' = seen \cup {"ambiguous"}
  BY Zenon DEF RecoverCreate, Answers, Fails
<1>4. \A step : Goto(step) => op'.at = step /\ op'.token = op.token /\ op'.previous = op.previous
  BY GoesOn DEF Fields
<1>5. \/ /\ seen' = seen /\ given' = given \cup {op.token} /\ attempts' = 0
         /\ op'.at = "recovered" /\ op'.token = op.token /\ op'.previous = op.previous
         /\ obj'.token = op.token /\ obj'.state # "None"
      \/ /\ seen' = seen \cup {"driver"} /\ UNCHANGED <<obj, given, attempts>>
         /\ op'.at = "endNew" /\ op'.token = op.token /\ op'.previous = op.previous
      \/ seen' = seen \cup {"ambiguous"}
  BY <1>2, <1>3, <1>4, Zenon
<1>6. OrphanInv'
  BY <1>1, <1>5 DEF Fields, IInv, LockInv, Follows, OrphanInv, DriverHeld, There, Deletes
<1>7. CountInv'
  BY <1>1, <1>5 DEF Fields, IInv, LockInv, Follows, CountInv, Counting, There, Up, Down, Recreates
<1>8. HoldInv'
  BY <1>1, <1>5 DEF Fields, IInv, LockInv, Follows, HoldInv, There
<1>9. EndInv'
  BY <1>1, <1>5 DEF Fields, IInv, LockInv, Follows, EndInv, Ending, Left, There, Deletes, Recreates
<1> QED
  BY <1>6, <1>7, <1>8, <1>9 DEF Follows

\* The record of a recovery says what the driver has and names the new token.
LEMMA RecoverWriteFollows == ASSUME Fields, IInv, Follows, RecoverWrite PROVE Follows'
<1>1. op.at = "recovered" /\ UNCHANGED <<born, obj, drive, revoked, given, attempts, crashes>>
  BY DEF RecoverWrite, At, identity, recovery, bounds
<1>2. row.phase \in {"Lost", "Recovering"} /\ row \in Rows
  BY <1>1 DEF Fields, IInv, LockInv
<1>3. PICK q : refresh(row) = [phase |-> readPhase(row), sched |-> row.sched, reason |-> q, token |-> row.token]
  BY <1>2, ReadWrites
<1>4. /\ Goto("endPrevious")
      /\ \/ seen' = seen /\ row' = [refresh(row) EXCEPT !.token = op.token]
         \/ seen' = seen \cup {"store"} /\ row' = row
  BY Zenon DEF RecoverWrite, Answers, Fails
<1>5. /\ op'.at = "endPrevious" /\ op'.token = op.token /\ op'.previous = op.previous
      /\ \/ seen' = seen /\ row'.phase = readPhase(row) /\ row'.sched = row.sched /\ row'.token = op.token
         \/ seen' = seen \cup {"store"} /\ row' = row
  BY <1>3, <1>4, GoesOn DEF Fields
<1>6. /\ readPhase(row) \in Phases \ {"Deleting"} /\ "None" \notin Phases
      /\ readPhase(row) \in Down => ~Up
  BY <1>2, ReadsAs DEF Phases
<1>7. OrphanInv'
  BY <1>1, <1>2, <1>5, <1>6 DEF Fields, IInv, LockInv, Follows, OrphanInv, DriverHeld, There, Deletes
<1>8. CountInv'
  BY <1>1, <1>2, <1>5, <1>6 DEF Fields, IInv, LockInv, Follows, CountInv, Counting, There, Up, Down, Recreates
<1>9. HoldInv'
  BY <1>1, <1>2, <1>5, <1>6 DEF Fields, IInv, LockInv, Follows, HoldInv, There
<1>10. EndInv'
  BY <1>1, <1>2, <1>5, <1>6 DEF Fields, IInv, LockInv, Follows, EndInv, Ending, Left, There, Deletes, Recreates
<1> QED
  BY <1>7, <1>8, <1>9, <1>10 DEF Follows

-----------------------------------------------------------------------------
(* The whole. *)

\* The workload comes up, ends or is lost: what was not up does not come up.
LEMMA ObjectMovesFollows == ASSUME IInv, Follows, ObjectMoves PROVE Follows'
<1>1. There /\ obj \in Objects
  BY Plain DEF Fields, ObjectMoves
<1>2. UNCHANGED <<row, born, op, drive, revoked, given, attempts, crashes, seen>>
  BY DEF ObjectMoves, identity, recovery, Answers
<1>3. \/ obj' = NoObj
      \/ Up /\ \E s \in {"Running", "Stopped", "Failed"} : obj' = [obj EXCEPT !.state = s]
  BY DEF ObjectMoves, Up
<1>4. obj'.state = "None" \/ (Up /\ obj'.state \in {"Running", "Stopped", "Failed"} /\ obj'.token = obj.token)
  BY <1>1, <1>3, ObjFields DEF NoObj
<1>5. Resting
  BY <1>1, <1>2, <1>4 DEF Resting, There, Up
<1> QED
  BY <1>5, Rests

\* A restart keeps what the workload holds and what is revoked.
LEMMA RestartFollows == ASSUME IInv, Follows, Restart PROVE Follows'
<1>1. /\ op' = Idle /\ drive' = NoDrive /\ (row' = row \/ row' = NoRow) /\ crashes' = crashes + 1
      /\ UNCHANGED <<born, obj, revoked, given, seen>>
  BY DEF Restart, identity, Answers
<1>2. op'.at = "idle" /\ drive'.at = "none" /\ ~NoRow.sched
  BY Zenon, <1>1 DEF Idle, NoDrive, NoRow
<1>3. crashes' # 0
  <2>1. crashes \in Nat
    BY LifecycleAssumption DEF IInv, TypeInv, CountOK
  <2> QED
    BY <1>1, <2>1
<1>4. OrphanInv' /\ CountInv' /\ EndInv'
  BY <1>3 DEF OrphanInv, DriverHeld, CountInv, Counting, EndInv, Ending
<1>5. HoldInv'
  BY <1>1, <1>2 DEF Follows, HoldInv, There
<1> QED
  BY <1>4, <1>5 DEF Follows

\* The outcomes hold at the start.
LEMMA InitFollows == Init => Follows
<1> SUFFICES ASSUME Init PROVE Follows
  OBVIOUS
<1>1. /\ row.phase = "None" /\ ~row.sched /\ obj.state = "None" /\ op.at = "idle" /\ drive.at = "none"
      /\ given = {} /\ attempts = 0
  BY Zenon DEF Init, NoRow, NoObj, Idle, NoDrive
<1> QED
  BY <1>1 DEF Follows, OrphanInv, CountInv, HoldInv, EndInv, There, Up, Down, Deletes, Recreates, Left

\* Every step keeps them.
LEMMA NextFollows == IInv /\ Follows /\ [Next]_vars => Follows'
<1> SUFFICES ASSUME Fields, IInv, Follows, [Next]_vars PROVE Follows'
  BY Plain
<1>1. CASE UNCHANGED vars
  BY <1>1, Rests DEF vars, Resting, There, Up
<1>2. CASE Next
  BY <1>2, CreateFollows, RealizeBeginFollows, RealizePushFollows, RealizeHoldFollows,
     RealizeMintFollows, RealizeWriteFollows, RealizeUndoFollows, FailPurgeFollows,
     FailRevokeFollows, FailWriteFollows, DriveCreateFollows, DriveInspectFollows, SettleFollows,
     SettleUnmakeFollows, SettleUnmadeFollows, SettleWriteFollows, EndPreviousFollows,
     EndNewFollows, StartFollows, StartWriteFollows, StartUndoFollows, StopFollows,
     StopWriteFollows, DeleteFollows, DeleteObjectFollows, ForgetMapFollows, ForgetTokenFollows,
     ForgetRowFollows, ReapListFollows, ReapDeleteFollows, ReapStopFollows, ReapTokenFollows,
     RotateProjectFollows, RotateWriteFollows, ReapNothingFollows, ReapFinishFollows,
     ReapVanishedFollows, LostNotFollows, LostMarkFollows, LostWaitFollows, LostDeleteFollows,
     RecoverBeginFollows, RecoverAttemptFollows, RecoverPushFollows, RecoverMintFollows,
     RecoverCreateFollows, RecoverWriteFollows, BackoffEndsFollows, ObjectMovesFollows,
     RestartFollows
     DEF Next, Realize, Fail, Drive, Settles, Acts, Reap, Recover
<1> QED
  BY <1>1, <1>2

=============================================================================
