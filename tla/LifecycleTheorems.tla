-------------------------- MODULE LifecycleTheorems --------------------------
(***************************************************************************)
(* What a sandbox comes to, for every bound on tokens, faults, restarts    *)
(* and recoveries: its map and its workload follow its row, a delete is    *)
(* not undone, the rows say what the driver has, and an identity stands    *)
(* while it is kept and no longer.  The invariant of the lock holds of     *)
(* every behaviour (LifecycleProofs), and under it every step keeps the    *)
(* four outcome invariants (LifecycleOutcomeProofs).                       *)
(***************************************************************************)
EXTENDS LifecycleProofs, LifecycleOutcomeProofs

\* Every variable keeps its type: among it, no token is revoked or handed out
\* that was not minted, and no recovery is attempted more often than allowed.
THEOREM Types == Spec => []TypeOK
<1>1. IInv => TypeOK
  BY DEF IInv, TypeInv, RowOK, ObjOK, OpOK, DriveOK, ReapOK, FlagOK, TokOK, CountOK, FaultOK, TypeOK
<1> QED
  BY <1>1, Inductive, PTL

\* purgeEgress and forgetOne: no map is held for a sandbox that does not exist,
\* wherever a delete, a failure or a restart falls in a create or a recovery.
THEOREM NoMapWithoutRow == Spec => []MapHasRow
<1>1. IInv => MapHasRow
  BY HeldPhase DEF IInv, TypeInv, LockInv, MapHasRow
<1> QED
  BY <1>1, Inductive, PTL

\* realize and recoverLocked: no workload of a sandbox that was made and is
\* kept runs while the hub holds no map for it.
THEOREM NoWorkloadWithoutMap == Spec => []RunsWithMap
<1>1. IInv => RunsWithMap
  BY DEF IInv, LockInv, RunsWithMap, settled
<1> QED
  BY <1>1, Inductive, PTL

\* The three together: what a sandbox may reach follows its row, in every state
\* of every handler, the driver, the reaper and a restart.
THEOREM BoundaryKept == Spec => []BoundaryFollows
<1>1. TypeOK /\ MapHasRow /\ RunsWithMap => BoundaryFollows
  BY DEF BoundaryFollows
<1> QED
  BY <1>1, Types, NoMapWithoutRow, NoWorkloadWithoutMap, PTL

\* A handler that writes the row holds the lock over a row that is there.
LEMMA NoneStaysNone == ASSUME IInv, Next, born, ~Held PROVE row' = NoRow
<1>1. row = NoRow /\ row.phase = "None"
  BY HeldPhase DEF IInv, TypeInv, Held
<1>2. CASE RealizeWrite
  BY <1>1, <1>2 DEF RealizeWrite, At, IInv, LockInv
<1>3. CASE FailWrite
  BY <1>1, <1>3 DEF FailWrite, At, IInv, LockInv
<1>4. CASE SettleWrite
  BY <1>1, <1>4 DEF SettleWrite, At, IInv, LockInv
<1>5. CASE StartWrite
  BY <1>1, <1>5 DEF StartWrite, At, IInv, LockInv
<1>6. CASE StopWrite
  BY <1>1, <1>6 DEF StopWrite, At, IInv, LockInv
<1>7. CASE RotateWrite
  BY <1>1, <1>7 DEF RotateWrite, At, IInv, LockInv
<1>8. CASE RecoverAttempt
  BY <1>1, <1>8 DEF RecoverAttempt, At, IInv, LockInv, GiveUp
<1>9. CASE RecoverWrite
  BY <1>1, <1>9 DEF RecoverWrite, At, IInv, LockInv
<1>10. CASE ForgetRow
  BY <1>1, <1>10 DEF ForgetRow
<1>11. CASE Delete
  BY <1>1, <1>11 DEF Delete
<1>12. CASE ReapDelete
  BY <1>1, <1>12 DEF ReapDelete
<1>13. CASE LostMark
  BY <1>1, <1>13 DEF LostMark, Graced, canBeLost
<1>14. CASE LostDelete
  BY <1>1, <1>14 DEF LostDelete, Graced, canBeLost
<1>15. CASE RecoverBegin
  BY <1>1, <1>15 DEF RecoverBegin, canBeLost
<1>16. CASE Create
  BY <1>1, <1>16 DEF Create
<1>17. CASE Restart
  BY <1>1, <1>17 DEF Restart
<1> QED
  BY <1>1, <1>2, <1>3, <1>4, <1>5, <1>6, <1>7, <1>8, <1>9, <1>10, <1>11, <1>12, <1>13, <1>14,
     <1>15, <1>16, <1>17
     DEF Next, Realize, Fail, Drive, Settles, Acts, Reap, Recover,
         RealizeBegin, RealizePush, RealizeHold, RealizeMint, RealizeUndo, FailPurge,
         FailRevoke, DriveCreate, DriveInspect, Settle, SettleUnmake, SettleUnmade,
         EndPrevious, EndNew, Start, StartUndo, Stop, DeleteObject, ForgetMap, ForgetToken,
         ReapList, ReapStop, ReapToken, RotateProject, ReapNothing, ReapFinish, ReapVanished,
         LostNot, LostWait, RecoverPush, RecoverMint, RecoverCreate, BackoffEnds, ObjectMoves

\* settleCreate and every handler read the row again under the lock: a sandbox
\* whose row a delete removed never comes back.
THEOREM NeverResurrected == Spec => NoResurrection
<1>1. IInv /\ [Next]_vars => [born /\ ~Held => row' = NoRow]_vars
  BY NoneStaysNone
<1> QED
  BY <1>1, Inductive, PTL DEF Spec, NoResurrection

\* The four invariants hold of every behaviour.
THEOREM Outcomes == Spec => []Follows
BY InitFollows, NextFollows, Inductive, PTL DEF Spec

\* deleteOne, settleCreate and countLocked: whatever is interleaved, an object
\* without a row is only ever one a create in flight will find out about, and
\* the count of running sandboxes never misses one that runs.
THEOREM RowsTell == Spec => []RowsTellDriver
<1>1. IInv /\ Follows => NoOrphan
  <2> SUFFICES ASSUME IInv, Follows, OnlyFailed(Faults \ {"driver", "ambiguous"}), ~Held, Quiet PROVE ~Made
    BY DEF NoOrphan
  <2>1. DriverHeld
    BY DEF OnlyFailed, DriverHeld
  <2>2. row.phase = "None" /\ op.at = "idle" /\ drive.at = "none" /\ (Made <=> There)
    BY Plain DEF Fields, Quiet, Free, realizing
  <2> QED
    BY <2>1, <2>2 DEF Follows, OrphanInv
<1>2. IInv /\ Follows => CountHolds
  <2> SUFFICES ASSUME IInv, Follows, OnlyFailed({"store", "revoke", "stale"}), Quiet, obj.state = "Running",
                      "stale" \in seen => "store" \notin seen /\ RecoveryAttempts > 0
               PROVE  row.phase \notin {"Stopped", "Failed"}
    BY DEF CountHolds
  <2>1. Counting
    BY DEF OnlyFailed, Counting
  <2>2. op.at = "idle"
    BY DEF Quiet, Free
  <2> QED
    BY <2>1, <2>2 DEF Follows, CountInv, Up, Down
<1> QED
  BY <1>1, <1>2, Outcomes, Inductive, PTL DEF RowsTellDriver

\* token.go and forgetOne: the workload of a sandbox that is kept never holds a
\* revoked token, and every token a deleted sandbox was given is revoked.
THEOREM IdentityKept == Spec => []IdentityFollows
<1>1. IInv /\ Follows => NeverHoldsRevoked
  BY Plain DEF Fields, Follows, HoldInv, NeverHoldsRevoked, settled
<1>2. IInv /\ Follows => TokensEnded
  <2> SUFFICES ASSUME IInv, Follows, OnlyFailed(Faults \ {"store", "revoke", "ambiguous"}), ~Held
               PROVE  given \subseteq revoked
    BY DEF TokensEnded, IdentityRefused
  <2>1. Ending /\ row.phase = "None"
    BY Plain DEF Fields, OnlyFailed, Ending
  <2> QED
    BY <2>1 DEF Follows, EndInv, Left
<1> QED
  BY <1>1, <1>2, Outcomes, Inductive, PTL DEF IdentityFollows


=============================================================================
