-------------------------- MODULE LifecycleProofs --------------------------
(***************************************************************************)
(* The invariant of the lock (IInv of Lifecycle) for every bound on        *)
(* tokens, faults, restarts and recoveries.                                *)
(*                                                                         *)
(* A handler that holds the lock relies, at each of its steps, on what it  *)
(* read of the row when it took it, and the driver's create, which runs    *)
(* without it, on the row being still placed or on its way out.  LockInv   *)
(* says what each step relies on; it is stated over row.phase, "None" for  *)
(* the row that is not there.  Each action is shown to keep it.            *)
(***************************************************************************)
EXTENDS Lifecycle, TLAPS

\* An action makes one call that answers or fails, as persist and the drivers do.
Call == Answers \/ \E kind \in FaultKinds : Fails(kind)

-----------------------------------------------------------------------------
(* The pieces the actions are made of. *)

\* A row is held exactly when its phase is one of the store's.
LEMMA HeldPhase ==
    ASSUME RowOK
    PROVE  /\ Held <=> row.phase # "None"
           /\ Held <=> row \in Rows
           /\ row.phase \in Phases \cup {"None"}
           /\ row.sched => row.phase # "None"
<1>1. CASE row = NoRow
  <2>1. NoRow.phase = "None" /\ ~NoRow.sched
    BY DEF NoRow
  <2>2. \A r \in Rows : r.phase # "None"
    BY DEF Rows, Phases
  <2> QED
    BY <1>1, <2>1, <2>2 DEF Held
<1>2. CASE row \in Rows
  <2>1. row.phase \in Phases /\ "None" \notin Phases
    BY <1>2 DEF Rows, Phases
  <2>2. NoRow.phase = "None"
    BY DEF NoRow
  <2> QED
    BY <1>2, <2>1, <2>2 DEF Held
<1> QED
  BY <1>1, <1>2 DEF RowOK

\* A call that answers or fails keeps the count of faults and their kinds typed.
LEMMA FaultsTyped == ASSUME FaultOK, Call PROVE FaultOK'
BY LifecycleAssumption DEF FaultOK, Call, Answers, Fails

\* revokeToken adds only tokens that were minted.
LEMMA RevokeTyped ==
    ASSUME TokOK, NEW T \in SUBSET (0..minted), revokeToken(T), minted' = minted, given' = given
    PROVE  TokOK' /\ Call
BY DEF TokOK, Call, revokeToken, FaultKinds, NoToken

\* What an action leaves alone keeps its type.
LEMMA Still ==
    ASSUME TypeInv, minted' = minted
    PROVE  /\ row' = row => RowOK'
           /\ obj' = obj => ObjOK'
           /\ op' = op => OpOK'
           /\ drive' = drive => DriveOK'
           /\ reap' = reap => ReapOK'
           /\ UNCHANGED <<recovers, born, map, retry, lost>> => FlagOK'
           /\ UNCHANGED <<revoked, given>> => TokOK'
           /\ UNCHANGED <<attempts, crashes, losses>> => CountOK'
           /\ Call => FaultOK'
<1>1. (row' = row => RowOK') /\ (obj' = obj => ObjOK')
  BY DEF TypeInv, RowOK, ObjOK
<1>2. (op' = op => OpOK') /\ (drive' = drive => DriveOK') /\ (reap' = reap => ReapOK')
  BY DEF TypeInv, OpOK, DriveOK, ReapOK, MayMint
<1>3. /\ UNCHANGED <<recovers, born, map, retry, lost>> => FlagOK'
      /\ UNCHANGED <<revoked, given>> => TokOK'
      /\ UNCHANGED <<attempts, crashes, losses>> => CountOK'
  BY DEF TypeInv, FlagOK, TokOK, CountOK
<1>4. Call => FaultOK'
  BY FaultsTyped DEF TypeInv
<1> QED
  BY <1>1, <1>2, <1>3, <1>4

\* A handler that goes on keeps what it carries.
LEMMA Went ==
    ASSUME OpOK, minted' = minted, NEW step \in Steps, Goto(step)
    PROVE  /\ op' = [at |-> step, token |-> op.token, previous |-> op.previous, read |-> op.read]
           /\ op'.at = step
           /\ step \notin {"write", "project", "recreate", "push", "mint", "attempt", "repush", "remint"} => OpOK'
           /\ step \in {"mint", "repush", "remint"} /\ MayMint => OpOK'
<1>1. op' = [at |-> step, token |-> op.token, previous |-> op.previous, read |-> op.read]
  BY Zenon DEF Goto, OpOK, Handlers
<1> QED
  BY <1>1 DEF OpOK, Handlers, MayMint

\* A process that has just begun has a handler and a create with nothing in them.
LEMMA Blank ==
    /\ Idle \in Handlers /\ Idle.at = "idle" /\ Idle.token = 0 /\ Idle.previous = 0
    /\ NoDrive \in Drives /\ NoDrive.at = "none" /\ NoDrive.token = 0 /\ NoDrive.previous = 0
<1>1. NoToken \in Tokens /\ NoToken = 0
  BY LifecycleAssumption DEF Tokens, NoToken
<1>2. "idle" \in Steps /\ "None" \in Reads
  BY DEF Steps, Reads
<1>3. Idle \in Handlers
  BY <1>1, <1>2, Zenon DEF Idle, Handlers
<1>4. "none" \in {"none", "create", "inspect", "settle"} /\ TRUE \in BOOLEAN
  OBVIOUS
<1>5. NoDrive \in Drives
  BY <1>1, <1>2, <1>4, Zenon DEF NoDrive, Drives
<1>6. Idle.at = "idle" /\ Idle.token = 0 /\ Idle.previous = 0
  BY <1>1 DEF Idle
<1>7. NoDrive.at = "none" /\ NoDrive.token = 0 /\ NoDrive.previous = 0
  BY <1>1 DEF NoDrive
<1> QED
  BY <1>3, <1>5, <1>6, <1>7

\* A handler that returns releases the lock.
LEMMA Returned ==
    ASSUME TokOK, minted' = minted, Done
    PROVE  OpOK' /\ op'.at = "idle"
<1>1. op' = Idle /\ minted' \in Nat
  BY LifecycleAssumption DEF Done, TokOK
<1>2. op' \in Handlers /\ op'.at = "idle" /\ op'.token = 0 /\ op'.previous = 0
  BY <1>1, Blank
<1>3. op'.token \in 0..minted' /\ op'.previous \in 0..minted'
  BY <1>1, <1>2
<1> QED
  BY <1>2, <1>3 DEF OpOK

\* A row written with known fields is a row of the store.
LEMMA RowWritten ==
    ASSUME TokOK, minted' = minted,
           NEW p \in Phases, NEW s \in BOOLEAN, NEW q \in Reasons, NEW t \in 0..minted,
           row' = [phase |-> p, sched |-> s, reason |-> q, token |-> t]
    PROVE  RowOK' /\ row'.phase = p /\ row'.sched = s
BY LifecycleAssumption DEF TokOK, RowOK, Rows, Tokens, NoToken

\* So is a handler's record.
LEMMA OpWritten ==
    ASSUME minted' \in 0..MaxTokens, NEW step \in Steps, NEW t \in 0..minted', NEW u \in 0..minted', NEW r \in Reads,
           op' = [at |-> step, token |-> t, previous |-> u, read |-> r],
           step \in {"write", "project", "recreate"} => t # NoToken,
           step \in {"push", "mint", "attempt", "repush", "remint"} => MayMint'
    PROVE  OpOK' /\ op'.at = step
BY LifecycleAssumption DEF OpOK, Handlers, Tokens, NoToken

\* Minting keeps the type of everything that names a token.
LEMMA Grown ==
    ASSUME TypeInv, minted < MaxTokens, minted' = minted + 1, revoked' = revoked, given' = given
    PROVE  /\ TokOK'
           /\ row' = row => RowOK'
           /\ obj' = obj => ObjOK'
           /\ drive' = drive => DriveOK'
<1>1. minted' \in 0..MaxTokens /\ minted \in Nat /\ minted' \in Nat /\ 0..minted \subseteq 0..minted' /\ 1..minted \subseteq 1..minted'
  BY LifecycleAssumption DEF TypeInv, TokOK
<1> QED
  BY <1>1 DEF TypeInv, TokOK, RowOK, ObjOK, DriveOK

\* A row that is given another token changes nothing else.
LEMMA RowToken ==
    ASSUME RowOK, TokOK, minted' = minted, row \in Rows, NEW t \in 0..minted, row' = [row EXCEPT !.token = t]
    PROVE  RowOK' /\ row'.phase = row.phase /\ row'.sched = row.sched
<1>1. row' = [phase |-> row.phase, sched |-> row.sched, reason |-> row.reason, token |-> t]
  BY Zenon DEF Rows
<1>2. row.phase \in Phases /\ row.sched \in BOOLEAN /\ row.reason \in Reasons
  BY DEF Rows
<1> QED
  BY <1>1, <1>2, RowWritten

\* A row whose phase, reason and token are written keeps the rest.
LEMMA RowPhase ==
    ASSUME TokOK, minted' = minted, row \in Rows,
           NEW p \in Phases, NEW q \in Reasons, NEW t \in 0..minted,
           row' = [row EXCEPT !.phase = p, !.reason = q, !.token = t]
    PROVE  RowOK' /\ row'.phase = p /\ row'.sched = row.sched
<1>1. row' = [phase |-> p, sched |-> row.sched, reason |-> q, token |-> t]
  BY Zenon DEF Rows
<1> QED
  BY <1>1, RowWritten DEF Rows

\* An object the driver reports with a known state and token is typed.
LEMMA ObjWritten ==
    ASSUME TokOK', NEW s \in DriverStates, NEW t \in 0..minted', obj' = [state |-> s, token |-> t]
    PROVE  ObjOK'
BY LifecycleAssumption DEF TokOK, ObjOK, Objects, Tokens, NoToken

\* No object is a state of the driver's too.
LEMMA ObjGone == ASSUME TokOK', obj' = NoObj PROVE ObjOK'
BY DEF TokOK, ObjOK, NoObj, NoToken

\* The driver's create in flight keeps the identities it carries.
LEMMA DriveWent ==
    ASSUME DriveOK, minted' = minted, NEW step \in {"inspect", "settle"}, NEW c \in BOOLEAN, NEW r \in Reads,
           drive' = [at |-> step, token |-> drive.token, previous |-> drive.previous, created |-> c, read |-> r]
    PROVE  DriveOK' /\ drive'.at = step
BY DEF DriveOK, Drives

\* What the driver's create answered is kept for settleCreate.
LEMMA DriveSettles ==
    ASSUME DriveOK, minted' = minted, NEW c \in BOOLEAN, NEW r \in Reads, DriveAnswered(c, r)
    PROVE  DriveOK' /\ drive'.at = "settle"
<1>1. drive' = [at |-> "settle", token |-> drive.token, previous |-> drive.previous, created |-> c, read |-> r]
  BY Zenon DEF DriveAnswered, DriveOK, Drives
<1> QED
  BY <1>1, DriveWent

\* The driver's object is there exactly when it has a state, and is then typed.
LEMMA MadeState ==
    ASSUME ObjOK
    PROVE  /\ obj.state \in Reads /\ obj.token \in 0..minted
           /\ Made => obj \in Objects /\ obj.state \in DriverStates
           /\ obj.state # "None" => Made
<1>1. CASE obj = NoObj
  BY <1>1 DEF Made, NoObj, Reads, ObjOK
<1>2. CASE obj \in Objects
  <2>1. obj.state \in DriverStates /\ NoObj.state = "None" /\ "None" \notin DriverStates
    BY <1>2 DEF Objects, DriverStates, NoObj
  <2> QED
    BY <1>2, <2>1 DEF Made, Reads, ObjOK
<1> QED
  BY <1>1, <1>2 DEF ObjOK

\* Projecting a token into the workload, or changing its state, changes nothing else of it.
LEMMA ObjChanged ==
    ASSUME ObjOK, TokOK', minted' = minted, Made
    PROVE  /\ \A t \in 0..minted : obj' = [obj EXCEPT !.token = t] => ObjOK'
           /\ \A s \in DriverStates : obj' = [obj EXCEPT !.state = s] => ObjOK'
<1>1. obj \in Objects /\ obj.state \in DriverStates /\ obj.token \in 0..minted
  BY MadeState
<1>2. ASSUME NEW t \in 0..minted, obj' = [obj EXCEPT !.token = t] PROVE ObjOK'
  <2>1. obj' = [state |-> obj.state, token |-> t]
    BY <1>1, <1>2, Zenon DEF Objects
  <2> QED
    BY <1>1, <2>1, ObjWritten
<1>3. ASSUME NEW s \in DriverStates, obj' = [obj EXCEPT !.state = s] PROVE ObjOK'
  <2>1. obj' = [state |-> s, token |-> obj.token]
    BY <1>1, <1>3, Zenon DEF Objects
  <2> QED
    BY <1>1, <2>1, ObjWritten
<1> QED
  BY <1>2, <1>3

\* A handler that begins carries what it is given.
LEMMA Began ==
    ASSUME TokOK, minted' = minted, NEW step \in Steps, NEW t \in 0..minted,
           op' = [Idle EXCEPT !.at = step, !.token = t],
           step \notin {"write", "project", "recreate", "push", "mint", "attempt", "repush", "remint"}
    PROVE  OpOK' /\ op'.at = step
<1>1. op' = [at |-> step, token |-> t, previous |-> NoToken, read |-> "None"]
  BY DEF Idle
<1>2. minted' \in 0..MaxTokens /\ NoToken \in 0..minted' /\ t \in 0..minted' /\ "None" \in Reads
  BY DEF TokOK, NoToken, Reads
<1> QED
  BY <1>1, <1>2, OpWritten

\* The same of one that carries nothing.
LEMMA BeganBare ==
    ASSUME TokOK, minted' = minted, NEW step \in Steps, op' = [Idle EXCEPT !.at = step],
           step \notin {"write", "project", "recreate", "push", "mint", "repush", "remint"},
           step = "attempt" => MayMint
    PROVE  OpOK' /\ op'.at = step
<1>1. op' = [at |-> step, token |-> NoToken, previous |-> NoToken, read |-> "None"]
  BY DEF Idle
<1>2. minted' \in 0..MaxTokens /\ NoToken \in 0..minted' /\ "None" \in Reads /\ (MayMint => MayMint')
  BY DEF TokOK, NoToken, Reads, MayMint
<1> QED
  BY <1>1, <1>2, OpWritten

\* What a reader is answered: a delete and a create in hand stand, and nothing
\* else reads as a delete.
LEMMA ReadPhase ==
    ASSUME ObjOK, row \in Rows
    PROVE  /\ readPhase(row) \in Phases
           /\ readPhase(row) = "Deleting" <=> row.phase = "Deleting"
           /\ row.phase = "Pending" /\ ~row.sched => readPhase(row) = "Pending"
<1>1. row.phase \in Phases /\ (Made => obj.state \in DriverStates)
  BY MadeState DEF Rows
<1>2. DriverStates \subseteq Phases /\ "Deleting" \notin DriverStates /\ "Lost" \in Phases
  BY DEF DriverStates, Phases
<1> QED
  BY <1>1, <1>2 DEF readPhase

\* refresh changes the phase and the reason alone.
LEMMA Refreshed ==
    ASSUME row \in Rows
    PROVE  \E q \in Reasons : refresh(row) = [phase |-> readPhase(row), sched |-> row.sched,
                                              reason |-> q, token |-> row.token]
<1>1. PICK q \in Reasons : refresh(row) = [row EXCEPT !.phase = readPhase(row), !.reason = q]
  <2>1. row.reason \in Reasons /\ "" \in Reasons
    BY DEF Rows, Reasons
  <2> QED
    BY <2>1 DEF refresh
<1>2. ASSUME NEW r, NEW p, r = [row EXCEPT !.phase = p, !.reason = q]
      PROVE  r = [phase |-> p, sched |-> row.sched, reason |-> q, token |-> row.token]
  BY <1>2, Zenon DEF Rows
<1> QED
  BY <1>1, <1>2

\* A row whose phase and reason are written keeps the rest.
LEMMA RowMarked ==
    ASSUME RowOK, TokOK, minted' = minted, row \in Rows, NEW p \in Phases, NEW q \in Reasons,
           row' = [row EXCEPT !.phase = p, !.reason = q]
    PROVE  RowOK' /\ row'.phase = p /\ row'.sched = row.sched
<1>1. row' = [phase |-> p, sched |-> row.sched, reason |-> q, token |-> row.token]
  BY Zenon DEF Rows
<1>2. row.sched \in BOOLEAN /\ row.token \in 0..minted
  BY DEF Rows, RowOK
<1> QED
  BY <1>1, <1>2, RowWritten

\* Deleting is written over any phase, and the delete begins, or the write is
\* refused and nothing changes.
LEMMA Intended ==
    ASSUME TypeInv, minted' = minted, Held, IntendDelete
    PROVE  /\ RowOK' /\ OpOK' /\ Call
           /\ \/ row' = row /\ op' = op
              \/ row'.phase = "Deleting" /\ row'.sched = row.sched /\ op'.at = "delete"
<1>1. row \in Rows /\ row.token \in 0..minted /\ Call
  BY HeldPhase DEF TypeInv, RowOK, IntendDelete, Call, FaultKinds
<1>2. CASE row' = [row EXCEPT !.phase = "Deleting"] /\ op' = [Idle EXCEPT !.at = "delete", !.token = row.token]
  <2>1. row' = [phase |-> "Deleting", sched |-> row.sched, reason |-> row.reason, token |-> row.token]
    BY <1>1, <1>2, Zenon DEF Rows
  <2>2. RowOK' /\ row'.phase = "Deleting" /\ row'.sched = row.sched
    BY <1>1, <2>1, RowWritten DEF Rows, Phases, TypeInv
  <2>3. OpOK' /\ op'.at = "delete"
    BY <1>1, <1>2, Began DEF TypeInv, Steps
  <2> QED
    BY <1>1, <2>2, <2>3
<1>3. CASE UNCHANGED <<row, op>>
  BY <1>1, <1>3, Still
<1> QED
  BY <1>2, <1>3 DEF IntendDelete

\* The pass goes on with the list it read, or ends.
LEMMA PassWent ==
    ASSUME ReapOK, (\E step \in {"finish", "vanished", "lost"} : NextRule(step)) \/ reap' = NoPass
    PROVE  ReapOK'
<1>1. CASE reap' = NoPass
  BY <1>1 DEF ReapOK, Passes, NoPass
<1>2. ASSUME NEW step \in {"finish", "vanished", "lost"}, NextRule(step) PROVE ReapOK'
  <2>1. reap' = [at |-> step, seen |-> reap.seen, cut |-> reap.cut]
    BY <1>2, Zenon DEF NextRule, ReapOK, Passes
  <2> QED
    BY <2>1 DEF ReapOK, Passes
<1> QED
  BY <1>1, <1>2

\* A row that goes is no row of the store.
LEMMA RowGone ==
    ASSUME TokOK, minted' = minted, row' = NoRow
    PROVE  RowOK' /\ row'.phase = "None" /\ ~row'.sched
<1>1. NoRow.phase = "None" /\ ~NoRow.sched /\ NoRow.token = 0
  BY DEF NoRow, NoToken
<1>2. 0 \in 0..minted'
  BY DEF TokOK
<1> QED
  BY <1>1, <1>2 DEF RowOK

-----------------------------------------------------------------------------
(* The create. *)

\* Create writes the row once, and nothing is held for it yet.
LEMMA CreateKeeps == ASSUME IInv, Create PROVE IInv'
<1>1. /\ UNCHANGED <<obj, map, minted, revoked, given, op, drive, reap, attempts, retry, lost, recovers, crashes, losses>>
      /\ Call /\ op.at = "idle" /\ ~born /\ born' = TRUE
  BY DEF Create, Free, identity, recovery, bounds, Call
<1>2. RowOK' /\ row'.phase = "Pending" /\ row'.sched = FALSE
  <2>1. "Pending" \in Phases /\ "" \in Reasons /\ NoToken \in 0..minted
    BY DEF IInv, TypeInv, TokOK, Phases, Reasons, NoToken
  <2> QED
    BY <1>1, <2>1, RowWritten DEF IInv, TypeInv, Create
<1>3. FlagOK'
  BY <1>1 DEF IInv, TypeInv, FlagOK
<1>4. TypeInv'
  BY <1>1, <1>2, <1>3, Still DEF IInv, TypeInv
<1>5. LockInv'
  BY <1>1, <1>2 DEF IInv, LockInv
<1> QED
  BY <1>4, <1>5 DEF IInv

\* realize takes a row that is placed and that nobody drives.
LEMMA RealizeBeginKeeps == ASSUME IInv, RealizeBegin PROVE IInv'
<1>1. /\ UNCHANGED <<row, born, obj, map, minted, revoked, given, drive, reap, attempts, retry, lost, recovers, crashes, losses>>
      /\ Call /\ Held /\ row.phase = "Pending" /\ ~row.sched /\ drive.at = "none" /\ MayMint
  BY DEF RealizeBegin, placed, realizing, identity, recovery, bounds, Call, FaultKinds
<1>2. OpOK' /\ op'.at \in {"push", "revoking"}
  <2>1. /\ row.token \in 0..minted /\ NoToken \in 0..minted /\ "None" \in Reads /\ minted' \in 0..MaxTokens
        /\ MayMint' /\ {"push", "revoking"} \subseteq Steps
    BY <1>1 DEF IInv, TypeInv, RowOK, TokOK, NoToken, Reads, MayMint, Steps
  <2>2. PICK step \in {"push", "revoking"} :
            op' = [at |-> step, token |-> NoToken, previous |-> row.token, read |-> "None"]
    BY DEF RealizeBegin, Idle
  <2> QED
    BY <1>1, <2>1, <2>2, OpWritten
<1>3. TypeInv'
  BY <1>1, <1>2, Still DEF IInv, TypeInv
<1>4. LockInv'
  BY <1>1, <1>2 DEF IInv, LockInv
<1> QED
  BY <1>3, <1>4 DEF IInv

\* The hub keeps the map whatever the gateways answer.
LEMMA RealizePushKeeps == ASSUME IInv, RealizePush PROVE IInv'
<1>1. /\ UNCHANGED <<row, born, obj, minted, revoked, given, drive, reap, attempts, retry, lost, recovers, crashes, losses>>
      /\ Call /\ op.at = "push" /\ map' = TRUE
  BY DEF RealizePush, At, identity, recovery, bounds, Call, FaultKinds
<1>2. OpOK' /\ op'.at \in {"mint", "hold", "failing"}
  BY <1>1, Went DEF RealizePush, IInv, TypeInv, OpOK, Steps
<1>3. FlagOK'
  BY <1>1 DEF IInv, TypeInv, FlagOK
<1>4. TypeInv'
  BY <1>1, <1>2, <1>3, Still DEF IInv, TypeInv
<1>5. LockInv'
  BY <1>1, <1>2 DEF IInv, LockInv
<1> QED
  BY <1>4, <1>5 DEF IInv

\* A row held for want of a gateway goes back to what it was.
LEMMA RealizeHoldKeeps == ASSUME IInv, RealizeHold PROVE IInv'
<1>1. /\ UNCHANGED <<row, born, obj, minted, revoked, given, drive, reap, attempts, retry, lost, recovers, crashes, losses>>
      /\ Call /\ op.at = "hold" /\ map' = FALSE
  BY DEF RealizeHold, At, identity, recovery, bounds, Call
<1>2. OpOK' /\ op'.at = "idle"
  BY <1>1, Returned DEF RealizeHold, IInv, TypeInv
<1>3. FlagOK'
  BY <1>1 DEF IInv, TypeInv, FlagOK
<1>4. TypeInv'
  BY <1>1, <1>2, <1>3, Still DEF IInv, TypeInv
<1>5. LockInv'
  BY <1>1, <1>2 DEF IInv, LockInv
<1> QED
  BY <1>4, <1>5 DEF IInv

\* The identity is new: one more token than there were.
LEMMA RealizeMintKeeps == ASSUME IInv, RealizeMint PROVE IInv'
<1>1. /\ UNCHANGED <<row, born, obj, map, revoked, given, drive, reap, attempts, retry, lost, recovers, crashes, losses>>
      /\ Call /\ op.at = "mint"
  BY DEF RealizeMint, At, recovery, bounds, Call, FaultKinds
<1>2. minted \in 0..MaxTokens /\ minted < MaxTokens /\ op \in Handlers
  BY <1>1 DEF IInv, TypeInv, TokOK, OpOK, MayMint
<1>3. CASE op' = [op EXCEPT !.at = "write", !.token = minted + 1] /\ minted' = minted + 1
  <2>1. op' = [at |-> "write", token |-> minted + 1, previous |-> op.previous, read |-> op.read]
    BY <1>2, <1>3, Zenon DEF Handlers
  <2>2. OpOK' /\ op'.at = "write"
    BY <1>2, <1>3, <2>1, LifecycleAssumption DEF IInv, TypeInv, OpOK, Handlers, Tokens, NoToken, Steps
  <2>3. TokOK' /\ RowOK' /\ ObjOK' /\ DriveOK'
    BY <1>1, <1>2, <1>3, Grown DEF IInv
  <2>4. FaultOK' /\ ReapOK' /\ FlagOK' /\ CountOK'
    BY <1>1, FaultsTyped DEF IInv, TypeInv, ReapOK, FlagOK, CountOK
  <2>5. LockInv'
    BY <1>1, <2>2 DEF IInv, LockInv
  <2> QED
    BY <2>2, <2>3, <2>4, <2>5 DEF IInv, TypeInv
<1>4. CASE Goto("failing") /\ minted' = minted
  <2>1. OpOK' /\ op'.at = "failing"
    BY <1>4, Went DEF IInv, TypeInv, Steps
  <2> QED
    BY <1>1, <1>4, <2>1, Still DEF IInv, TypeInv, LockInv
<1> QED
  BY <1>3, <1>4 DEF RealizeMint

\* The row's token is the identity the driver's create is handed.
LEMMA RealizeWriteKeeps == ASSUME IInv, RealizeWrite PROVE IInv'
<1>1. /\ UNCHANGED <<born, obj, map, minted, revoked, given, reap, attempts, retry, lost, recovers, crashes, losses>>
      /\ Call /\ op.at = "write"
  BY DEF RealizeWrite, At, identity, recovery, bounds, Call, FaultKinds
<1>2. CASE row' = [row EXCEPT !.token = op.token] /\ Done
           /\ drive' = [NoDrive EXCEPT !.at = "create", !.token = op.token, !.previous = op.previous]
  <2>1. row \in Rows /\ op.token \in 0..minted /\ op.previous \in 0..minted /\ op.token # NoToken
    BY <1>1, HeldPhase DEF IInv, TypeInv, LockInv, OpOK
  <2>2. RowOK' /\ row'.phase = row.phase /\ row'.sched = row.sched
    BY <1>1, <1>2, <2>1, RowToken DEF IInv, TypeInv
  <2>3. DriveOK' /\ drive'.at = "create"
    <3>1. drive' = [at |-> "create", token |-> op.token, previous |-> op.previous, created |-> TRUE, read |-> "None"]
      BY <1>2 DEF NoDrive
    <3> QED
      BY <1>1, <2>1, <3>1, LifecycleAssumption DEF IInv, TypeInv, TokOK, DriveOK, Drives, Reads, Tokens, NoToken
  <2>4. OpOK' /\ op'.at = "idle"
    BY <1>1, <1>2, Returned DEF IInv, TypeInv
  <2>5. TypeInv'
    BY <1>1, <2>2, <2>3, <2>4, Still DEF IInv, TypeInv
  <2>6. LockInv'
    BY <1>1, <2>2, <2>3, <2>4 DEF IInv, LockInv
  <2> QED
    BY <2>5, <2>6 DEF IInv
<1>3. CASE Goto("undo") /\ UNCHANGED <<row, drive>>
  <2>1. OpOK' /\ op'.at = "undo"
    BY <1>1, <1>3, Went DEF IInv, TypeInv, Steps
  <2> QED
    BY <1>1, <1>3, <2>1, Still DEF IInv, TypeInv, LockInv
<1> QED
  BY <1>2, <1>3 DEF RealizeWrite

\* A create that cannot be written takes its map and its identity back.
LEMMA RealizeUndoKeeps == ASSUME IInv, RealizeUndo PROVE IInv'
<1>1. /\ UNCHANGED <<row, born, obj, minted, given, drive, reap, attempts, retry, lost, recovers, crashes, losses>>
      /\ op.at = "undo" /\ map' = FALSE
  BY DEF RealizeUndo, At, recovery, bounds
<1>2. TokOK' /\ Call
  <2>1. {op.token} \in SUBSET (0..minted)
    BY DEF IInv, TypeInv, OpOK
  <2> QED
    BY <1>1, <2>1, RevokeTyped DEF RealizeUndo, IInv, TypeInv
<1>3. OpOK' /\ op'.at = "idle"
  BY <1>1, Returned DEF RealizeUndo, IInv, TypeInv
<1>4. FlagOK'
  BY <1>1 DEF IInv, TypeInv, FlagOK
<1>5. TypeInv'
  BY <1>1, <1>2, <1>3, <1>4, Still DEF IInv, TypeInv
<1>6. LockInv'
  BY <1>1, <1>3 DEF IInv, LockInv
<1> QED
  BY <1>5, <1>6 DEF IInv

\* The map goes before the create is recorded as failed.
LEMMA FailPurgeKeeps == ASSUME IInv, FailPurge PROVE IInv'
<1>1. /\ UNCHANGED <<row, born, obj, minted, revoked, given, drive, reap, attempts, retry,
                     lost, recovers, crashes, losses>>
      /\ Call /\ op.at = "failing" /\ map' = FALSE
  BY DEF FailPurge, At, identity, recovery, bounds, Call
<1>2. OpOK' /\ op'.at = "revoking"
  BY <1>1, Went DEF FailPurge, IInv, TypeInv, Steps
<1>3. FlagOK'
  BY <1>1 DEF IInv, TypeInv, FlagOK
<1>4. TypeInv'
  BY <1>1, <1>2, <1>3, Still DEF IInv, TypeInv
<1>5. LockInv'
  BY <1>1, <1>2, <1>3 DEF IInv, LockInv
<1> QED
  BY <1>4, <1>5 DEF IInv

\* The identities of a failed create end; the row is untouched.
LEMMA FailRevokeKeeps == ASSUME IInv, FailRevoke PROVE IInv'
<1>1. /\ UNCHANGED <<row, born, obj, map, minted, given, drive, reap, attempts, retry, lost,
                     recovers, crashes, losses>>
      /\ op.at = "revoking"
  BY DEF FailRevoke, At, recovery, bounds
<1>2. TokOK' /\ Call
  <2>1. {op.token, op.previous} \in SUBSET (0..minted)
    BY DEF IInv, TypeInv, OpOK
  <2> QED
    BY <1>1, <2>1, RevokeTyped DEF FailRevoke, IInv, TypeInv
<1>3. OpOK' /\ op'.at = "failed"
  BY <1>1, Went DEF FailRevoke, IInv, TypeInv, Steps
<1>4. TypeInv'
  BY <1>1, <1>2, <1>3, Still DEF IInv, TypeInv
<1>5. LockInv'
  BY <1>1, <1>2, <1>3 DEF IInv, LockInv
<1> QED
  BY <1>4, <1>5 DEF IInv

\* The row of a failed create names no identity, or the write is refused.
LEMMA FailWriteKeeps == ASSUME IInv, FailWrite PROVE IInv'
<1>1. /\ UNCHANGED <<born, obj, map, minted, revoked, given, drive, reap, attempts, retry,
                     lost, recovers, crashes, losses>>
      /\ Call /\ op.at = "failed" /\ Done
  BY DEF FailWrite, At, identity, recovery, bounds, Call, FaultKinds
<1>2. OpOK' /\ op'.at = "idle"
  BY <1>1, Returned DEF FailWrite, IInv, TypeInv
<1>3. RowOK' /\ row'.sched = row.sched /\ row'.phase \in {row.phase, "Failed"}
  <2>1. row \in Rows /\ "Failed" \in Phases /\ "CreateFailed" \in Reasons /\ NoToken \in 0..minted
    BY <1>1, HeldPhase DEF IInv, TypeInv, LockInv, TokOK, NoToken, Phases, Reasons, unstartedFailures
  <2>2. CASE row' = [row EXCEPT !.phase = "Failed", !.reason = "CreateFailed", !.token = NoToken]
    BY <1>1, <2>1, <2>2, RowPhase DEF IInv, TypeInv
  <2>3. CASE row' = row
    BY <1>1, <2>3, Still DEF IInv
  <2> QED
    BY <2>2, <2>3 DEF FailWrite
<1>4. TypeInv'
  BY <1>1, <1>2, <1>3, Still DEF IInv, TypeInv
<1>5. LockInv'
  BY <1>1, <1>2, <1>3 DEF IInv, LockInv
<1> QED
  BY <1>4, <1>5 DEF IInv

-----------------------------------------------------------------------------
(* The driver's create and what settles it. *)

\* The driver's create touches the object and what was projected, not the row.
LEMMA DriveCreateKeeps == ASSUME IInv, DriveCreate PROVE IInv'
<1>1. /\ UNCHANGED <<row, born, map, minted, revoked, op, reap, attempts, retry, lost,
                     recovers, crashes, losses>>
      /\ Call /\ drive.at = "create"
  BY DEF DriveCreate, recovery, bounds, Call, FaultKinds
<1>2. drive.token \in 0..minted /\ drive.token # NoToken
  BY <1>1 DEF IInv, TypeInv, DriveOK
<1>3. TokOK'
  <2>1. given' \subseteq given \cup {drive.token}
    BY DEF DriveCreate
  <2> QED
    BY <1>1, <1>2, <2>1 DEF IInv, TypeInv, TokOK, NoToken
<1>4. ObjOK'
  <2>1. /\ Made => obj.state \in DriverStates
        /\ {"Pending", "Running"} \subseteq DriverStates /\ drive.token \in 0..minted'
    BY <1>1, <1>2, MadeState DEF IInv, TypeInv, DriverStates
  <2>2. \/ obj' = obj
        \/ Made /\ obj' = [obj EXCEPT !.token = drive.token]
        \/ \E s \in DriverStates : obj' = [state |-> s, token |-> drive.token]
    <3>1. CASE \E s \in {"Pending", "Running"} : obj' = [state |-> s, token |-> drive.token]
      BY <2>1, <3>1
    <3>2. CASE ~Made /\ obj' \in [state : {"Pending", "Running"}, token : {drive.token}]
      <4>1. obj' = [state |-> obj'.state, token |-> obj'.token] /\ obj'.state \in {"Pending", "Running"} /\ obj'.token = drive.token
        BY <3>2
      <4> QED
        BY <2>1, <4>1
    <3>3. CASE obj' = [state |-> IF Made THEN obj.state ELSE "Running", token |-> drive.token]
      BY <2>1, <3>3
    <3> QED
      BY <3>1, <3>2, <3>3 DEF DriveCreate
  <2> QED
    BY <1>1, <1>2, <1>3, <2>1, <2>2, ObjChanged, ObjWritten, Still DEF IInv, TypeInv
<1>5. DriveOK' /\ drive'.at \in {"inspect", "settle"}
  <2>1. CASE drive' = [drive EXCEPT !.at = "inspect"]
    <3>1. drive' = [at |-> "inspect", token |-> drive.token, previous |-> drive.previous,
                    created |-> drive.created, read |-> drive.read]
      BY <2>1, Zenon DEF IInv, TypeInv, DriveOK, Drives
    <3>2. drive.created \in BOOLEAN /\ drive.read \in Reads
      BY DEF IInv, TypeInv, DriveOK, Drives
    <3> QED
      BY <1>1, <3>1, <3>2, DriveWent DEF IInv, TypeInv
  <2>2. CASE DriveAnswered(FALSE, "None")
    BY <1>1, <2>2, DriveSettles DEF IInv, TypeInv, Reads
  <2> QED
    BY <2>1, <2>2 DEF DriveCreate
<1>6. TypeInv'
  BY <1>1, <1>2, <1>3, <1>4, <1>5, Still DEF IInv, TypeInv
<1>7. LockInv'
  BY <1>1, <1>2, <1>3, <1>4, <1>5 DEF IInv, LockInv
<1> QED
  BY <1>6, <1>7 DEF IInv

\* The first read of the object is the driver's state or nothing.
LEMMA DriveInspectKeeps == ASSUME IInv, DriveInspect PROVE IInv'
<1>1. /\ UNCHANGED <<row, born, obj, map, minted, revoked, given, op, reap, attempts, retry,
                     lost, recovers, crashes, losses>>
      /\ Call /\ drive.at = "inspect"
  BY DEF DriveInspect, identity, recovery, bounds, Call, FaultKinds
<1>2. DriveOK' /\ drive'.at = "settle"
  <2>1. obj.state \in Reads /\ "None" \in Reads
    BY MadeState DEF IInv, TypeInv, Reads
  <2> QED
    BY <1>1, <2>1, DriveSettles DEF DriveInspect, IInv, TypeInv
<1>3. TypeInv'
  BY <1>1, <1>2, Still DEF IInv, TypeInv
<1>4. LockInv'
  BY <1>1, <1>2 DEF IInv, LockInv
<1> QED
  BY <1>3, <1>4 DEF IInv

\* settleCreate reads the row again and goes where it stands now.
LEMMA SettleKeeps == ASSUME IInv, Settle PROVE IInv'
<1>1. /\ UNCHANGED <<row, born, obj, map, minted, revoked, given, reap, attempts, retry, lost,
                     recovers, crashes, losses>>
      /\ Call /\ op.at = "idle" /\ drive.at = "settle" /\ drive' = NoDrive
  BY DEF Settle, Free, identity, recovery, bounds, Call
<1>2. DriveOK' /\ drive'.at = "none"
  BY <1>1, LifecycleAssumption DEF IInv, TypeInv, TokOK, DriveOK, NoDrive, Drives, Reads, Tokens, NoToken
<1>3. /\ OpOK'
      /\ \/ op'.at = "unmake" /\ row.phase = "None"
         \/ op'.at = "idle"
         \/ op'.at = "failing" /\ row.phase \notin {"None", "Deleting"}
         \/ op'.at = "settled" /\ row.phase \notin {"None", "Deleting"}
  <2>1. /\ minted' \in 0..MaxTokens /\ drive.token \in 0..minted' /\ drive.previous \in 0..minted' /\ drive.read \in Reads
        /\ {"unmake", "failing", "settled"} \subseteq Steps
        /\ Held <=> row.phase # "None"
    BY <1>1, HeldPhase DEF IInv, TypeInv, TokOK, DriveOK, Drives, Steps
  <2>2. ASSUME NEW step \in {"unmake", "failing", "settled"},
               op' = [at |-> step, token |-> drive.token, previous |-> drive.previous, read |-> drive.read]
        PROVE  OpOK' /\ op'.at = step
    BY <2>1, <2>2, OpWritten
  <2>3. op' = op => OpOK' /\ op'.at = "idle"
    BY <1>1, Still DEF IInv
  <2> QED
    BY <2>1, <2>2, <2>3 DEF Settle
<1>4. TypeInv'
  BY <1>1, <1>2, <1>3, Still DEF IInv, TypeInv
<1>5. LockInv'
  BY <1>1, <1>2, <1>3 DEF IInv, LockInv
<1> QED
  BY <1>4, <1>5 DEF IInv

\* What a create made for a row that went is removed from the driver.
LEMMA SettleUnmakeKeeps == ASSUME IInv, SettleUnmake PROVE IInv'
<1>1. /\ UNCHANGED <<row, born, map, minted, revoked, given, drive, reap, attempts, retry,
                     lost, recovers, crashes, losses>>
      /\ Call /\ op.at = "unmake"
  BY DEF SettleUnmake, At, identity, recovery, bounds, Call, FaultKinds
<1>2. OpOK' /\ op'.at = "unmade"
  BY <1>1, Went DEF SettleUnmake, IInv, TypeInv, Steps
<1>3. ObjOK'
  BY <1>1, ObjGone, Still DEF SettleUnmake, IInv, TypeInv
<1>4. TypeInv'
  BY <1>1, <1>2, <1>3, Still DEF IInv, TypeInv
<1>5. LockInv'
  BY <1>1, <1>2, <1>3 DEF IInv, LockInv
<1> QED
  BY <1>4, <1>5 DEF IInv

\* Its map and its identities go with it.
LEMMA SettleUnmadeKeeps == ASSUME IInv, SettleUnmade PROVE IInv'
<1>1. /\ UNCHANGED <<row, born, obj, minted, given, drive, reap, attempts, retry, lost,
                     recovers, crashes, losses>>
      /\ op.at = "unmade" /\ map' = FALSE
  BY DEF SettleUnmade, At, recovery, bounds
<1>2. TokOK' /\ Call
  <2>1. {op.token, op.previous} \in SUBSET (0..minted)
    BY DEF IInv, TypeInv, OpOK
  <2> QED
    BY <1>1, <2>1, RevokeTyped DEF SettleUnmade, IInv, TypeInv
<1>3. OpOK' /\ op'.at = "idle"
  BY <1>1, Returned DEF SettleUnmade, IInv, TypeInv
<1>4. FlagOK'
  BY <1>1 DEF IInv, TypeInv, FlagOK
<1>5. TypeInv'
  BY <1>1, <1>2, <1>3, <1>4, Still DEF IInv, TypeInv
<1>6. LockInv'
  BY <1>1, <1>2, <1>3, <1>4 DEF IInv, LockInv
<1> QED
  BY <1>5, <1>6 DEF IInv

\* Scheduled is written with the map held.
LEMMA SettleWriteKeeps == ASSUME IInv, SettleWrite PROVE IInv'
<1>1. /\ UNCHANGED <<born, obj, map, minted, revoked, given, drive, reap, attempts, retry,
                     lost, recovers, crashes, losses>>
      /\ Call /\ op.at = "settled"
  BY DEF SettleWrite, At, identity, recovery, bounds, Call, FaultKinds
<1>2. OpOK' /\ op'.at = "endPrevious"
  BY <1>1, Went DEF SettleWrite, IInv, TypeInv, Steps
<1>3. RowOK' /\ (row' = row \/ row'.phase \in DriverStates)
  <2>1. /\ row \in Rows /\ "" \in Reasons /\ op.read \in Reads /\ row.token \in 0..minted
        /\ DriverStates \subseteq Phases /\ "Pending" \in DriverStates
    BY <1>1, HeldPhase DEF IInv, TypeInv, LockInv, RowOK, Phases, Reasons, DriverStates, OpOK, Handlers
  <2>2. CASE row' = [row EXCEPT !.sched = TRUE, !.phase = IF op.read = "None" THEN "Pending" ELSE op.read,
                                !.reason = ""]
    <3>1. PICK p \in DriverStates : row' = [row EXCEPT !.sched = TRUE, !.phase = p, !.reason = ""]
      BY <2>1, <2>2 DEF Reads
    <3>2. row' = [phase |-> p, sched |-> TRUE, reason |-> "", token |-> row.token]
      BY <2>1, <3>1, Zenon DEF Rows
    <3> QED
      BY <1>1, <2>1, <3>2, RowWritten DEF IInv, TypeInv
  <2>3. CASE row' = row
    BY <1>1, <2>3, Still DEF IInv
  <2> QED
    BY <2>2, <2>3 DEF SettleWrite
<1>4. row'.phase \in {row.phase, "Pending", "Running", "Stopped", "Failed"} /\ row'.phase # "Deleting"
  BY <1>1, <1>3 DEF DriverStates, IInv, LockInv
<1>5. TypeInv'
  BY <1>1, <1>2, <1>3, <1>4, Still DEF IInv, TypeInv
<1>6. LockInv'
  BY <1>1, <1>2, <1>3, <1>4 DEF IInv, LockInv
<1> QED
  BY <1>5, <1>6 DEF IInv

\* The replaced identity ends, the handler returns.
LEMMA EndPreviousKeeps == ASSUME IInv, EndPrevious PROVE IInv'
<1>1. /\ UNCHANGED <<row, born, obj, map, minted, given, drive, reap, attempts, retry, lost,
                     recovers, crashes, losses>>
      /\ op.at = "endPrevious"
  BY DEF EndPrevious, At, recovery, bounds
<1>2. TokOK' /\ Call
  <2>1. {op.previous} \in SUBSET (0..minted)
    BY DEF IInv, TypeInv, OpOK
  <2> QED
    BY <1>1, <2>1, RevokeTyped DEF EndPrevious, IInv, TypeInv
<1>3. OpOK' /\ op'.at = "idle"
  BY <1>1, Returned DEF EndPrevious, IInv, TypeInv
<1>4. TypeInv'
  BY <1>1, <1>2, <1>3, Still DEF IInv, TypeInv
<1>5. LockInv'
  BY <1>1, <1>2, <1>3 DEF IInv, LockInv
<1> QED
  BY <1>4, <1>5 DEF IInv

\* The identity that was not taken ends, the handler returns.
LEMMA EndNewKeeps == ASSUME IInv, EndNew PROVE IInv'
<1>1. /\ UNCHANGED <<row, born, obj, map, minted, given, drive, reap, attempts, retry, lost,
                     recovers, crashes, losses>>
      /\ op.at = "endNew"
  BY DEF EndNew, At, recovery, bounds
<1>2. TokOK' /\ Call
  <2>1. {op.token} \in SUBSET (0..minted)
    BY DEF IInv, TypeInv, OpOK
  <2> QED
    BY <1>1, <2>1, RevokeTyped DEF EndNew, IInv, TypeInv
<1>3. OpOK' /\ op'.at = "idle"
  BY <1>1, Returned DEF EndNew, IInv, TypeInv
<1>4. TypeInv'
  BY <1>1, <1>2, <1>3, Still DEF IInv, TypeInv
<1>5. LockInv'
  BY <1>1, <1>2, <1>3 DEF IInv, LockInv
<1> QED
  BY <1>4, <1>5 DEF IInv

-----------------------------------------------------------------------------
(* Start, stop and delete. *)

\* Start crosses no create in flight and reads a row that is there.
LEMMA StartKeeps == ASSUME IInv, Start PROVE IInv'
<1>1. /\ UNCHANGED <<row, born, map, minted, revoked, given, drive, reap, attempts, retry,
                     lost, recovers, crashes, losses>>
      /\ Call /\ Made /\ row.phase # "Deleting" /\ Held /\ drive.at = "none"
  BY DEF Start, creating, realizing, Calls, identity, recovery, bounds, Call, FaultKinds
<1>2. ObjOK'
  <2>1. TokOK' /\ "Running" \in DriverStates
    BY <1>1, Still DEF IInv, DriverStates
  <2> QED
    BY <1>1, <2>1, ObjChanged, Still DEF Start, Calls, IInv, TypeInv
<1>3. OpOK' /\ (op' = op \/ op'.at = "started")
  BY <1>1, BeganBare, Still DEF Start, Calls, IInv, TypeInv, Steps
<1>4. row.phase # "None"
  BY <1>1, HeldPhase DEF IInv, TypeInv
<1>5. TypeInv'
  BY <1>1, <1>2, <1>3, <1>4, Still DEF IInv, TypeInv
<1>6. LockInv'
  BY <1>1, <1>2, <1>3, <1>4 DEF IInv, LockInv
<1> QED
  BY <1>5, <1>6 DEF IInv

\* The record of a start keeps what was scheduled.
LEMMA StartWriteKeeps == ASSUME IInv, StartWrite PROVE IInv'
<1>1. /\ UNCHANGED <<born, obj, map, minted, revoked, given, drive, reap, attempts, retry,
                     lost, recovers, crashes, losses>>
      /\ Call /\ op.at = "started"
  BY DEF StartWrite, At, identity, recovery, bounds, Call, FaultKinds
<1>2. row \in Rows /\ row.phase # "None"
  BY <1>1, HeldPhase DEF IInv, TypeInv, LockInv
<1>3. OpOK' /\ op'.at \in {"idle", "unstart"}
  BY <1>1, Returned, Went DEF StartWrite, IInv, TypeInv, Steps
<1>4. /\ RowOK' /\ row'.sched = row.sched /\ row'.phase # "None"
      /\ row'.phase = "Deleting" => row.phase = "Deleting"
  <2>1. CASE row' = [row EXCEPT !.phase = "Starting", !.reason = ""]
    <3>1. "Starting" \in Phases /\ "" \in Reasons
      BY DEF Phases, Reasons
    <3> QED
      BY <1>1, <1>2, <2>1, <3>1, RowMarked DEF IInv, TypeInv
  <2>2. CASE row' = refresh(row)
    <3>1. PICK q \in Reasons : row' = [phase |-> readPhase(row), sched |-> row.sched, reason |-> q, token |-> row.token]
      BY <1>2, <2>2, Refreshed
    <3>2. readPhase(row) \in Phases /\ (readPhase(row) = "Deleting" <=> row.phase = "Deleting")
      BY <1>2, ReadPhase DEF IInv, TypeInv
    <3>3. row.sched \in BOOLEAN /\ row.token \in 0..minted
      BY <1>2 DEF Rows, IInv, TypeInv, RowOK
    <3>4. RowOK' /\ row'.phase = readPhase(row) /\ row'.sched = row.sched
      BY <1>1, <3>1, <3>2, <3>3, RowWritten DEF IInv, TypeInv
    <3> QED
      BY <3>2, <3>4 DEF Phases
  <2>3. CASE row' = row
    BY <1>1, <1>2, <2>3, Still DEF IInv
  <2> QED
    BY <2>1, <2>2, <2>3 DEF StartWrite
<1>5. TypeInv'
  BY <1>1, <1>2, <1>3, <1>4, Still DEF IInv, TypeInv
<1>6. LockInv'
  BY <1>1, <1>2, <1>3, <1>4 DEF IInv, LockInv
<1> QED
  BY <1>5, <1>6 DEF IInv

\* A start that cannot be recorded is stopped again.
LEMMA StartUndoKeeps == ASSUME IInv, StartUndo PROVE IInv'
<1>1. /\ UNCHANGED <<row, born, map, minted, revoked, given, drive, reap, attempts, retry,
                     lost, recovers, crashes, losses>>
      /\ Call /\ op.at = "unstart"
  BY DEF StartUndo, At, Calls, identity, recovery, bounds, Call, FaultKinds
<1>2. OpOK' /\ op'.at = "idle"
  BY <1>1, Returned DEF StartUndo, Calls, IInv, TypeInv
<1>3. ObjOK'
  <2>1. TokOK' /\ "Stopped" \in DriverStates
    BY <1>1, Still DEF IInv, DriverStates
  <2>2. CASE Made
    BY <1>1, <2>1, <2>2, ObjChanged, Still DEF StartUndo, Calls, IInv, TypeInv
  <2>3. CASE ~Made
    BY <1>1, <2>1, <2>3, ObjGone, Still DEF StartUndo, Calls, IInv, TypeInv
  <2> QED
    BY <2>2, <2>3
<1>4. TypeInv'
  BY <1>1, <1>2, <1>3, Still DEF IInv, TypeInv
<1>5. LockInv'
  BY <1>1, <1>2, <1>3 DEF IInv, LockInv
<1> QED
  BY <1>4, <1>5 DEF IInv

\* Stop asks a row that is there and no create in flight.
LEMMA StopKeeps == ASSUME IInv, Stop PROVE IInv'
<1>1. /\ UNCHANGED <<row, born, map, minted, revoked, given, drive, reap, attempts, retry,
                     lost, recovers, crashes, losses>>
      /\ Call /\ readPhase(row) = "Running" /\ row.phase # "Deleting" /\ Held /\ drive.at = "none"
      /\ ~(row.phase = "Pending" /\ ~row.sched)
  BY DEF Stop, creating, placed, realizing, Calls, identity, recovery, bounds, Call, FaultKinds
<1>2. row.phase # "None" /\ row \in Rows
  BY <1>1, HeldPhase DEF IInv, TypeInv
<1>3. Made
  BY <1>1, <1>2 DEF readPhase, Rows, Phases
<1>4. ObjOK'
  <2>1. TokOK' /\ "Stopped" \in DriverStates
    BY <1>1, Still DEF IInv, DriverStates
  <2> QED
    BY <1>1, <1>3, <2>1, ObjChanged, Still DEF Stop, Calls, IInv, TypeInv
<1>5. OpOK' /\ (op' = op \/ op'.at = "stopped")
  BY <1>1, BeganBare, Still DEF Stop, Calls, IInv, TypeInv, Steps
<1>6. TypeInv'
  BY <1>1, <1>2, <1>3, <1>4, <1>5, Still DEF IInv, TypeInv
<1>7. LockInv'
  BY <1>1, <1>2, <1>3, <1>4, <1>5 DEF IInv, LockInv
<1> QED
  BY <1>6, <1>7 DEF IInv

\* The record of a stop is the refreshed row: a delete and a create in hand stand.
LEMMA StopWriteKeeps == ASSUME IInv, StopWrite PROVE IInv'
<1>1. /\ UNCHANGED <<born, obj, map, minted, revoked, given, drive, reap, attempts, retry,
                     lost, recovers, crashes, losses>>
      /\ Call /\ op.at \in {"stopped", "autoStopped"} /\ Done
  BY DEF StopWrite, At, identity, recovery, bounds, Call, FaultKinds
<1>2. row \in Rows /\ row.phase # "None"
  BY <1>1, HeldPhase DEF IInv, TypeInv, LockInv
<1>3. OpOK' /\ op'.at = "idle"
  BY <1>1, Returned DEF IInv, TypeInv
<1>4. /\ RowOK' /\ row'.sched = row.sched /\ row'.phase # "None"
      /\ row'.phase = "Deleting" <=> row.phase = "Deleting"
      /\ row.phase = "Pending" /\ ~row.sched => row'.phase = "Pending"
  <2>1. CASE row' = refresh(row) \/ row' = [refresh(row) EXCEPT !.reason = "AutoStop"]
    <3>1. PICK q \in Reasons : refresh(row) = [phase |-> readPhase(row), sched |-> row.sched, reason |-> q, token |-> row.token]
      BY <1>2, Refreshed
    <3>2. PICK r \in Reasons : row' = [phase |-> readPhase(row), sched |-> row.sched, reason |-> r, token |-> row.token]
      <4>1. CASE row' = refresh(row)
        BY <3>1, <4>1
      <4>2. CASE row' = [refresh(row) EXCEPT !.reason = "AutoStop"]
        <5>1. row' = [phase |-> readPhase(row), sched |-> row.sched, reason |-> "AutoStop", token |-> row.token]
          BY <3>1, <4>2
        <5> QED
          BY <5>1 DEF Reasons
      <4> QED
        BY <2>1, <4>1, <4>2
    <3>3. /\ readPhase(row) \in Phases /\ (readPhase(row) = "Deleting" <=> row.phase = "Deleting")
          /\ row.phase = "Pending" /\ ~row.sched => readPhase(row) = "Pending"
      BY <1>2, ReadPhase DEF IInv, TypeInv
    <3>4. row.sched \in BOOLEAN /\ row.token \in 0..minted
      BY <1>2 DEF Rows, IInv, TypeInv, RowOK
    <3>5. RowOK' /\ row'.phase = readPhase(row) /\ row'.sched = row.sched
      BY <1>1, <3>2, <3>3, <3>4, RowWritten DEF IInv, TypeInv
    <3> QED
      BY <3>3, <3>5 DEF Phases
  <2>2. CASE row' = row
    BY <1>1, <1>2, <2>2, Still DEF IInv
  <2> QED
    BY <2>1, <2>2 DEF StopWrite
<1>5. TypeInv'
  BY <1>1, <1>2, <1>3, <1>4, Still DEF IInv, TypeInv
<1>6. LockInv'
  BY <1>1, <1>2, <1>3, <1>4 DEF IInv, LockInv
<1> QED
  BY <1>5, <1>6 DEF IInv

\* Deleting is written over any phase of a row that is there.
LEMMA DeleteKeeps == ASSUME IInv, Delete PROVE IInv'
<1>1. /\ UNCHANGED <<born, obj, map, minted, revoked, given, drive, reap, attempts, retry,
                     lost, recovers, crashes, losses>>
      /\ Held /\ op.at = "idle"
  BY DEF Delete, Free, identity, recovery, bounds
<1>2. /\ RowOK' /\ OpOK' /\ Call
      /\ \/ row' = row /\ op' = op
         \/ row'.phase = "Deleting" /\ row'.sched = row.sched /\ op'.at = "delete"
  BY <1>1, Intended DEF Delete, IInv
<1>3. row.phase # "None"
  BY <1>1, HeldPhase DEF IInv, TypeInv
<1>4. TypeInv'
  BY <1>1, <1>2, <1>3, Still DEF IInv, TypeInv
<1>5. LockInv'
  BY <1>1, <1>2, <1>3 DEF IInv, LockInv
<1> QED
  BY <1>4, <1>5 DEF IInv

\* The object goes first; the row and its map stand until it has.
LEMMA DeleteObjectKeeps == ASSUME IInv, DeleteObject PROVE IInv'
<1>1. /\ UNCHANGED <<row, born, map, minted, revoked, given, drive, reap, attempts, retry,
                     lost, recovers, crashes, losses>>
      /\ Call /\ op.at = "delete"
  BY DEF DeleteObject, At, Calls, identity, recovery, bounds, Call, FaultKinds
<1>2. OpOK' /\ op'.at \in {"forgetMap", "idle"}
  BY <1>1, Went, Returned DEF DeleteObject, Calls, IInv, TypeInv, Steps
<1>3. ObjOK'
  BY <1>1, ObjGone, Still DEF DeleteObject, Calls, IInv, TypeInv
<1>4. TypeInv'
  BY <1>1, <1>2, <1>3, Still DEF IInv, TypeInv
<1>5. LockInv'
  BY <1>1, <1>2, <1>3 DEF IInv, LockInv
<1> QED
  BY <1>4, <1>5 DEF IInv

\* forgetOne purges the map before the row goes.
LEMMA ForgetMapKeeps == ASSUME IInv, ForgetMap PROVE IInv'
<1>1. /\ UNCHANGED <<row, born, obj, minted, revoked, given, drive, reap, recovers, crashes,
                     losses>>
      /\ Call /\ op.at = "forgetMap" /\ map' = FALSE /\ attempts' = 0 /\ retry' = FALSE /\ lost' = FALSE
  BY DEF ForgetMap, At, identity, bounds, Call
<1>2. OpOK' /\ op'.at = "forgetToken"
  BY <1>1, Went DEF ForgetMap, IInv, TypeInv, Steps
<1>3. FlagOK'
  BY <1>1 DEF IInv, TypeInv, FlagOK
<1>4. CountOK'
  BY <1>1, LifecycleAssumption DEF IInv, TypeInv, CountOK
<1>5. TypeInv'
  BY <1>1, <1>2, <1>3, <1>4, Still DEF IInv, TypeInv
<1>6. LockInv'
  BY <1>1, <1>2, <1>3, <1>4 DEF IInv, LockInv
<1> QED
  BY <1>5, <1>6 DEF IInv

\* The identity ends before the row goes.
LEMMA ForgetTokenKeeps == ASSUME IInv, ForgetToken PROVE IInv'
<1>1. /\ UNCHANGED <<row, born, obj, map, minted, given, drive, reap, attempts, retry, lost,
                     recovers, crashes, losses>>
      /\ op.at = "forgetToken"
  BY DEF ForgetToken, At, recovery, bounds
<1>2. TokOK' /\ Call
  <2>1. {op.token} \in SUBSET (0..minted)
    BY DEF IInv, TypeInv, OpOK
  <2> QED
    BY <1>1, <2>1, RevokeTyped DEF ForgetToken, IInv, TypeInv
<1>3. OpOK' /\ op'.at = "forgetRow"
  BY <1>1, Went DEF ForgetToken, IInv, TypeInv, Steps
<1>4. TypeInv'
  BY <1>1, <1>2, <1>3, Still DEF IInv, TypeInv
<1>5. LockInv'
  BY <1>1, <1>2, <1>3 DEF IInv, LockInv
<1> QED
  BY <1>4, <1>5 DEF IInv

\* The row goes once the map has.
LEMMA ForgetRowKeeps == ASSUME IInv, ForgetRow PROVE IInv'
<1>1. /\ UNCHANGED <<born, obj, map, minted, revoked, given, drive, reap, attempts, retry,
                     lost, recovers, crashes, losses>>
      /\ Call /\ op.at = "forgetRow" /\ Done /\ (row' = NoRow \/ row' = row)
  BY DEF ForgetRow, At, identity, recovery, bounds, Call, FaultKinds
<1>2. OpOK' /\ op'.at = "idle"
  BY <1>1, Returned DEF IInv, TypeInv
<1>3. RowOK' /\ (row' = row \/ (row'.phase = "None" /\ ~row'.sched))
  <2>1. CASE row' = NoRow
    BY <1>1, <2>1, RowGone DEF IInv, TypeInv
  <2>2. CASE row' = row
    BY <1>1, <2>2, Still DEF IInv
  <2> QED
    BY <1>1, <2>1, <2>2
<1>4. TypeInv'
  BY <1>1, <1>2, <1>3, Still DEF IInv, TypeInv
<1>5. LockInv'
  BY <1>1, <1>2, <1>3 DEF IInv, LockInv
<1> QED
  BY <1>4, <1>5 DEF IInv

-----------------------------------------------------------------------------
(* The reaper's pass. *)

\* The list touches nothing but the pass.
LEMMA ReapListKeeps == ASSUME IInv, ReapList PROVE IInv'
<1>1. /\ UNCHANGED <<row, born, obj, map, minted, revoked, given, op, drive, attempts, retry,
                     lost, recovers, crashes, losses>>
      /\ Call
  BY DEF ReapList, identity, recovery, bounds, Call, FaultKinds
<1>2. ReapOK'
  <2>1. PICK s \in BOOLEAN, c \in BOOLEAN : reap' = [at |-> "rules", seen |-> s, cut |-> c]
    BY DEF ReapList, Made
  <2> QED
    BY <2>1 DEF ReapOK, Passes
<1>3. TypeInv'
  BY <1>1, <1>2, Still DEF IInv, TypeInv
<1>4. LockInv'
  BY <1>1, <1>2 DEF IInv, LockInv
<1> QED
  BY <1>3, <1>4 DEF IInv

\* A deadline deletes a tracked sandbox as a request does, and an untracked object alone.
LEMMA ReapDeleteKeeps == ASSUME IInv, ReapDelete PROVE IInv'
<1>1. /\ UNCHANGED <<born, map, minted, revoked, given, drive, attempts, retry, lost, recovers,
                     crashes, losses>>
      /\ op.at = "idle"
  BY DEF ReapDelete, Free, identity, recovery, bounds
<1>2. ReapOK'
  BY <1>1, PassWent DEF ReapDelete, IInv, TypeInv
<1>3. /\ RowOK' /\ OpOK' /\ ObjOK' /\ Call
      /\ \/ row' = row /\ op' = op
         \/ row.phase # "None" /\ row'.phase = "Deleting" /\ row'.sched = row.sched /\ op'.at = "delete"
  <2>1. CASE Held
    <3>1. IntendDelete /\ obj' = obj /\ row.phase # "None"
      BY <2>1, HeldPhase DEF ReapDelete, IInv, TypeInv
    <3> QED
      BY <1>1, <2>1, <3>1, Intended, Still DEF IInv
  <2>2. CASE ~Held
    <3>1. TokOK' /\ UNCHANGED <<row, op>> /\ (obj' = obj \/ obj' = NoObj) /\ Call
      BY <1>1, <2>2, Still DEF ReapDelete, Calls, Call, FaultKinds, IInv
    <3> QED
      BY <1>1, <3>1, ObjGone, Still DEF IInv
  <2> QED
    BY <2>1, <2>2
<1>4. TypeInv'
  BY <1>1, <1>2, <1>3, Still DEF IInv, TypeInv
<1>5. LockInv'
  BY <1>1, <1>2, <1>3 DEF IInv, LockInv
<1> QED
  BY <1>4, <1>5 DEF IInv

\* AutoStop asks the object and records on a row that is there.
LEMMA ReapStopKeeps == ASSUME IInv, ReapStop PROVE IInv'
<1>1. /\ UNCHANGED <<row, born, map, minted, revoked, given, drive, attempts, retry, lost,
                     recovers, crashes, losses>>
      /\ Call /\ op.at = "idle" /\ obj.state = "Running"
  BY DEF ReapStop, Free, Calls, identity, recovery, bounds, Call, FaultKinds
<1>2. ReapOK'
  BY <1>1, PassWent DEF ReapStop, IInv, TypeInv
<1>3. ObjOK'
  <2>1. TokOK' /\ "Stopped" \in DriverStates /\ Made
    BY <1>1, Still, MadeState DEF IInv, TypeInv, DriverStates
  <2> QED
    BY <1>1, <2>1, ObjChanged, Still DEF ReapStop, Calls, IInv, TypeInv
<1>4. OpOK' /\ (op' = op \/ (op'.at = "autoStopped" /\ row.phase # "None"))
  BY <1>1, BeganBare, Still, HeldPhase DEF ReapStop, Calls, IInv, TypeInv, Steps
<1>5. TypeInv'
  BY <1>1, <1>2, <1>3, <1>4, Still DEF IInv, TypeInv
<1>6. LockInv'
  BY <1>1, <1>2, <1>3, <1>4 DEF IInv, LockInv
<1> QED
  BY <1>5, <1>6 DEF IInv

\* A rotation mints for a row that is there, that nobody deletes or creates.
LEMMA ReapTokenKeeps == ASSUME IInv, ReapToken PROVE IInv'
<1>1. /\ UNCHANGED <<row, born, obj, map, revoked, given, drive, attempts, retry, lost,
                     recovers, crashes, losses>>
      /\ Call /\ op.at = "idle" /\ Held /\ row.phase # "Deleting" /\ drive.at = "none" /\ minted < MaxRotated
  BY DEF ReapToken, Free, rotatable, creating, realizing, recovery, bounds, Call, FaultKinds
<1>2. ReapOK' /\ minted \in 0..MaxTokens /\ minted < MaxTokens /\ row.token \in 0..minted /\ row.phase # "None"
  BY <1>1, PassWent, HeldPhase, LifecycleAssumption DEF ReapToken, IInv, TypeInv, TokOK, RowOK
<1>3. CASE minted' = minted + 1 /\ op' = [Idle EXCEPT !.at = "project", !.token = minted + 1, !.previous = row.token]
  <2>1. op' = [at |-> "project", token |-> minted + 1, previous |-> row.token, read |-> "None"]
    BY <1>3 DEF Idle
  <2>2. TokOK' /\ RowOK' /\ ObjOK' /\ DriveOK'
    BY <1>1, <1>2, <1>3, Grown DEF IInv
  <2>3. /\ minted' \in 0..MaxTokens /\ minted + 1 \in 0..minted' /\ row.token \in 0..minted' /\ minted + 1 # NoToken
        /\ "project" \in Steps /\ "None" \in Reads
    BY <1>2, <1>3, LifecycleAssumption DEF NoToken, Steps, Reads
  <2>4. OpOK' /\ op'.at = "project"
    BY <2>1, <2>3, OpWritten
  <2>5. FaultOK' /\ FlagOK' /\ CountOK'
    BY <1>1, FaultsTyped DEF IInv, TypeInv, FlagOK, CountOK
  <2>6. LockInv'
    BY <1>1, <1>2, <2>4 DEF IInv, LockInv
  <2> QED
    BY <1>2, <2>2, <2>4, <2>5, <2>6 DEF IInv, TypeInv
<1>4. CASE UNCHANGED <<minted, op>>
  BY <1>1, <1>2, <1>4, Still DEF IInv, TypeInv, LockInv
<1> QED
  BY <1>3, <1>4 DEF ReapToken

\* The new token reaches the object before the row names it.
LEMMA RotateProjectKeeps == ASSUME IInv, RotateProject PROVE IInv'
<1>1. /\ UNCHANGED <<row, born, map, minted, revoked, drive, reap, attempts, retry, lost,
                     recovers, crashes, losses>>
      /\ Call /\ op.at = "project"
  BY DEF RotateProject, At, recovery, bounds, Call, FaultKinds
<1>2. op.token \in 0..minted /\ op.token # NoToken
  BY <1>1 DEF IInv, TypeInv, OpOK
<1>3. TokOK'
  <2>1. given' \subseteq given \cup {op.token}
    BY DEF RotateProject
  <2> QED
    BY <1>1, <1>2, <2>1 DEF IInv, TypeInv, TokOK, NoToken
<1>4. ObjOK'
  BY <1>1, <1>2, <1>3, ObjChanged, Still DEF RotateProject, IInv, TypeInv
<1>5. OpOK' /\ op'.at \in {"rotated", "endNew"}
  BY <1>1, Went DEF RotateProject, IInv, TypeInv, Steps
<1>6. TypeInv'
  BY <1>1, <1>2, <1>3, <1>4, <1>5, Still DEF IInv, TypeInv
<1>7. LockInv'
  BY <1>1, <1>2, <1>3, <1>4, <1>5 DEF IInv, LockInv
<1> QED
  BY <1>6, <1>7 DEF IInv

\* The row is given the new token and nothing else.
LEMMA RotateWriteKeeps == ASSUME IInv, RotateWrite PROVE IInv'
<1>1. /\ UNCHANGED <<born, obj, map, minted, revoked, given, drive, reap, attempts, retry,
                     lost, recovers, crashes, losses>>
      /\ Call /\ op.at = "rotated"
  BY DEF RotateWrite, At, identity, recovery, bounds, Call, FaultKinds
<1>2. OpOK' /\ op'.at \in {"endPrevious", "idle"}
  BY <1>1, Went, Returned DEF RotateWrite, IInv, TypeInv, Steps
<1>3. row \in Rows /\ op.token \in 0..minted
  BY <1>1, HeldPhase DEF IInv, TypeInv, LockInv, OpOK
<1>4. RowOK' /\ row'.phase = row.phase /\ row'.sched = row.sched
  BY <1>1, <1>3, RowToken, Still DEF RotateWrite, IInv, TypeInv
<1>5. TypeInv'
  BY <1>1, <1>2, <1>3, <1>4, Still DEF IInv, TypeInv
<1>6. LockInv'
  BY <1>1, <1>2, <1>3, <1>4 DEF IInv, LockInv
<1> QED
  BY <1>5, <1>6 DEF IInv

\* A pass that matches no rule touches nothing.
LEMMA ReapNothingKeeps == ASSUME IInv, ReapNothing PROVE IInv'
<1>1. /\ UNCHANGED <<row, born, obj, map, minted, revoked, given, op, drive, attempts, retry,
                     lost, recovers, crashes, losses>>
      /\ Call
  BY DEF ReapNothing, identity, recovery, bounds, Call
<1>2. ReapOK'
  BY <1>1, PassWent DEF ReapNothing, IInv, TypeInv
<1>3. TypeInv'
  BY <1>1, <1>2, Still DEF IInv, TypeInv
<1>4. LockInv'
  BY <1>1, <1>2 DEF IInv, LockInv
<1> QED
  BY <1>3, <1>4 DEF IInv

\* A delete cut short is run again on a row that is still Deleting.
LEMMA ReapFinishKeeps == ASSUME IInv, ReapFinish PROVE IInv'
<1>1. /\ UNCHANGED <<row, born, obj, map, minted, revoked, given, drive, attempts, retry, lost,
                     recovers, crashes, losses>>
      /\ Call /\ op.at = "idle"
  BY DEF ReapFinish, Free, identity, recovery, bounds, Call
<1>2. ReapOK'
  BY <1>1, PassWent DEF ReapFinish, IInv, TypeInv
<1>3. OpOK' /\ (op' = op \/ (op'.at = "delete" /\ row.phase = "Deleting"))
  <2>1. row.token \in 0..minted /\ "delete" \in Steps
    BY DEF IInv, TypeInv, RowOK, Steps
  <2> QED
    BY <1>1, <2>1, Began, Still DEF ReapFinish, IInv, TypeInv
<1>4. TypeInv'
  BY <1>1, <1>2, <1>3, Still DEF IInv, TypeInv
<1>5. LockInv'
  BY <1>1, <1>2, <1>3 DEF IInv, LockInv
<1> QED
  BY <1>4, <1>5 DEF IInv

\* What the list holds is owed nothing by the lost rule.
LEMMA ReapVanishedKeeps == ASSUME IInv, ReapVanished PROVE IInv'
<1>1. /\ UNCHANGED <<row, born, obj, map, minted, revoked, given, op, drive, recovers, crashes,
                     losses>>
      /\ Call
  BY DEF ReapVanished, identity, bounds, Call, FaultKinds
<1>2. ReapOK'
  BY <1>1, PassWent DEF ReapVanished, IInv, TypeInv
<1>3. attempts' \in {0, attempts} /\ retry' \in {FALSE, retry} /\ lost' \in {FALSE, lost}
  BY DEF ReapVanished, recovery
<1>4. FlagOK' /\ CountOK'
  <2>1. FlagOK'
    BY <1>1, <1>3, Zenon DEF IInv, TypeInv, FlagOK
  <2>2. CountOK'
    BY <1>1, <1>3, LifecycleAssumption DEF IInv, TypeInv, CountOK
  <2> QED
    BY <2>1, <2>2
<1>5. TypeInv'
  BY <1>1, <1>2, <1>3, <1>4, Still DEF IInv, TypeInv
<1>6. LockInv'
  BY <1>1, <1>2, <1>3, <1>4 DEF IInv, LockInv
<1> QED
  BY <1>5, <1>6 DEF IInv

\* A sandbox that is there is not lost.
LEMMA LostNotKeeps == ASSUME IInv, LostNot PROVE IInv'
<1>1. /\ UNCHANGED <<row, born, obj, map, minted, revoked, given, op, drive, attempts, retry,
                     recovers, crashes, losses>>
      /\ Call /\ lost' \in {FALSE, lost} /\ reap' = NoPass
  BY DEF LostNot, identity, recovery, bounds, Call
<1>2. ReapOK'
  BY <1>1, PassWent DEF IInv, TypeInv
<1>3. FlagOK'
  BY <1>1 DEF IInv, TypeInv, FlagOK
<1>4. TypeInv'
  BY <1>1, <1>2, <1>3, Still DEF IInv, TypeInv
<1>5. LockInv'
  BY <1>1, <1>2, <1>3 DEF IInv, LockInv
<1> QED
  BY <1>4, <1>5 DEF IInv

\* Lost is marked on a row that was made.
LEMMA LostMarkKeeps == ASSUME IInv, LostMark PROVE IInv'
<1>1. /\ UNCHANGED <<born, obj, map, minted, revoked, given, op, drive, attempts, retry,
                     recovers, crashes, losses>>
      /\ Call /\ op.at = "idle" /\ Held /\ row.phase \notin {"Pending", "Failed", "Deleting"} /\ reap' = NoPass /\ lost' = TRUE
  BY DEF LostMark, Graced, Free, canBeLost, Missed, identity, recovery, bounds, Call, FaultKinds
<1>2. ReapOK'
  BY <1>1, PassWent DEF IInv, TypeInv
<1>3. FlagOK'
  BY <1>1 DEF IInv, TypeInv, FlagOK
<1>4. row.phase # "None"
  BY <1>1, HeldPhase DEF IInv, TypeInv
<1>5. /\ RowOK' /\ row'.sched = row.sched
      /\ row' = row \/ row'.phase = "Lost"
  <2>1. row \in Rows /\ "Lost" \in Phases /\ "Lost" \in Reasons
    BY <1>1, HeldPhase DEF IInv, TypeInv, Phases, Reasons
  <2>2. row' = row \/ row' = [row EXCEPT !.phase = "Lost", !.reason = "Lost"]
    BY DEF LostMark
  <2> QED
    BY <1>1, <2>1, <2>2, RowMarked, Still DEF IInv, TypeInv
<1>6. TypeInv'
  BY <1>1, <1>2, <1>3, <1>4, <1>5, Still DEF IInv, TypeInv
<1>7. LockInv'
  BY <1>1, <1>2, <1>3, <1>4, <1>5 DEF IInv, LockInv
<1> QED
  BY <1>6, <1>7 DEF IInv

\* Waiting out the grace touches nothing.
LEMMA LostWaitKeeps == ASSUME IInv, LostWait PROVE IInv'
<1>1. /\ UNCHANGED <<row, born, obj, map, minted, revoked, given, op, drive, attempts, retry,
                     lost, recovers, crashes, losses>>
      /\ Call /\ reap' = NoPass
  BY DEF LostWait, Missed, identity, recovery, bounds, Call, FaultKinds
<1>2. ReapOK'
  BY <1>1, PassWent DEF IInv, TypeInv
<1>3. TypeInv'
  BY <1>1, <1>2, Still DEF IInv, TypeInv
<1>4. LockInv'
  BY <1>1, <1>2 DEF IInv, LockInv
<1> QED
  BY <1>3, <1>4 DEF IInv

\* A grace that ends deletes as a deadline does.
LEMMA LostDeleteKeeps == ASSUME IInv, LostDelete PROVE IInv'
<1>1. /\ UNCHANGED <<born, obj, map, minted, revoked, given, drive, attempts, retry, lost,
                     recovers, crashes, losses>>
      /\ op.at = "idle" /\ Held /\ reap' = NoPass
  BY DEF LostDelete, Graced, Free, canBeLost, identity, recovery, bounds
<1>2. ReapOK'
  BY <1>1, PassWent DEF IInv, TypeInv
<1>3. row.phase # "None"
  BY <1>1, HeldPhase DEF IInv, TypeInv
<1>4. /\ RowOK' /\ OpOK' /\ Call
      /\ \/ row' = row /\ op' = op
         \/ row'.phase = "Deleting" /\ row'.sched = row.sched /\ op'.at = "delete"
  BY <1>1, Intended DEF LostDelete, IInv
<1>5. TypeInv'
  BY <1>1, <1>2, <1>3, <1>4, Still DEF IInv, TypeInv
<1>6. LockInv'
  BY <1>1, <1>2, <1>3, <1>4 DEF IInv, LockInv
<1> QED
  BY <1>5, <1>6 DEF IInv

-----------------------------------------------------------------------------
(* Recovery. *)

\* Recovery begins on a row that was made and that nobody deletes.
LEMMA RecoverBeginKeeps == ASSUME IInv, RecoverBegin PROVE IInv'
<1>1. /\ UNCHANGED <<born, obj, map, minted, revoked, given, drive, attempts, retry, lost,
                     recovers, crashes, losses>>
      /\ Call /\ op.at = "idle" /\ Held /\ row.phase \notin {"Pending", "Failed", "Deleting"} /\ reap' = NoPass
  BY DEF RecoverBegin, Free, canBeLost, Missed, identity, recovery, bounds, Call, FaultKinds
<1>2. ReapOK'
  BY <1>1, PassWent DEF IInv, TypeInv
<1>3. row.phase # "None" /\ row \in Rows /\ drive.at = "none"
  BY <1>1, HeldPhase DEF IInv, TypeInv, LockInv
<1>4. /\ RowOK' /\ row'.sched = row.sched /\ OpOK'
      /\ \/ row' = row /\ op' = op
         \/ row'.phase \in {"Lost", "Recovering"} /\ op'.at = "attempt"
  <2>1. CASE UNCHANGED <<row, op>>
    BY <1>1, <2>1, Still DEF IInv
  <2>2. CASE MayMint /\ op' = [Idle EXCEPT !.at = "attempt"]
             /\ row' = IF row.phase \in {"Lost", "Recovering"} THEN row
                       ELSE [row EXCEPT !.phase = "Lost", !.reason = "Lost"]
    <3>1. OpOK' /\ op'.at = "attempt"
      BY <1>1, <2>2, BeganBare DEF IInv, TypeInv, Steps
    <3>2. RowOK' /\ row'.sched = row.sched /\ row'.phase \in {"Lost", "Recovering"}
      <4>1. "Lost" \in Phases /\ "Lost" \in Reasons
        BY DEF Phases, Reasons
      <4>2. CASE row' = row /\ row.phase \in {"Lost", "Recovering"}
        BY <1>1, <4>2, Still DEF IInv
      <4>3. CASE row' = [row EXCEPT !.phase = "Lost", !.reason = "Lost"]
        BY <1>1, <1>3, <4>1, <4>3, RowMarked DEF IInv, TypeInv
      <4> QED
        BY <2>2, <4>2, <4>3
    <3> QED
      BY <3>1, <3>2
  <2> QED
    BY <2>1, <2>2 DEF RecoverBegin
<1>5. TypeInv'
  BY <1>1, <1>2, <1>3, <1>4, Still DEF IInv, TypeInv
<1>6. LockInv'
  BY <1>1, <1>2, <1>3, <1>4 DEF IInv, LockInv
<1> QED
  BY <1>5, <1>6 DEF IInv

\* An attempt is counted up to the last, and past it the row is Failed.
LEMMA RecoverAttemptKeeps == ASSUME IInv, RecoverAttempt PROVE IInv'
<1>1. /\ UNCHANGED <<born, obj, map, minted, revoked, given, drive, reap, recovers, crashes,
                     losses>>
      /\ Call /\ op.at = "attempt"
  BY DEF RecoverAttempt, At, GiveUp, identity, bounds, Call, FaultKinds
<1>2. row.phase \in {"Lost", "Recovering"} /\ row \in Rows /\ MayMint
  BY <1>1, HeldPhase DEF IInv, TypeInv, LockInv, OpOK
<1>3. /\ attempts' = 0 \/ (attempts' = attempts + 1 /\ ~exhausted)
      /\ retry' \in {FALSE, retry} /\ lost' \in {FALSE, lost}
  BY DEF RecoverAttempt, GiveUp
<1>4. FlagOK' /\ CountOK'
  <2>1. FlagOK'
    BY <1>1, <1>3, Zenon DEF IInv, TypeInv, FlagOK
  <2>2. CountOK'
    BY <1>1, <1>3, LifecycleAssumption DEF IInv, TypeInv, CountOK, exhausted
  <2> QED
    BY <2>1, <2>2
<1>5. OpOK' /\ (op'.at = "idle" \/ (op'.at = "repush" /\ row'.phase = "Recovering"))
  <2>1. CASE Done
    BY <1>1, <2>1, Returned DEF IInv, TypeInv
  <2>2. CASE Goto("repush") /\ row' = [row EXCEPT !.phase = "Recovering", !.reason = "Lost"]
    <3>1. OpOK' /\ op'.at = "repush"
      BY <1>1, <1>2, <2>2, Went DEF IInv, TypeInv, Steps
    <3>2. row'.phase = "Recovering"
      BY <1>2, <2>2 DEF Rows
    <3> QED
      BY <3>1, <3>2
  <2> QED
    BY <2>1, <2>2 DEF RecoverAttempt, GiveUp
<1>6. RowOK' /\ row'.sched = row.sched /\ row'.phase \in {row.phase, "Failed", "Recovering"}
  <2>1. /\ {"Failed", "Recovering"} \subseteq Phases
        /\ {"RecoveryExhausted", "VolumeMissing", "Lost"} \subseteq Reasons
    BY DEF Phases, Reasons, unstartedFailures
  <2>2. \/ row' = row
        \/ \E p \in {"Failed", "Recovering"}, q \in {"RecoveryExhausted", "VolumeMissing", "Lost"} :
               row' = [row EXCEPT !.phase = p, !.reason = q]
    BY DEF RecoverAttempt, GiveUp
  <2> QED
    BY <1>1, <1>2, <2>1, <2>2, RowMarked, Still DEF IInv, TypeInv
<1>7. TypeInv'
  BY <1>1, <1>2, <1>3, <1>4, <1>5, <1>6, Still DEF IInv, TypeInv
<1>8. LockInv'
  BY <1>1, <1>2, <1>3, <1>4, <1>5, <1>6 DEF IInv, LockInv
<1> QED
  BY <1>7, <1>8 DEF IInv

\* The map is pushed again before anything is made.
LEMMA RecoverPushKeeps == ASSUME IInv, RecoverPush PROVE IInv'
<1>1. /\ UNCHANGED <<row, born, obj, minted, revoked, given, drive, reap, attempts, lost,
                     recovers, crashes, losses>>
      /\ Call /\ op.at = "repush" /\ map' = TRUE /\ retry' \in {TRUE, retry}
  BY DEF RecoverPush, At, Backoff, identity, bounds, Call, FaultKinds
<1>2. OpOK' /\ op'.at \in {"remint", "idle"}
  BY <1>1, Went, Returned DEF RecoverPush, Backoff, IInv, TypeInv, OpOK, Steps
<1>3. FlagOK'
  BY <1>1, Zenon DEF IInv, TypeInv, FlagOK
<1>4. TypeInv'
  BY <1>1, <1>2, <1>3, Still DEF IInv, TypeInv
<1>5. LockInv'
  BY <1>1, <1>2, <1>3 DEF IInv, LockInv
<1> QED
  BY <1>4, <1>5 DEF IInv

\* The recreated sandbox gets an identity of its own.
LEMMA RecoverMintKeeps == ASSUME IInv, RecoverMint PROVE IInv'
<1>1. /\ UNCHANGED <<row, born, obj, map, revoked, given, drive, reap, attempts, lost,
                     recovers, crashes, losses>>
      /\ Call /\ op.at = "remint" /\ retry' \in {TRUE, retry}
  BY DEF RecoverMint, Backoff, At, bounds, Call, FaultKinds
<1>2. minted \in 0..MaxTokens /\ minted < MaxTokens /\ row.token \in 0..minted /\ op \in Handlers
  BY <1>1 DEF IInv, TypeInv, TokOK, OpOK, RowOK, MayMint
<1>3. FlagOK'
  BY <1>1, Zenon DEF IInv, TypeInv, FlagOK
<1>4. CASE minted' = minted + 1 /\ op' = [op EXCEPT !.at = "recreate", !.token = minted + 1, !.previous = row.token]
  <2>1. op' = [at |-> "recreate", token |-> minted + 1, previous |-> row.token, read |-> op.read]
    BY <1>2, <1>4, Zenon DEF Handlers
  <2>2. TokOK' /\ RowOK' /\ ObjOK' /\ DriveOK'
    BY <1>1, <1>2, <1>4, Grown DEF IInv
  <2>3. /\ minted' \in 0..MaxTokens /\ minted + 1 \in 0..minted' /\ row.token \in 0..minted' /\ minted + 1 # NoToken
        /\ "recreate" \in Steps /\ op.read \in Reads
    BY <1>2, <1>4, LifecycleAssumption DEF NoToken, Steps, Handlers
  <2>4. OpOK' /\ op'.at = "recreate"
    BY <2>1, <2>3, OpWritten
  <2>5. FaultOK' /\ ReapOK' /\ CountOK'
    BY <1>1, FaultsTyped DEF IInv, TypeInv, ReapOK, CountOK
  <2>6. LockInv'
    BY <1>1, <2>4 DEF IInv, LockInv
  <2> QED
    BY <1>3, <2>2, <2>4, <2>5, <2>6 DEF IInv, TypeInv
<1>5. CASE Done /\ minted' = minted
  <2>1. OpOK' /\ op'.at = "idle"
    BY <1>5, Returned DEF IInv, TypeInv
  <2> QED
    BY <1>1, <1>3, <1>5, <2>1, Still DEF IInv, TypeInv, LockInv
<1> QED
  BY <1>4, <1>5 DEF RecoverMint, Backoff

\* The recreation touches the object and what was projected, not the row.
LEMMA RecoverCreateKeeps == ASSUME IInv, RecoverCreate PROVE IInv'
<1>1. /\ UNCHANGED <<row, born, map, minted, revoked, drive, reap, recovers, crashes, losses>>
      /\ Call /\ op.at = "recreate"
  BY DEF RecoverCreate, At, bounds, Call, FaultKinds
<1>2. op.token \in 0..minted /\ op.token # NoToken
  BY <1>1 DEF IInv, TypeInv, OpOK
<1>3. TokOK'
  <2>1. given' \subseteq given \cup {op.token}
    BY DEF RecoverCreate
  <2> QED
    BY <1>1, <1>2, <2>1 DEF IInv, TypeInv, TokOK, NoToken
<1>4. ObjOK'
  <2>1. /\ Made => obj.state \in DriverStates
        /\ {"Pending", "Running"} \subseteq DriverStates /\ op.token \in 0..minted'
    BY <1>1, <1>2, MadeState DEF IInv, TypeInv, DriverStates
  <2>2. \/ obj' = obj
        \/ Made /\ obj' = [obj EXCEPT !.token = op.token]
        \/ \E s \in DriverStates : obj' = [state |-> s, token |-> op.token]
    <3>1. CASE ~Made /\ obj' \in [state : {"Pending", "Running"}, token : {op.token}]
      <4>1. obj' = [state |-> obj'.state, token |-> obj'.token] /\ obj'.state \in {"Pending", "Running"} /\ obj'.token = op.token
        BY <3>1
      <4> QED
        BY <2>1, <4>1
    <3>2. CASE obj' = [state |-> IF Made THEN obj.state ELSE "Running", token |-> op.token]
      BY <2>1, <3>2
    <3> QED
      BY <3>1, <3>2 DEF RecoverCreate
  <2> QED
    BY <1>1, <1>2, <1>3, <2>1, <2>2, ObjChanged, ObjWritten, Still DEF IInv, TypeInv
<1>5. OpOK' /\ op'.at \in {"recovered", "endNew"}
  BY <1>1, Went DEF RecoverCreate, IInv, TypeInv, Steps
<1>6. attempts' \in {0, attempts} /\ retry' \in {TRUE, FALSE} /\ lost' \in {FALSE, lost}
  BY DEF RecoverCreate
<1>7. FlagOK' /\ CountOK'
  <2>1. FlagOK'
    BY <1>1, <1>6, Zenon DEF IInv, TypeInv, FlagOK
  <2>2. CountOK'
    BY <1>1, <1>6, LifecycleAssumption DEF IInv, TypeInv, CountOK
  <2> QED
    BY <2>1, <2>2
<1>8. TypeInv'
  BY <1>1, <1>2, <1>3, <1>4, <1>5, <1>6, <1>7, Still DEF IInv, TypeInv
<1>9. LockInv'
  BY <1>1, <1>2, <1>3, <1>4, <1>5, <1>6, <1>7 DEF IInv, LockInv
<1> QED
  BY <1>8, <1>9 DEF IInv

\* The record of a recovery keeps what was scheduled.
LEMMA RecoverWriteKeeps == ASSUME IInv, RecoverWrite PROVE IInv'
<1>1. /\ UNCHANGED <<born, obj, map, minted, revoked, given, drive, reap, attempts, retry,
                     lost, recovers, crashes, losses>>
      /\ Call /\ op.at = "recovered"
  BY DEF RecoverWrite, At, identity, recovery, bounds, Call, FaultKinds
<1>2. row \in Rows /\ row.phase \in {"Lost", "Recovering"} /\ op.token \in 0..minted
  BY <1>1, HeldPhase DEF IInv, TypeInv, LockInv, OpOK
<1>3. OpOK' /\ op'.at = "endPrevious"
  BY <1>1, Went DEF RecoverWrite, IInv, TypeInv, Steps
<1>4. RowOK' /\ row'.sched = row.sched /\ row'.phase \notin {"None", "Deleting"}
  <2>1. CASE row' = [refresh(row) EXCEPT !.token = op.token]
    <3>1. PICK q \in Reasons : refresh(row) = [phase |-> readPhase(row), sched |-> row.sched, reason |-> q, token |-> row.token]
      BY <1>2, Refreshed
    <3>2. row' = [phase |-> readPhase(row), sched |-> row.sched, reason |-> q, token |-> op.token]
      BY <2>1, <3>1
    <3>3. readPhase(row) \in Phases /\ readPhase(row) # "Deleting" /\ row.sched \in BOOLEAN
      BY <1>2, ReadPhase DEF IInv, TypeInv, Rows
    <3>4. RowOK' /\ row'.phase = readPhase(row) /\ row'.sched = row.sched
      BY <1>1, <1>2, <3>2, <3>3, RowWritten DEF IInv, TypeInv
    <3> QED
      BY <3>3, <3>4 DEF Phases
  <2>2. CASE row' = row
    BY <1>1, <1>2, <2>2, Still DEF IInv
  <2> QED
    BY <2>1, <2>2 DEF RecoverWrite
<1>5. TypeInv'
  BY <1>1, <1>2, <1>3, <1>4, Still DEF IInv, TypeInv
<1>6. LockInv'
  BY <1>1, <1>2, <1>3, <1>4 DEF IInv, LockInv
<1> QED
  BY <1>5, <1>6 DEF IInv

\* A backoff that ends touches nothing else.
LEMMA BackoffEndsKeeps == ASSUME IInv, BackoffEnds PROVE IInv'
<1>1. /\ UNCHANGED <<row, born, obj, map, minted, revoked, given, op, drive, reap, attempts,
                     lost, recovers, crashes, losses>>
      /\ Call /\ retry' = FALSE
  BY DEF BackoffEnds, identity, bounds, Call
<1>2. FlagOK'
  BY <1>1 DEF IInv, TypeInv, FlagOK
<1>3. TypeInv'
  BY <1>1, <1>2, Still DEF IInv, TypeInv
<1>4. LockInv'
  BY <1>1, <1>2 DEF IInv, LockInv
<1> QED
  BY <1>3, <1>4 DEF IInv

-----------------------------------------------------------------------------
(* The environment and the process. *)

\* The workload moves by itself; the row and the map do not.
LEMMA ObjectMovesKeeps == ASSUME IInv, ObjectMoves PROVE IInv'
<1>1. /\ UNCHANGED <<row, born, map, minted, revoked, given, op, drive, reap, attempts, retry,
                     lost, recovers, crashes>>
      /\ Call /\ Made
  BY DEF ObjectMoves, identity, recovery, Call
<1>2. ObjOK'
  <2>1. TokOK' /\ {"Running", "Stopped", "Failed"} \subseteq DriverStates
    BY <1>1, Still DEF IInv, DriverStates
  <2>2. obj' = NoObj \/ \E s \in {"Running", "Stopped", "Failed"} : obj' = [obj EXCEPT !.state = s]
    BY DEF ObjectMoves
  <2> QED
    BY <1>1, <2>1, <2>2, ObjChanged, ObjGone DEF IInv, TypeInv
<1>3. CountOK'
  BY <1>1, LifecycleAssumption DEF ObjectMoves, IInv, TypeInv, CountOK
<1>4. TypeInv'
  BY <1>1, <1>2, <1>3, Still DEF IInv, TypeInv
<1>5. LockInv'
  BY <1>1, <1>2, <1>3 DEF IInv, LockInv
<1> QED
  BY <1>4, <1>5 DEF IInv

\* The next process opens with the rows that were kept and a map for each that no delete took.
LEMMA RestartKeeps == ASSUME IInv, Restart PROVE IInv'
<1>1. /\ UNCHANGED <<born, obj, minted, revoked, given, recovers, losses>>
      /\ Call /\ Done /\ drive' = NoDrive /\ reap' = NoPass /\ attempts' = 0 /\ retry' = FALSE /\ lost' = FALSE
      /\ (row' = row \/ row' = NoRow) /\ map' = (row' # NoRow /\ row'.phase # "Deleting")
  BY DEF Restart, Done, identity, Call
<1>2. OpOK' /\ op'.at = "idle"
  BY <1>1, Returned DEF IInv, TypeInv
<1>3. DriveOK' /\ drive'.at = "none" /\ ReapOK'
  <2>1. drive' = NoDrive /\ reap' = NoPass /\ minted' \in Nat
    BY <1>1, LifecycleAssumption DEF IInv, TypeInv, TokOK
  <2>2. drive' \in Drives /\ drive'.at = "none" /\ drive'.token = 0 /\ drive'.previous = 0
    BY <2>1, Blank
  <2>3. drive'.token \in 0..minted' /\ drive'.previous \in 0..minted'
    BY <2>1, <2>2
  <2>4. ReapOK'
    BY <1>1, PassWent DEF IInv, TypeInv
  <2> QED
    BY <2>2, <2>3, <2>4 DEF DriveOK
<1>4. RowOK' /\ (row' = row \/ (row'.phase = "None" /\ ~row'.sched))
  BY <1>1, RowGone, Still DEF IInv, TypeInv
<1>5. map' <=> row'.phase \notin {"None", "Deleting"}
  <2>1. row' # NoRow <=> row'.phase # "None"
    <3>1. NoRow.phase = "None" /\ (Held <=> row.phase # "None")
      BY HeldPhase DEF IInv, TypeInv, NoRow
    <3> QED
      BY <1>1, <3>1 DEF Held
  <2> QED
    BY <1>1, <2>1
<1>6. FlagOK'
  BY <1>1 DEF IInv, TypeInv, FlagOK
<1>7. CountOK'
  BY <1>1, LifecycleAssumption DEF Restart, IInv, TypeInv, CountOK
<1>8. TypeInv'
  BY <1>1, <1>2, <1>3, <1>4, <1>5, <1>6, <1>7, Still DEF IInv, TypeInv
<1>9. LockInv'
  BY <1>1, <1>2, <1>3, <1>4, <1>5, <1>6, <1>7 DEF IInv, LockInv
<1> QED
  BY <1>8, <1>9 DEF IInv

-----------------------------------------------------------------------------
(* The theorems. *)

\* Every process begins with no sandbox and nothing in flight.
LEMMA InitKeeps == Init => IInv
<1> SUFFICES ASSUME Init PROVE IInv
  OBVIOUS
<1>1. /\ row = NoRow /\ obj = NoObj /\ op = Idle /\ drive = NoDrive /\ reap = NoPass
      /\ recovers \in BOOLEAN /\ born = FALSE /\ map = FALSE /\ retry = FALSE /\ lost = FALSE
      /\ minted = 0 /\ revoked = {} /\ given = {}
      /\ attempts = 0 /\ faults = 0 /\ crashes = 0 /\ losses = 0 /\ seen = {}
  BY DEF Init
<1>2. row.phase = "None" /\ ~row.sched /\ row.token = 0 /\ RowOK
  <2>1. row.phase = "None" /\ ~row.sched /\ row.token = 0
    BY <1>1 DEF NoRow, NoToken
  <2> QED
    BY <1>1, <2>1 DEF RowOK
<1>3. ObjOK
  BY <1>1 DEF ObjOK, NoObj, NoToken
<1>4. OpOK /\ op.at = "idle"
  <2>1. op \in Handlers /\ op.at = "idle" /\ op.token = 0 /\ op.previous = 0
    BY <1>1, Blank
  <2> QED
    BY <1>1, <2>1 DEF OpOK
<1>5. DriveOK /\ drive.at = "none"
  <2>1. drive \in Drives /\ drive.at = "none" /\ drive.token = 0 /\ drive.previous = 0
    BY <1>1, Blank
  <2> QED
    BY <1>1, <2>1 DEF DriveOK
<1>6. ReapOK /\ FlagOK
  BY <1>1 DEF ReapOK, NoPass, Passes, FlagOK
<1>7. TokOK /\ CountOK /\ FaultOK
  BY <1>1, LifecycleAssumption DEF TokOK, CountOK, FaultOK
<1>8. LockInv
  BY <1>1, <1>2, <1>4, <1>5 DEF LockInv
<1> QED
  BY <1>2, <1>3, <1>4, <1>5, <1>6, <1>7, <1>8 DEF IInv, TypeInv

\* Every step of every handler, the driver, the reaper and the process keeps
\* what the lock protects.
LEMMA NextKeeps == IInv /\ [Next]_vars => IInv'
<1> SUFFICES ASSUME IInv, [Next]_vars PROVE IInv'
  OBVIOUS
<1>1. CASE UNCHANGED vars
  <2>1. /\ UNCHANGED <<row, born, obj, map, minted, revoked, given, op, drive, reap,
                       attempts, retry, lost, recovers, crashes, losses>>
        /\ Call
    BY <1>1 DEF vars, Call, Answers
  <2> QED
    BY <2>1, Still DEF IInv, TypeInv, LockInv
<1>2. CASE Next
  BY <1>2, CreateKeeps, RealizeBeginKeeps, RealizePushKeeps, RealizeHoldKeeps, RealizeMintKeeps,
     RealizeWriteKeeps, RealizeUndoKeeps, FailPurgeKeeps, FailRevokeKeeps, FailWriteKeeps,
     DriveCreateKeeps, DriveInspectKeeps, SettleKeeps, SettleUnmakeKeeps, SettleUnmadeKeeps,
     SettleWriteKeeps, EndPreviousKeeps, EndNewKeeps, StartKeeps, StartWriteKeeps,
     StartUndoKeeps, StopKeeps, StopWriteKeeps, DeleteKeeps, DeleteObjectKeeps, ForgetMapKeeps,
     ForgetTokenKeeps, ForgetRowKeeps, ReapListKeeps, ReapDeleteKeeps, ReapStopKeeps,
     ReapTokenKeeps, RotateProjectKeeps, RotateWriteKeeps, ReapNothingKeeps, ReapFinishKeeps,
     ReapVanishedKeeps, LostNotKeeps, LostMarkKeeps, LostWaitKeeps, LostDeleteKeeps,
     RecoverBeginKeeps, RecoverAttemptKeeps, RecoverPushKeeps, RecoverMintKeeps,
     RecoverCreateKeeps, RecoverWriteKeeps, BackoffEndsKeeps, ObjectMovesKeeps, RestartKeeps
     DEF Next, Realize, Fail, Drive, Settles, Acts, Reap, Recover
<1> QED
  BY <1>1, <1>2

\* The invariant holds of every behaviour.
THEOREM Inductive == Spec => []IInv
BY InitKeeps, NextKeeps, PTL DEF Spec

=============================================================================
