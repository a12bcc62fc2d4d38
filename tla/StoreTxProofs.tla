--------------------------- MODULE StoreTxProofs ---------------------------
(***************************************************************************)
(* For every set of objects, names and processes, every budget and every   *)
(* number of transactions, lost answers and lapses: the statements of the  *)
(* Postgres adapter, interleaved as they may be, are the atomic calls of   *)
(* Store (Implements), and a write is refused as a conflict only where the *)
(* process was really overtaken (ConflictMeansOvertaken).                  *)
(*                                                                         *)
(* The argument is about the two locks.  The fence's share lock on the     *)
(* lease row keeps the lease with the one process whose mutation is past   *)
(* its fence, so what that mutation found of the rows and of the ledger is *)
(* so when it commits.  The unique index on (object, sequence) lets one    *)
(* transaction hold an object's next sequence, so it is still the next one *)
(* at the commit, notes of other processes included.                       *)
(***************************************************************************)
EXTENDS StoreTx, TLAPS

Pcs == {"idle", "fence", "debit", "put", "append", "insert", "commit"}
Ops == {"none", "write", "spawn", "remove", "credit", "record"}
Txs == [pc : Pcs, op : Ops, o : Objects \cup {"none"}, n : Names \cup {"none"}, v : Nat, s : Nat]
Rows == [version : Nat, live : BOOLEAN, name : Names \cup {"none"}]
Past == {"debit", "put", "append", "insert", "commit"}

\* The tables and what the processes remember of them.
TablesOK ==
    /\ rows \in [Objects -> Rows] /\ seq \in [Objects -> Nat] /\ used \in Nat
    /\ versions \in [Holders -> [Objects -> Nat]] /\ stale \in [Holders -> SUBSET Objects]
    /\ tx \in [Slots -> Txs]

\* What a transaction may be at: a note appends and nothing else, and each
\* statement belongs to the calls that make it.
Shaped(t) ==
    /\ tx[t].pc # "idle" => tx[t].o \in Objects /\ tx[t].n \in Names /\ tx[t].op # "none"
    /\ t[2] = "note" => tx[t].pc \notin {"fence", "debit", "put"} /\ tx[t].op \in {"none", "record"}
    /\ tx[t].pc = "debit" => tx[t].op \in {"spawn", "credit"}
    /\ tx[t].pc = "put" => tx[t].op \in {"write", "spawn", "remove"}
    /\ tx[t].pc \in {"append", "insert"} => tx[t].op # "credit"

\* What a mutation past its fence found is still so: the lease, the room in
\* the ledger, and the row at the version it was given and the name free.
Fenced(t) ==
    /\ t[2] = "mutation" /\ tx[t].pc \in Past => lease.holder = t[1]
    /\ tx[t].op = "spawn" /\ tx[t].pc \in Past \ {"debit"} => used < Budget
    /\ tx[t].op \in {"write", "spawn"} /\ tx[t].pc \in {"append", "insert", "commit"} =>
           S!PutAnswer(rows, tx[t].o, tx[t].n, tx[t].v) = "ok"

\* A sequence taken is at most the next one, and one inserted is the next one.
Numbered(t) ==
    /\ tx[t].pc = "insert" => tx[t].s # 0 /\ tx[t].s <= seq[tx[t].o] + 1
    /\ tx[t].pc = "commit" /\ tx[t].op # "credit" => tx[t].s = seq[tx[t].o] + 1

\* No two transactions hold the same object's next sequence.
OneInserted ==
    \A t, u \in Slots :
        tx[t].pc = "commit" /\ tx[u].pc = "commit" /\ tx[t].op # "credit" /\ tx[u].op # "credit"
        /\ tx[t].o = tx[u].o => t = u

IInv == TablesOK /\ (\A t \in Slots : Shaped(t) /\ Fenced(t) /\ Numbered(t)) /\ OneInserted

-----------------------------------------------------------------------------
(* The slots and their transactions. *)

\* A slot is a process and one of its two transactions.
LEMMA SlotParts ==
    \A t \in Slots : t[1] \in Holders /\ t[2] \in {"mutation", "note"} /\ t = <<t[1], t[2]>>
BY DEF Slots

\* The fence's share lock: one mutation is past its fence at a time.
LEMMA OneFenced ==
    ASSUME IInv, NEW t \in Slots, NEW u \in Slots, t[2] = "mutation", u[2] = "mutation",
           tx[t].pc \in Past, tx[u].pc \in Past
    PROVE  t = u
BY SlotParts DEF IInv, Fenced

\* An idle transaction asks nothing of the tables.
LEMMA Rests == Idle \in Txs /\ Idle.pc = "idle" /\ Idle.op = "none"
BY DEF Idle, Txs, Pcs, Ops

\* What Goto and End leave of the transactions.
LEMMA Goes ==
    ASSUME tx \in [Slots -> Txs], NEW t \in Slots, NEW pc \in Pcs, Goto(t, pc)
    PROVE  /\ tx' \in [Slots -> Txs]
           /\ tx'[t] = [pc |-> pc, op |-> tx[t].op, o |-> tx[t].o, n |-> tx[t].n, v |-> tx[t].v, s |-> tx[t].s]
           /\ \A u \in Slots \ {t} : tx'[u] = tx[u]
<1>1. ASSUME NEW x \in Txs, NEW y, y = [x EXCEPT !.pc = pc]
      PROVE  y = [pc |-> pc, op |-> x.op, o |-> x.o, n |-> x.n, v |-> x.v, s |-> x.s]
  BY <1>1, Zenon DEF Txs
<1>2. ASSUME NEW x \in Txs
      PROVE  [pc |-> pc, op |-> x.op, o |-> x.o, n |-> x.n, v |-> x.v, s |-> x.s] \in Txs
  BY <1>2 DEF Txs
<1>3. tx[t] \in Txs /\ tx' = [tx EXCEPT ![t] = [tx[t] EXCEPT !.pc = pc]]
  BY Zenon DEF Goto
<1> QED
  BY <1>1, <1>2, <1>3

\* What the end of a transaction leaves of its slot.
LEMMA Ends ==
    ASSUME tx \in [Slots -> Txs], NEW t \in Slots, End(t)
    PROVE  /\ tx' \in [Slots -> Txs] /\ tx'[t].pc = "idle" /\ tx'[t].op = "none"
           /\ \A u \in Slots \ {t} : tx'[u] = tx[u]
BY Rests DEF End

\* A step of one transaction that commits nothing keeps the invariant if it
\* keeps it for that transaction.
LEMMA Steps ==
    ASSUME IInv, NEW t \in Slots, tx' \in [Slots -> Txs], \A u \in Slots \ {t} : tx'[u] = tx[u],
           UNCHANGED <<Tables, Histories>>, Shaped(t)', Fenced(t)', Numbered(t)',
           tx'[t].pc = "commit" /\ tx'[t].op # "credit" =>
               \A u \in Slots \ {t} : tx[u].pc = "commit" /\ tx[u].op # "credit" => tx[u].o # tx'[t].o
    PROVE  IInv'
<1>1. TablesOK'
  BY DEF IInv, TablesOK, Tables, Histories
<1>2. ASSUME NEW u \in Slots, u # t PROVE (Shaped(u) /\ Fenced(u) /\ Numbered(u))'
  <2>1. tx'[u] = tx[u] /\ Shaped(u) /\ Fenced(u) /\ Numbered(u) /\ UNCHANGED <<rows, seq, used, lease>>
    BY <1>2 DEF IInv, Tables
  <2> QED
    BY <2>1 DEF Shaped, Fenced, Numbered, S!PutAnswer, S!AtVersion, S!NameFree
<1>3. OneInserted'
  BY DEF IInv, OneInserted
<1> QED
  BY <1>1, <1>2, <1>3 DEF IInv

\* A transaction that is rolled back.
LEMMA RollsBack ==
    ASSUME IInv, NEW t \in Slots, End(t), UNCHANGED <<Tables, Histories>>
    PROVE  IInv'
<1>1. /\ tx' \in [Slots -> Txs] /\ tx'[t].pc = "idle" /\ tx'[t].op = "none"
      /\ \A u \in Slots \ {t} : tx'[u] = tx[u]
  BY Ends DEF IInv, TablesOK
<1>2. Shaped(t)' /\ Fenced(t)' /\ Numbered(t)'
  BY <1>1 DEF Shaped, Fenced, Numbered, Past
<1> QED
  BY <1>1, <1>2, Steps

-----------------------------------------------------------------------------
(* The statements: none of them changes a table. *)

\* A transaction opens with nothing found yet.
LEMMA BeginKeeps == ASSUME IInv, NEW t \in Slots, Begin(t) PROVE IInv' /\ UNCHANGED Tables
<1>1. PICK o \in Objects, n \in Names, op \in {"write", "spawn", "remove", "credit", "record"} :
          /\ t[2] = "note" => op = "record"
          /\ tx' = [tx EXCEPT ![t] = [pc |-> IF t[2] = "note" THEN "append" ELSE "fence",
                                      op |-> op, o |-> o, n |-> n,
                                      v |-> IF op \in {"write", "spawn"} THEN versions[t[1]][o] ELSE 0, s |-> 0]]
  BY DEF Begin
<1>2. versions[t[1]][o] \in Nat
  BY SlotParts DEF IInv, TablesOK
<1>3. PICK pc, v : /\ pc = (IF t[2] = "note" THEN "append" ELSE "fence") /\ v \in Nat
                   /\ tx' = [tx EXCEPT ![t] = [pc |-> pc, op |-> op, o |-> o, n |-> n, v |-> v, s |-> 0]]
  BY <1>1, <1>2
<1>4. [pc |-> pc, op |-> op, o |-> o, n |-> n, v |-> v, s |-> 0] \in Txs
  BY <1>3 DEF Txs, Pcs, Ops
<1>5. /\ tx' \in [Slots -> Txs] /\ \A u \in Slots \ {t} : tx'[u] = tx[u]
      /\ tx'[t] = [pc |-> pc, op |-> op, o |-> o, n |-> n, v |-> v, s |-> 0]
  BY <1>3, <1>4 DEF IInv, TablesOK
<1>6. tx'[t].pc = pc /\ tx'[t].op = op /\ tx'[t].o = o /\ tx'[t].n = n /\ tx'[t].s = 0
  BY <1>5
<1>7. Shaped(t)' /\ Numbered(t)'
  BY <1>1, <1>3, <1>6 DEF Shaped, Numbered
<1>8. Fenced(t)'
  BY <1>1, <1>3, <1>6, SlotParts DEF Fenced, Past
<1>9. UNCHANGED <<Tables, Histories>>
  BY DEF Begin
<1> QED
  BY <1>3, <1>5, <1>6, <1>7, <1>8, <1>9, Steps

\* holdsLease under the share lock: the lease is this process's from here on.
LEMMA FenceKeeps == ASSUME IInv, NEW t \in Slots, Fence(t) PROVE IInv' /\ UNCHANGED Tables
<1>1. CASE Refuse(t)
  BY <1>1, RollsBack DEF Refuse, Tables, Histories
<1>2. CASE /\ lease.holder = t[1] /\ Goto(t, AfterFence(tx[t].op)) /\ UNCHANGED <<Tables, Histories>>
  <2>1. tx[t].pc = "fence" /\ Shaped(t) /\ tx \in [Slots -> Txs] /\ tx[t] \in Txs
    BY DEF Fence, At, IInv, TablesOK
  <2>2. PICK pc : /\ pc = AfterFence(tx[t].op) /\ pc \in {"debit", "put", "append"} /\ Goto(t, pc)
                  /\ pc = "debit" => tx[t].op \in {"spawn", "credit"}
                  /\ pc = "put" => tx[t].op \in {"write", "remove"}
                  /\ pc = "append" => tx[t].op \in {"none", "record"}
    BY <1>2, <2>1 DEF AfterFence, Txs, Ops
  <2>3. /\ tx' \in [Slots -> Txs] /\ \A u \in Slots \ {t} : tx'[u] = tx[u]
        /\ tx'[t] = [pc |-> pc, op |-> tx[t].op, o |-> tx[t].o, n |-> tx[t].n, v |-> tx[t].v, s |-> tx[t].s]
    BY <2>1, <2>2, Goes DEF Pcs
  <2>4. tx'[t].pc = pc /\ tx'[t].op = tx[t].op /\ tx'[t].o = tx[t].o /\ tx'[t].n = tx[t].n
    BY <2>3
  <2>5. Shaped(t)' /\ Numbered(t)'
    BY <2>1, <2>2, <2>4 DEF Shaped, Numbered
  <2>6. Fenced(t)'
    BY <1>2, <2>1, <2>2, <2>4 DEF Fenced, Past, Shaped, Tables
  <2> QED
    BY <1>2, <2>2, <2>3, <2>4, <2>5, <2>6, Steps
<1> QED
  BY <1>1, <1>2 DEF Fence, Refuse

\* Ledger.Debit: the room it found is kept by its lock on the row.
LEMMA DebitKeeps == ASSUME IInv, NEW t \in Slots, Debit(t) PROVE IInv' /\ UNCHANGED Tables
<1>1. CASE Refuse(t)
  BY <1>1, RollsBack DEF Refuse, Tables, Histories
<1>2. CASE ~Refuse(t)
  <2>1. /\ tx[t].pc = "debit" /\ Shaped(t) /\ Fenced(t) /\ tx \in [Slots -> Txs] /\ UNCHANGED <<Tables, Histories>>
    BY <1>2 DEF Debit, At, IInv, TablesOK
  <2>2. PICK pc : /\ Goto(t, pc) /\ pc \in {"commit", "put"}
                  /\ pc = "commit" => tx[t].op = "credit"
                  /\ pc = "put" => tx[t].op # "credit" /\ used < Budget
    BY <1>2, <2>1 DEF Debit
  <2>3. /\ tx' \in [Slots -> Txs] /\ \A u \in Slots \ {t} : tx'[u] = tx[u]
        /\ tx'[t] = [pc |-> pc, op |-> tx[t].op, o |-> tx[t].o, n |-> tx[t].n, v |-> tx[t].v, s |-> tx[t].s]
    BY <2>1, <2>2, Goes DEF Pcs
  <2>4. tx'[t].pc = pc /\ tx'[t].op = tx[t].op /\ tx'[t].o = tx[t].o /\ tx'[t].n = tx[t].n
    BY <2>3
  <2>5. Shaped(t)' /\ Numbered(t)'
    BY <2>1, <2>2, <2>4 DEF Shaped, Numbered
  <2>6. Fenced(t)'
    BY <2>1, <2>2, <2>4 DEF Fenced, Past, Shaped, Tables
  <2> QED
    BY <2>1, <2>2, <2>3, <2>4, <2>5, <2>6, Steps
<1> QED
  BY <1>1, <1>2

\* Desired.Put: the answer it gave is kept for the commit.
LEMMA PutRowKeeps == ASSUME IInv, NEW t \in Slots, PutRow(t) PROVE IInv' /\ UNCHANGED Tables
<1>1. CASE Refuse(t)
  BY <1>1, RollsBack DEF Refuse, Tables, Histories
<1>2. CASE ~Refuse(t)
  <2>1. /\ tx[t].pc = "put" /\ Shaped(t) /\ Fenced(t) /\ tx \in [Slots -> Txs] /\ UNCHANGED <<Tables, Histories>>
        /\ Goto(t, "append")
        /\ tx[t].op \in {"write", "spawn"} => S!PutAnswer(rows, tx[t].o, tx[t].n, tx[t].v) = "ok"
    BY <1>2 DEF PutRow, At, IInv, TablesOK
  <2>2. /\ tx' \in [Slots -> Txs] /\ \A u \in Slots \ {t} : tx'[u] = tx[u]
        /\ tx'[t] = [pc |-> "append", op |-> tx[t].op, o |-> tx[t].o, n |-> tx[t].n, v |-> tx[t].v, s |-> tx[t].s]
    BY <2>1, Goes DEF Pcs
  <2>3. /\ tx'[t].pc = "append" /\ tx'[t].op = tx[t].op /\ tx'[t].o = tx[t].o /\ tx'[t].n = tx[t].n
        /\ tx'[t].v = tx[t].v
    BY <2>2
  <2>4. Shaped(t)' /\ Numbered(t)'
    BY <2>1, <2>3 DEF Shaped, Numbered
  <2>5. Fenced(t)'
    BY <2>1, <2>3 DEF Fenced, Past, Shaped, Tables, S!PutAnswer, S!AtVersion, S!NameFree
  <2> QED
    BY <2>1, <2>2, <2>3, <2>4, <2>5, Steps
<1> QED
  BY <1>1, <1>2

\* Journal.Append takes the next sequence of what is committed.
LEMMA TakeSeqKeeps == ASSUME IInv, NEW t \in Slots, TakeSeq(t) PROVE IInv' /\ UNCHANGED Tables
<1>1. /\ tx[t].pc = "append" /\ Shaped(t) /\ Fenced(t) /\ tx \in [Slots -> Txs] /\ tx[t] \in Txs
      /\ UNCHANGED <<Tables, Histories>> /\ tx[t].o \in Objects /\ seq[tx[t].o] \in Nat
  BY DEF TakeSeq, At, IInv, TablesOK, Shaped
<1>2. ASSUME NEW x \in Txs, NEW k, NEW y, y = [x EXCEPT !.pc = "insert", !.s = k]
      PROVE  y = [pc |-> "insert", op |-> x.op, o |-> x.o, n |-> x.n, v |-> x.v, s |-> k]
  BY <1>2, Zenon DEF Txs
<1>3. tx' = [tx EXCEPT ![t] = [tx[t] EXCEPT !.pc = "insert", !.s = seq[tx[t].o] + 1]]
  BY DEF TakeSeq
<1>4. tx' = [tx EXCEPT ![t] = [pc |-> "insert", op |-> tx[t].op, o |-> tx[t].o, n |-> tx[t].n,
                               v |-> tx[t].v, s |-> seq[tx[t].o] + 1]]
  BY <1>1, <1>2, <1>3, Zenon
<1>5. [pc |-> "insert", op |-> tx[t].op, o |-> tx[t].o, n |-> tx[t].n, v |-> tx[t].v,
       s |-> seq[tx[t].o] + 1] \in Txs
  BY <1>1 DEF Txs, Pcs
<1>6. /\ tx' \in [Slots -> Txs] /\ \A u \in Slots \ {t} : tx'[u] = tx[u]
      /\ tx'[t] = [pc |-> "insert", op |-> tx[t].op, o |-> tx[t].o, n |-> tx[t].n, v |-> tx[t].v,
                   s |-> seq[tx[t].o] + 1]
  BY <1>1, <1>4, <1>5
<1>7. /\ tx'[t].pc = "insert" /\ tx'[t].op = tx[t].op /\ tx'[t].o = tx[t].o /\ tx'[t].n = tx[t].n
      /\ tx'[t].v = tx[t].v /\ tx'[t].s = seq[tx[t].o] + 1
  BY <1>6
<1>8. Shaped(t)' /\ Numbered(t)'
  BY <1>1, <1>7 DEF Shaped, Numbered, Tables
<1>9. Fenced(t)'
  BY <1>1, <1>7 DEF Fenced, Past, Tables, S!PutAnswer, S!AtVersion, S!NameFree
<1> QED
  BY <1>1, <1>6, <1>7, <1>8, <1>9, Steps

\* The unique index: an insert that goes in holds the next sequence alone.
LEMMA InsertRecordKeeps == ASSUME IInv, NEW t \in Slots, InsertRecord(t) PROVE IInv' /\ UNCHANGED Tables
<1>1. CASE Refuse(t)
  BY <1>1, RollsBack DEF Refuse, Tables, Histories
<1>2. CASE ~Refuse(t)
  <2>1. /\ tx[t].pc = "insert" /\ Shaped(t) /\ Fenced(t) /\ Numbered(t) /\ tx \in [Slots -> Txs]
        /\ UNCHANGED <<Tables, Histories>> /\ Goto(t, "commit") /\ ~(seq[tx[t].o] >= tx[t].s)
        /\ \A u \in Slots \ {t} : ~Inserted(u, tx[t].o, tx[t].s)
    BY <1>2 DEF InsertRecord, At, IInv, TablesOK
  <2>2. tx[t].o \in Objects /\ seq[tx[t].o] \in Nat /\ tx[t].s \in Nat
    BY <2>1 DEF Shaped, IInv, TablesOK, Txs
  <2>3. tx[t].s = seq[tx[t].o] + 1
    BY <2>1, <2>2 DEF Numbered
  <2>4. /\ tx' \in [Slots -> Txs] /\ \A u \in Slots \ {t} : tx'[u] = tx[u]
        /\ tx'[t] = [pc |-> "commit", op |-> tx[t].op, o |-> tx[t].o, n |-> tx[t].n, v |-> tx[t].v, s |-> tx[t].s]
    BY <2>1, Goes DEF Pcs
  <2>5. /\ tx'[t].pc = "commit" /\ tx'[t].op = tx[t].op /\ tx'[t].o = tx[t].o /\ tx'[t].n = tx[t].n
        /\ tx'[t].v = tx[t].v /\ tx'[t].s = tx[t].s
    BY <2>4
  <2>6. Shaped(t)' /\ Numbered(t)'
    BY <2>1, <2>3, <2>5 DEF Shaped, Numbered, Tables
  <2>7. Fenced(t)'
    BY <2>1, <2>5 DEF Fenced, Past, Tables, S!PutAnswer, S!AtVersion, S!NameFree
  <2>8. \A u \in Slots \ {t} : tx[u].pc = "commit" /\ tx[u].op # "credit" => tx[u].o # tx'[t].o
    BY <2>1, <2>3, <2>5 DEF IInv, Numbered, Inserted, At
  <2> QED
    BY <2>1, <2>4, <2>5, <2>6, <2>7, <2>8, Steps
<1> QED
  BY <1>1, <1>2

-----------------------------------------------------------------------------
(* The commit: one step of Store. *)

\* What a commit writes, by the call it is of.
LEMMA Applies ==
    ASSUME IInv, NEW t \in Slots, tx[t].pc = "commit", Apply(t)
    PROVE  /\ rows' \in [Objects -> Rows] /\ seq' \in [Objects -> Nat] /\ used' \in Nat /\ lease' = lease
           /\ t[2] = "note" => rows' = rows /\ used' = used
           /\ tx[t].op = "credit" => seq' = seq
           /\ tx[t].op # "credit" => seq' = [seq EXCEPT ![tx[t].o] = @ + 1]
<1>1. /\ Shaped(t) /\ Numbered(t) /\ tx[t] \in Txs /\ tx[t].o \in Objects /\ tx[t].n \in Names
      /\ rows \in [Objects -> Rows] /\ seq \in [Objects -> Nat] /\ used \in Nat /\ rows[tx[t].o] \in Rows
  BY DEF IInv, TablesOK, Shaped
<1>2. lease' = lease /\ (t[2] = "note" => rows' = rows /\ used' = used)
  BY <1>1 DEF Apply, Written, Shaped
<1>3. used' \in Nat
  BY <1>1 DEF Apply
<1>4. rows' \in [Objects -> Rows]
  <2>1. S!Put(rows, tx[t].o, tx[t].n) \in [Objects -> Rows]
    BY <1>1 DEF S!Put, Rows
  <2>2. S!Delete(rows, tx[t].o) \in [Objects -> Rows]
    <3>1. PICK o : o = tx[t].o /\ o \in Objects /\ rows[o] \in Rows
      BY <1>1
    <3>2. ASSUME NEW r \in Rows, NEW y, y = [r EXCEPT !.live = FALSE, !.version = r.version + 1]
          PROVE  y = [version |-> r.version + 1, live |-> FALSE, name |-> r.name]
      BY <3>2, Zenon DEF Rows
    <3>3. [version |-> rows[o].version + 1, live |-> FALSE, name |-> rows[o].name] \in Rows
      BY <3>1 DEF Rows
    <3>4. [rows[o] EXCEPT !.live = FALSE, !.version = rows[o].version + 1] \in Rows
      BY <3>1, <3>2, <3>3
    <3>5. \/ S!Delete(rows, o) = rows
          \/ S!Delete(rows, o) = [rows EXCEPT ![o] = [rows[o] EXCEPT !.live = FALSE, !.version = rows[o].version + 1]]
      BY <1>1, <3>1 DEF S!Delete
    <3> QED
      BY <1>1, <3>1, <3>4, <3>5
  <2> QED
    BY <1>1, <2>1, <2>2 DEF Apply, Written
<1>5. /\ tx[t].op = "credit" => seq' = seq
      /\ tx[t].op # "credit" => seq' = [seq EXCEPT ![tx[t].o] = @ + 1]
  BY <1>1 DEF Apply, Numbered
<1>6. seq' \in [Objects -> Nat]
  BY <1>1, <1>5
<1> QED
  BY <1>2, <1>3, <1>4, <1>5, <1>6

\* Every commit is one call of Store, of a process the lease names when the
\* call is a mutation.
LEMMA CommitIsCall == ASSUME IInv, NEW t \in Slots, tx[t].pc = "commit", Apply(t) PROVE S!Next
<1>1. /\ Shaped(t) /\ Fenced(t) /\ tx[t] \in Txs /\ tx[t].o \in Objects /\ tx[t].n \in Names /\ used \in Nat
      /\ t[1] \in Holders /\ t[2] \in {"mutation", "note"} /\ rows[tx[t].o].version \in Nat
  BY SlotParts DEF IInv, TablesOK, Shaped, Rows
<1>2. lease' = lease /\ (tx[t].op # "credit" => S!Append(tx[t].o))
  BY Applies DEF S!Append
<1>3. tx[t].op # "record" => S!Holds(t[1])
  BY <1>1 DEF Shaped, Fenced, Past, S!Holds
<1>4. CASE tx[t].op \in {"write", "spawn"}
  <2>1. /\ S!PutAnswer(rows, tx[t].o, tx[t].n, tx[t].v) = "ok" /\ rows' = S!Put(rows, tx[t].o, tx[t].n)
        /\ tx[t].op = "write" => used' = used
        /\ tx[t].op = "spawn" => used < Budget /\ used' = used + 1
    BY <1>1, <1>4 DEF Fenced, Past, Apply, Written
  <2>2. tx[t].v \in 0..rows[tx[t].o].version
    BY <1>1, <2>1 DEF S!PutAnswer, S!AtVersion
  <2>3. \/ S!Write(t[1], tx[t].o, tx[t].n, tx[t].v)
        \/ S!WriteSpawn(t[1], tx[t].o, tx[t].n, tx[t].v)
    BY <1>2, <1>3, <1>4, <2>1 DEF S!Write, S!WriteSpawn
  <2> QED
    BY <1>1, <2>2, <2>3 DEF S!Next
<1>5. CASE tx[t].op = "remove"
  <2>1. S!Remove(t[1], tx[t].o)
    BY <1>2, <1>3, <1>5 DEF Apply, Written, S!Remove
  <2> QED
    BY <1>1, <2>1 DEF S!Next
<1>6. CASE tx[t].op = "credit"
  <2>1. S!CreditSpawn(t[1])
    BY <1>1, <1>2, <1>3, <1>6 DEF Apply, Written, S!CreditSpawn
  <2> QED
    BY <1>1, <2>1 DEF S!Next
<1>7. CASE tx[t].op = "record"
  <2>1. S!WriteRecord(tx[t].o)
    BY <1>2, <1>7 DEF Apply, Written, S!WriteRecord
  <2> QED
    BY <1>1, <2>1 DEF S!Next
<1> QED
  BY <1>1, <1>4, <1>5, <1>6, <1>7 DEF Txs, Ops, Shaped

\* A commit changes the rows and the ledger of nobody else's mutation, and the
\* sequence of an object whose next one nobody else holds.
LEMMA Commits ==
    ASSUME IInv, NEW t \in Slots, tx[t].pc = "commit", Apply(t), End(t),
           versions' \in [Holders -> [Objects -> Nat]], stale' \in [Holders -> SUBSET Objects]
    PROVE  IInv'
<1>1. /\ rows' \in [Objects -> Rows] /\ seq' \in [Objects -> Nat] /\ used' \in Nat /\ lease' = lease
      /\ t[2] = "note" => rows' = rows /\ used' = used
      /\ tx[t].op = "credit" => seq' = seq
      /\ tx[t].op # "credit" => seq' = [seq EXCEPT ![tx[t].o] = @ + 1]
  BY Applies
<1>2. /\ tx' \in [Slots -> Txs] /\ tx'[t].pc = "idle" /\ tx'[t].op = "none"
      /\ \A u \in Slots \ {t} : tx'[u] = tx[u]
  BY Ends DEF IInv, TablesOK
<1>3. Shaped(t)' /\ Fenced(t)' /\ Numbered(t)'
  BY <1>2 DEF Shaped, Fenced, Numbered, Past
<1>4. ASSUME NEW u \in Slots, u # t PROVE (Shaped(u) /\ Fenced(u) /\ Numbered(u))'
  <2>1. tx'[u] = tx[u] /\ Shaped(u) /\ Fenced(u) /\ Numbered(u) /\ tx[u] \in Txs
    BY <1>2, <1>4 DEF IInv, TablesOK
  <2>2. Shaped(u)'
    BY <2>1 DEF Shaped
  <2>3. Fenced(u)'
    <3>1. CASE u[2] = "mutation" /\ tx[u].pc \in Past /\ t[2] = "mutation"
      BY <1>4, <3>1, OneFenced DEF Past
    <3>2. CASE ~(u[2] = "mutation" /\ tx[u].pc \in Past)
      BY <1>1, <2>1, <3>2, SlotParts DEF Fenced, Shaped, Past
    <3>3. CASE t[2] # "mutation"
      BY <1>1, <2>1, <3>3, SlotParts DEF Fenced
    <3> QED
      BY <3>1, <3>2, <3>3
  <2>4. Numbered(u)'
    <3>1. /\ tx[u].pc \in {"insert", "commit"} => tx[u].o \in Objects /\ seq[tx[u].o] \in Nat /\ tx[u].s \in Nat
          /\ tx[t].o \in Objects /\ seq \in [Objects -> Nat]
      BY <2>1 DEF IInv, TablesOK, Shaped, Txs
    <3>2. tx[u].pc = "commit" /\ tx[u].op # "credit" /\ tx[t].op # "credit" => tx[u].o # tx[t].o
      BY <1>4 DEF IInv, OneInserted
    <3> QED
      BY <1>1, <2>1, <3>1, <3>2 DEF Numbered
  <2> QED
    BY <2>2, <2>3, <2>4
<1>5. OneInserted'
  BY <1>2 DEF IInv, OneInserted
<1>6. TablesOK'
  BY <1>1, <1>2 DEF TablesOK
<1> QED
  BY <1>3, <1>4, <1>5, <1>6 DEF IInv

\* A commit answered, and one whose answer is lost.
LEMMA CommitKeeps == ASSUME IInv, NEW t \in Slots, Commit(t) \/ CommitInDoubt(t) PROVE IInv' /\ S!Next
<1>1. tx[t].pc = "commit" /\ Apply(t) /\ End(t)
  BY DEF Commit, CommitInDoubt, At
<1>2. /\ Shaped(t) /\ tx[t].o \in Objects /\ tx[t].n \in Names /\ t[1] \in Holders /\ rows' \in [Objects -> Rows]
      /\ versions \in [Holders -> [Objects -> Nat]] /\ stale \in [Holders -> SUBSET Objects]
  BY <1>1, Applies, SlotParts DEF IInv, TablesOK, Shaped
<1>3. stale' \in [Holders -> SUBSET Objects]
  BY <1>2 DEF Commit, CommitInDoubt, Outdated
<1>4. versions' \in [Holders -> [Objects -> Nat]]
  <2>1. rows'[tx[t].o].version \in Nat /\ rows' = Written(tx[t])
    BY <1>1, <1>2 DEF Rows, Apply
  <2>2. \A k \in Nat : [versions EXCEPT ![t[1]][tx[t].o] = k] \in [Holders -> [Objects -> Nat]]
    BY <1>2
  <2>3. \/ versions' = versions
        \/ versions' = [versions EXCEPT ![t[1]][tx[t].o] = rows'[tx[t].o].version]
        \/ versions' = [versions EXCEPT ![t[1]][tx[t].o] = 0]
    BY <2>1 DEF Commit, CommitInDoubt, Remembered
  <2> QED
    BY <1>2, <2>1, <2>2, <2>3
<1> QED
  BY <1>1, <1>3, <1>4, Commits, CommitIsCall

-----------------------------------------------------------------------------
(* The lease. *)

\* Acquire waits for the share lock, so no mutation is past its fence; Release
\* and a lapse leave the fenced mutation's lease with its process.
LEMMA LeaseKeeps ==
    ASSUME IInv, \/ \E h \in Holders : Acquire(h) \/ Release(h)
                 \/ Lapse
    PROVE  IInv' /\ S!Next
<1>1. UNCHANGED <<rows, seq, used, tx>>
  BY DEF Acquire, Release, Lapse, S!Release, S!Lapse
<1>2. /\ rows \in [Objects -> Rows] /\ versions \in [Holders -> [Objects -> Nat]]
      /\ stale \in [Holders -> SUBSET Objects]
  BY DEF IInv, TablesOK
<1>3. versions' \in [Holders -> [Objects -> Nat]] /\ stale' \in [Holders -> SUBSET Objects]
  <2>1. ASSUME NEW h \in Holders, Load(h)
        PROVE  versions' \in [Holders -> [Objects -> Nat]] /\ stale' \in [Holders -> SUBSET Objects]
    BY <1>2, <2>1 DEF Load, Rows
  <2> QED
    BY <1>2, <2>1 DEF Acquire, Release, Lapse, Histories
<1>4. TablesOK'
  BY <1>1, <1>3 DEF IInv, TablesOK
<1>5. ASSUME NEW t \in Slots PROVE (Shaped(t) /\ Fenced(t) /\ Numbered(t))'
  <2>1. Shaped(t) /\ Fenced(t) /\ Numbered(t) /\ t = <<t[1], t[2]>>
    BY SlotParts DEF IInv
  <2>2. t[2] = "mutation" /\ tx[t].pc \in Past => lease'.holder = t[1]
    <3> SUFFICES ASSUME t[2] = "mutation", tx[t].pc \in Past PROVE lease'.holder = t[1]
      OBVIOUS
    <3>1. lease.holder = t[1] /\ LeaseShared /\ tx[<<t[1], "mutation">>].pc # "idle"
      BY <2>1 DEF Fenced, LeaseShared, At, Past
    <3>2. ASSUME NEW h \in Holders, Acquire(h) PROVE FALSE
      BY <3>1, <3>2 DEF Acquire
    <3>3. ASSUME NEW h \in Holders, Release(h) PROVE FALSE
      BY <3>1, <3>3 DEF Release, S!Release, At
    <3>4. CASE Lapse
      BY <3>1, <3>4 DEF Lapse, S!Lapse
    <3> QED
      BY <3>2, <3>3, <3>4
  <2> QED
    BY <1>1, <2>1, <2>2 DEF Shaped, Fenced, Numbered, S!PutAnswer, S!AtVersion, S!NameFree
<1>6. OneInserted'
  BY <1>1 DEF IInv, OneInserted
<1>7. S!Next
  <2>1. ASSUME NEW h \in Holders, Acquire(h) PROVE S!Acquire(h)
    BY <2>1 DEF Acquire, S!Acquire
  <2>2. ASSUME NEW h \in Holders, Release(h) PROVE S!Release(h)
    BY <2>2 DEF Release
  <2>3. Lapse => S!Lapse
    BY DEF Lapse
  <2> QED
    BY <2>1, <2>2, <2>3 DEF S!Next
<1> QED
  BY <1>4, <1>5, <1>6, <1>7 DEF IInv

-----------------------------------------------------------------------------
(* The invariant, and what follows from it. *)

\* The empty tables and idle processes a cluster starts with.
LEMMA InitKeeps == Init => IInv
<1> SUFFICES ASSUME Init PROVE IInv
  OBVIOUS
<1>1. /\ rows = [o \in Objects |-> S!NoRow] /\ seq = [o \in Objects |-> 0] /\ used = 0
      /\ tx = [t \in Slots |-> Idle] /\ versions = [h \in Holders |-> [o \in Objects |-> 0]]
      /\ stale = [h \in Holders |-> {}]
  BY DEF Init, S!Init
<1>2. S!NoRow \in Rows
  BY DEF S!NoRow, S!NoName, Rows
<1>3. TablesOK
  BY <1>1, <1>2, Rests DEF TablesOK
<1>4. \A t \in Slots : tx[t].pc = "idle" /\ tx[t].op = "none"
  BY <1>1, Rests
<1> QED
  BY <1>3, <1>4 DEF IInv, Shaped, Fenced, Numbered, OneInserted, Past

\* The statement that fails rolls its transaction back.
LEMMA FailKeeps == ASSUME IInv, NEW t \in Slots, Fail(t) PROVE IInv' /\ UNCHANGED Tables
BY RollsBack DEF Fail, Tables, Histories

\* Every step keeps the invariant, and is a step of Store or leaves its tables.
LEMMA NextKeeps == IInv /\ [Next]_vars => IInv' /\ [S!Next]_(S!storeVars)
<1> SUFFICES ASSUME IInv, [Next]_vars PROVE IInv' /\ (S!Next \/ UNCHANGED Tables)
  BY DEF Tables, S!storeVars
<1>1. CASE UNCHANGED vars
  <2>1. UNCHANGED <<rows, seq, used, lease, tx, versions, stale>>
    BY <1>1 DEF vars
  <2> QED
    BY <2>1 DEF IInv, TablesOK, Shaped, Fenced, Numbered, OneInserted, Tables,
                S!PutAnswer, S!AtVersion, S!NameFree
<1>2. ASSUME NEW t \in Slots, Begin(t) \/ Step(t) \/ CommitInDoubt(t) \/ Fail(t)
      PROVE  IInv' /\ (S!Next \/ UNCHANGED Tables)
  BY <1>2, BeginKeeps, FenceKeeps, DebitKeeps, PutRowKeeps, TakeSeqKeeps, InsertRecordKeeps,
     CommitKeeps, FailKeeps DEF Step
<1> QED
  BY <1>1, <1>2, LeaseKeeps DEF Next

\* The invariant of the two locks holds of every behaviour.
THEOREM LocksHold == Spec => []IInv
BY InitKeeps, NextKeeps, PTL DEF Spec

\* postgres and writer.go against store.go: the transactions, statement by
\* statement and however they interleave, fail or lose their answer, implement
\* the atomic calls, and a fenced mutation commits only while the lease names
\* its process.
THEOREM StoreImplemented == Spec => Implements
<1>1. Init => S!Init
  BY DEF Init
<1> QED
  BY <1>1, InitKeeps, NextKeeps, PTL DEF Spec, Implements, S!Spec

\* What a commit leaves every process that does not remember it with.
LEMMA CommitTells ==
    ASSUME IInv, ConflictMeansOvertaken, NEW t \in Slots, Commit(t) \/ CommitInDoubt(t)
    PROVE  ConflictMeansOvertaken'
<1>1. PICK o : /\ o = tx[t].o /\ o \in Objects /\ tx[t].pc = "commit" /\ rows' = Written(tx[t])
  BY DEF Commit, CommitInDoubt, At, Apply, IInv, Shaped
<1>2. /\ rows \in [Objects -> Rows] /\ versions \in [Holders -> [Objects -> Nat]]
      /\ stale \in [Holders -> SUBSET Objects] /\ t[1] \in Holders
  BY SlotParts DEF IInv, TablesOK
<1>3. \A q \in Objects \ {o} : rows'[q] = rows[q] /\ \A h \in Holders : versions'[h][q] = versions[h][q]
  BY <1>1, <1>2 DEF Commit, CommitInDoubt, Written, S!Put, S!Delete, Remembered
<1>4. \A h \in Holders : stale[h] \subseteq stale'[h]
  BY <1>2 DEF Commit, CommitInDoubt, Outdated
<1>5. ASSUME NEW h \in Holders, rows'[o].live, versions'[h][o] # rows'[o].version PROVE o \in stale'[h]
  <2>1. CASE tx[t].op \in {"write", "spawn"}
    <3>1. CASE h = t[1] /\ Commit(t)
      BY <1>1, <1>2, <1>5, <2>1, <3>1 DEF Commit, Remembered
    <3>2. CASE ~(h = t[1] /\ Commit(t))
      BY <1>1, <2>1, <3>2 DEF Commit, CommitInDoubt, Outdated
    <3> QED
      BY <3>1, <3>2
  <2>2. CASE tx[t].op = "remove"
    BY <1>1, <1>2, <1>5, <2>2 DEF Written, S!Delete, Rows
  <2>3. CASE tx[t].op \notin {"write", "spawn", "remove"}
    <3>1. rows' = rows /\ versions' = versions
      BY <1>1, <2>3 DEF Written, Commit, CommitInDoubt, Remembered
    <3> QED
      BY <1>1, <1>4, <1>5, <3>1 DEF ConflictMeansOvertaken
  <2> QED
    BY <2>1, <2>2, <2>3
<1> QED
  BY <1>3, <1>4, <1>5 DEF ConflictMeansOvertaken

\* A process that takes the lease from another reads every row.
LEMMA LoadTells ==
    ASSUME IInv, ConflictMeansOvertaken, NEW h \in Holders, Load(h), rows' = rows
    PROVE  ConflictMeansOvertaken'
<1>1. /\ \A o \in Objects : rows[o].live => versions'[h][o] = rows[o].version
      /\ \A g \in Holders \ {h} : versions'[g] = versions[g] /\ stale'[g] = stale[g]
  BY DEF Load, IInv, TablesOK
<1> QED
  BY <1>1 DEF ConflictMeansOvertaken

\* Controlled.versions: a write is refused as a conflict only where another
\* process wrote the object or this one's own commit was left in doubt.
THEOREM Overtaken == Spec => []ConflictMeansOvertaken
<1>1. Init => ConflictMeansOvertaken
  BY DEF Init, S!Init, S!NoRow, ConflictMeansOvertaken
<1>2. IInv /\ ConflictMeansOvertaken /\ [Next]_vars => ConflictMeansOvertaken'
  <2> SUFFICES ASSUME IInv, ConflictMeansOvertaken, [Next]_vars PROVE ConflictMeansOvertaken'
    OBVIOUS
  <2>1. CASE UNCHANGED <<rows, versions, stale>>
    BY <2>1 DEF ConflictMeansOvertaken
  <2>2. ASSUME NEW t \in Slots, Begin(t) \/ Step(t) \/ CommitInDoubt(t) \/ Fail(t)
        PROVE  ConflictMeansOvertaken'
    BY <2>1, <2>2, CommitTells
       DEF Begin, Step, Fence, Debit, PutRow, TakeSeq, InsertRecord, Refuse, Fail, Tables, Histories
  <2>3. ASSUME NEW h \in Holders, Acquire(h) \/ Release(h) PROVE ConflictMeansOvertaken'
    BY <2>1, <2>3, LoadTells DEF Acquire, Release, S!Release, Histories
  <2>4. CASE Lapse
    BY <2>1, <2>4 DEF Lapse, S!Lapse, Histories
  <2> QED
    BY <2>1, <2>2, <2>3, <2>4 DEF Next, vars
<1> QED
  BY <1>1, <1>2, LocksHold, PTL DEF Spec

=============================================================================
