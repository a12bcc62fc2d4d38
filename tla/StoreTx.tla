------------------------------- MODULE StoreTx -------------------------------
(***************************************************************************)
(* The Postgres adapter (internal/store/postgres) under the controller's   *)
(* bridge (internal/store/controller.go, writer.go): a transaction is a    *)
(* sequence of statements, and the statements of several transactions      *)
(* interleave.  The module refines Store, where every call is atomic.      *)
(*                                                                         *)
(* A process runs at most one mutation at a time, because the controller   *)
(* holds its mutex through every write, and beside it the record of an     *)
(* operation, which Emitter.Write appends in a transaction of its own.     *)
(* A slot is one such transaction.                                         *)
(***************************************************************************)
EXTENDS Integers, FiniteSets

CONSTANTS
    Objects, Names, Holders, Budget,
    MaxBegun,       \* transactions begun
    MaxDoubts,      \* commits whose answer is lost
    MaxLapses       \* terms of the lease that pass

VARIABLES
    rows, seq, used, lease,     \* the committed tables
    tx,                         \* the open transaction of each slot
    versions,                   \* Controlled.versions of each process
    stale,                      \* history: objects a process's versions may be behind on
    begun, doubts, lapses

vars == <<rows, seq, used, lease, tx, versions, stale, begun, doubts, lapses>>

S == INSTANCE Store

Slots == Holders \X {"mutation", "note"}

Idle == [pc |-> "idle", op |-> "none", o |-> "none", n |-> "none", v |-> 0, s |-> 0]

Init ==
    /\ S!Init
    /\ tx = [t \in Slots |-> Idle]
    /\ versions = [h \in Holders |-> [o \in Objects |-> 0]]
    /\ stale = [h \in Holders |-> {}]
    /\ begun = 0 /\ doubts = 0 /\ lapses = 0

At(t, pcs) == tx[t].pc \in pcs
Goto(t, pc) == tx' = [tx EXCEPT ![t].pc = pc]
Tables == <<rows, seq, used, lease>>
Bounds == <<begun, doubts, lapses>>
Histories == <<versions, stale>>

End(t) == tx' = [tx EXCEPT ![t] = Idle]

(* A refusal rolls the transaction back. *)
Refuse(t) ==
    /\ End(t)
    /\ UNCHANGED <<rows, seq, used, lease, versions, stale, begun, doubts, lapses>>
(* Bug: the fence reads the lease row without a lock. *)
LeaseUnshared == FALSE

(***************************************************************************)
(* Locks the open transactions hold.  The fence reads the lease row for    *)
(* share, so an Acquire waits for every fenced transaction; an update or   *)
(* an insert holds its row until the transaction ends.                     *)
(***************************************************************************)
LeaseShared == \E t \in Slots : t[2] = "mutation" /\ At(t, {"debit", "put", "append", "insert", "commit"})
Inserted(t, o, s) == At(t, {"commit"}) /\ tx[t].o = o /\ tx[t].s = s

(***************************************************************************)
(* Begin: WriteData, WriteSpawn, Remove, CreditSpawn and WriteRecord read  *)
(* the version this process holds and open a transaction that asks the     *)
(* fence first; eventJournal.Append opens one that asks nothing.           *)
(***************************************************************************)
Begin(t) ==
    /\ At(t, {"idle"})
    /\ begun < MaxBegun
    /\ begun' = begun + 1
    /\ \E o \in Objects, n \in Names, op \in {"write", "spawn", "remove", "credit", "record"} :
        LET h == t[1] IN
        /\ op \in {"remove", "credit", "record"} => n = CHOOSE m \in Names : TRUE
        /\ op = "credit" => o = CHOOSE q \in Objects : TRUE
        /\ t[2] = "note" => op = "record"
        /\ tx' = [tx EXCEPT ![t] = [pc |-> IF t[2] = "note" THEN "append" ELSE "fence",
                                    op |-> op, o |-> o, n |-> n,
                                    v |-> IF op \in {"write", "spawn"} THEN versions[h][o] ELSE 0, s |-> 0]]
    /\ UNCHANGED <<Tables, Histories, doubts, lapses>>

AfterFence(op) ==
    CASE op \in {"spawn", "credit"} -> "debit"
      [] op \in {"write", "remove"} -> "put"
      [] OTHER -> "append"

(* holdsLease: the row names this process and its term runs, read for share. *)
Fence(t) ==
    /\ At(t, {"fence"})
    /\ IF lease.holder = t[1] /\ lease.live
       THEN /\ Goto(t, AfterFence(tx[t].op))
            /\ UNCHANGED <<Tables, Histories, Bounds>>
       ELSE Refuse(t)
(***************************************************************************)
(* Ledger.Debit is one conditional upsert, and Credit one conditional      *)
(* update: the row stays locked until the transaction ends.                *)
(***************************************************************************)
Debit(t) ==
    /\ At(t, {"debit"})
    /\ IF tx[t].op = "credit"
       THEN /\ Goto(t, "commit")
            /\ UNCHANGED <<Tables, Histories, Bounds>>
       ELSE IF used < Budget
       THEN /\ Goto(t, "put")
            /\ UNCHANGED <<Tables, Histories, Bounds>>
       ELSE Refuse(t)

(* Desired.Put and Desired.Delete: a refusal rolls the transaction back. *)
PutRow(t) ==
    LET x == tx[t]
        a == IF x.op = "remove" THEN "ok" ELSE S!PutAnswer(rows, x.o, x.n, x.v)
    IN  /\ At(t, {"put"})
        /\ IF a = "ok"
           THEN /\ Goto(t, "append")
                /\ UNCHANGED <<Tables, Histories, Bounds>>
           ELSE Refuse(t)

(***************************************************************************)
(* Journal.Append takes max(seq) + 1 of what is committed, and its insert  *)
(* then waits for another transaction's row of the same sequence.  When    *)
(* that one commits, the unique index refuses this one; when it rolls      *)
(* back, this one goes in.                                                 *)
(***************************************************************************)
TakeSeq(t) ==
    /\ At(t, {"append"})
    /\ tx' = [tx EXCEPT ![t].pc = "insert", ![t].s = seq[tx[t].o] + 1]
    /\ UNCHANGED <<Tables, Histories, Bounds>>

InsertRecord(t) ==
    /\ At(t, {"insert"})
    /\ \A u \in Slots \ {t} : ~Inserted(u, tx[t].o, tx[t].s)
    /\ IF seq[tx[t].o] >= tx[t].s
       THEN Refuse(t)
       ELSE /\ Goto(t, "commit")
            /\ UNCHANGED <<Tables, Histories, Bounds>>

(***************************************************************************)
(* What a transaction wrote becomes visible at its commit.                 *)
(***************************************************************************)
Written(x) ==
    CASE x.op \in {"write", "spawn"} -> S!Put(rows, x.o, x.n)
      [] x.op = "remove" -> S!Delete(rows, x.o)
      [] OTHER -> rows

Apply(t) ==
    LET x == tx[t] IN
    /\ rows' = Written(x)
    /\ seq' = IF x.op = "credit" THEN seq ELSE [seq EXCEPT ![x.o] = x.s]
    /\ used' = CASE x.op = "spawn" -> used + 1
                 [] x.op = "credit" /\ used > 0 -> used - 1
                 [] OTHER -> used
    /\ UNCHANGED lease

(* Every process but the ones in known may now hold an older version of o. *)
Outdated(t, known) ==
    stale' = [h \in Holders |-> IF tx[t].op \in {"write", "spawn", "remove"} /\ h \notin known
                                THEN stale[h] \cup {tx[t].o} ELSE stale[h]]
Remembered(t) ==
    LET x == tx[t] IN
    CASE x.op \in {"write", "spawn"} -> [versions EXCEPT ![t[1]][x.o] = Written(x)[x.o].version]
      [] x.op = "remove" -> [versions EXCEPT ![t[1]][x.o] = 0]
      [] OTHER -> versions

Commit(t) ==
    /\ At(t, {"commit"})
    /\ Apply(t)
    /\ versions' = Remembered(t)
    /\ Outdated(t, {t[1]})
    /\ End(t)
    /\ UNCHANGED Bounds

(* The commit lands and its answer is lost: the caller is told it failed. *)
CommitInDoubt(t) ==
    /\ At(t, {"commit"})
    /\ doubts < MaxDoubts
    /\ doubts' = doubts + 1
    /\ Apply(t)
    /\ Outdated(t, {})
    /\ End(t)
    /\ UNCHANGED <<versions, begun, lapses>>

(* A statement fails: the transaction rolls back. *)
Fail(t) ==
    /\ ~At(t, {"idle"})
    /\ doubts < MaxDoubts
    /\ doubts' = doubts + 1
    /\ End(t)
    /\ UNCHANGED <<Tables, versions, stale, begun, lapses>>

(***************************************************************************)
(* The lease.  Acquire updates the row, so it waits for the shared lock of *)
(* a fenced transaction; a process that takes it from another loads every  *)
(* row before it writes one.  Release runs once its loops have stopped.    *)
(***************************************************************************)
Load(h) ==
    /\ versions' = [versions EXCEPT ![h] = [o \in Objects |-> IF rows[o].live THEN rows[o].version ELSE 0]]
    /\ stale' = [stale EXCEPT ![h] = {}]

Acquire(h) ==
    /\ S!Free(h)
    /\ ~LeaseShared
    /\ At(<<h, "mutation">>, {"idle"})
    /\ ~(lease.live /\ lease.holder = h)
    /\ lease' = [holder |-> h, live |-> TRUE]
    /\ IF lease.holder = h THEN UNCHANGED <<versions, stale>> ELSE Load(h)
    /\ UNCHANGED <<rows, seq, used, tx, begun, doubts, lapses>>

Release(h) ==
    /\ At(<<h, "mutation">>, {"idle"})
    /\ lapses < MaxLapses
    /\ lapses' = lapses + 1
    /\ S!Release(h)
    /\ UNCHANGED <<tx, Histories, begun, doubts>>

Lapse ==
    /\ lapses < MaxLapses
    /\ lapses' = lapses + 1
    /\ S!Lapse
    /\ UNCHANGED <<tx, Histories, begun, doubts>>

Step(t) ==
    \/ Fence(t) \/ Debit(t) \/ PutRow(t) \/ TakeSeq(t) \/ InsertRecord(t) \/ Commit(t)

Next ==
    \/ \E t \in Slots : Begin(t) \/ Step(t) \/ CommitInDoubt(t) \/ Fail(t)
    \/ \E h \in Holders : Acquire(h) \/ Release(h)
    \/ Lapse

Fairness ==
  /\ \A t \in Slots : WF_vars(Step(t))

Spec == Init /\ [][Next]_vars /\ Fairness

-----------------------------------------------------------------------------
(* Committed rows, sequences and counts stay in their types. *)
TypeOK ==
    /\ rows \in [Objects -> [version : 0 .. 2 * MaxBegun, live : BOOLEAN, name : Names \cup {"none"}]]
    /\ seq \in [Objects -> 0 .. MaxBegun]
    /\ used \in 0 .. Budget

(***************************************************************************)
(* The interleaved statements implement the atomic contract: whatever a    *)
(* transaction does in several statements, some one step of Store does,    *)
(* and a fenced write commits only while the lease names its process       *)
(* (store.go: "the count is read and written in one statement"; writer.go: *)
(* a writer that lost its lease writes nothing after its successor read).  *)
(***************************************************************************)
Implements == S!Spec

(***************************************************************************)
(* A conditional write is refused as a conflict only where another process *)
(* wrote the object, or this process's own commit was lost in doubt, or    *)
(* the object was removed: Controlled.versions follows what it wrote.      *)
(***************************************************************************)
ConflictMeansOvertaken ==
    \A h \in Holders, o \in Objects :
        rows[o].live /\ versions[h][o] # rows[o].version => o \in stale[h]

(***************************************************************************)
(* No transaction waits forever: the statements take their locks in one    *)
(* order, so what an insert waits for ends.                                *)
(***************************************************************************)
TransactionsEnd == \A t \in Slots : tx[t].pc # "idle" ~> tx[t].pc = "idle"

=============================================================================
