------------------------------- MODULE Store -------------------------------
(***************************************************************************)
(* What a store of desired state promises: every call is one atomic        *)
(* transaction (internal/store/store.go), as the memory adapter runs it    *)
(* under its one mutex (internal/store/memory/memory.go).                  *)
(*                                                                         *)
(* A row is a version, a live bit and a name; a deleted row keeps its id   *)
(* and its version.  seq is the newest journal sequence of each object,    *)
(* used the spawn ledger of the one parent of the instance, and lease the  *)
(* row of the writer lease: who holds it and whether its term still runs.  *)
(***************************************************************************)
EXTENDS Integers, FiniteSets

CONSTANTS
    Objects,        \* ids of sandboxes
    Names,          \* the names a caller gives them
    Holders,        \* the processes that may hold the writer lease
    Budget          \* the parent's spawn budget

VARIABLES rows, seq, used, lease

storeVars == <<rows, seq, used, lease>>

NoName == "none"
Nobody == "nobody"

NoRow == [version |-> 0, live |-> FALSE, name |-> NoName]

Init ==
    /\ rows = [o \in Objects |-> NoRow]
    /\ seq = [o \in Objects |-> 0]
    /\ used = 0
    /\ lease = [holder |-> Nobody, live |-> FALSE]

(***************************************************************************)
(* Desired.Put at ifVersion v: zero creates, and an id that exists, live   *)
(* or deleted, is a conflict; another number is the version the caller     *)
(* read; a live row of the same name refuses either.                       *)
(***************************************************************************)
AtVersion(rs, o, v) == rs[o].version = v

NameFree(rs, o, n) == \A q \in Objects \ {o} : rs[q].live => rs[q].name # n

PutAnswer(rs, o, n, v) ==
    CASE v # 0 /\ rs[o].version = 0 -> "not_found"
      [] ~AtVersion(rs, o, v) -> "conflict"
      [] ~NameFree(rs, o, n) -> "name_taken"
      [] OTHER -> "ok"

Put(rs, o, n) ==
    [rs EXCEPT ![o] = [version |-> @.version + 1, live |-> TRUE, name |-> n]]

(* Desired.Delete: the row is marked deleted and its version moves on. *)
Delete(rs, o) ==
    IF rs[o].live THEN [rs EXCEPT ![o].live = FALSE, ![o].version = @ + 1] ELSE rs

(* Journal.Append: the object's next sequence. *)
Append(o) == seq' = [seq EXCEPT ![o] = @ + 1]

(***************************************************************************)
(* Leases.Acquire takes a lease nobody holds, one whose term lapsed, or    *)
(* the holder's own; Release frees only the holder's own.                  *)
(***************************************************************************)
Free(h) == ~lease.live \/ lease.holder = h

Holds(h) == lease.holder = h

Acquire(h) ==
    /\ Free(h)
    /\ lease' = [holder |-> h, live |-> TRUE]
    /\ UNCHANGED <<rows, seq, used>>

Release(h) ==
    /\ lease.holder = h
    /\ lease' = [holder |-> Nobody, live |-> FALSE]
    /\ UNCHANGED <<rows, seq, used>>

(* The lease's term passes: expires_at is no longer after now. *)
Lapse ==
    /\ lease.live
    /\ lease' = [lease EXCEPT !.live = FALSE]
    /\ UNCHANGED <<rows, seq, used>>

(***************************************************************************)
(* The transactions of the controller's bridge.  Each commits while the    *)
(* lease row still names the process that ran it.                          *)
(***************************************************************************)
Write(h, o, n, v) ==
    /\ Holds(h)
    /\ PutAnswer(rows, o, n, v) = "ok"
    /\ rows' = Put(rows, o, n)
    /\ Append(o)
    /\ UNCHANGED <<used, lease>>

WriteSpawn(h, o, n, v) ==
    /\ Holds(h)
    /\ used < Budget
    /\ PutAnswer(rows, o, n, v) = "ok"
    /\ used' = used + 1
    /\ rows' = Put(rows, o, n)
    /\ Append(o)
    /\ UNCHANGED lease

Remove(h, o) ==
    /\ Holds(h)
    /\ rows' = Delete(rows, o)
    /\ Append(o)
    /\ UNCHANGED <<used, lease>>

CreditSpawn(h) ==
    /\ Holds(h)
    /\ used' = IF used > 0 THEN used - 1 ELSE 0
    /\ UNCHANGED <<rows, seq, lease>>

(* A record with no mutation of its own: no fence is asked. *)
WriteRecord(o) ==
    /\ Append(o)
    /\ UNCHANGED <<rows, used, lease>>

Next ==
    \/ Lapse
    \/ \E h \in Holders :
        \/ Acquire(h)
        \/ Release(h)
        \/ CreditSpawn(h)
        \/ \E o \in Objects :
            \/ Remove(h, o)
            \/ \E n \in Names, v \in 0 .. rows[o].version :
                Write(h, o, n, v) \/ WriteSpawn(h, o, n, v)
    \/ \E o \in Objects : WriteRecord(o)

Spec == Init /\ [][Next]_storeVars

=============================================================================
