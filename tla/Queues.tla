------------------------------- MODULE Queues -------------------------------
\* The store's two queues: the journal delivered to the sink, and the operations
\* written for workers.
EXTENDS Integers, FiniteSets, Naturals

-----------------------------------------------------------------------------
(***************************************************************************)
(* Delivery of the journal to the sink (internal/events/deliver.go over    *)
(* the journals of internal/store): each replica runs the loop, the one    *)
(* holding the journal lease takes what is due, at most one record of each *)
(* object, posts it, and marks its row.                                    *)
(*                                                                         *)
(* Nothing fences the marks, and the lease may lapse during a pass, so two *)
(* passes may run at once.  A post is on the wire until the sink takes it, *)
(* which may be after the deliverer stopped waiting for it.                *)
(***************************************************************************)

CONSTANTS
    Objects,        \* objects with records
    MaxSeq,         \* records of one object
    Deliverers,     \* replicas with a sink configured
    MaxFailures     \* answers that are not 2xx, posts lost, writes failed, leases lapsed

VARIABLES
    row,            \* each record's delivery columns
    lease,          \* who holds the journal lease
    d,              \* each deliverer: the records of its pass and where each stands
    wire,           \* posts on the way to the sink
    received,       \* records the sink has taken
    refused,        \* history: records the sink refused for good
    closed,         \* records whose retry window has passed
    failures

deliveryVars == <<row, lease, d, wire, received, refused, closed, failures>>

Records == Objects \X (1 .. MaxSeq)
Nobody == "nobody"

DeliveryInit ==
    /\ row = [x \in Records |-> [acked |-> FALSE, dropped |-> FALSE, due |-> TRUE]]
    /\ lease = Nobody
    /\ d = [p \in Deliverers |-> [pc |-> "idle", pass |-> {}, posting |-> {}, stale |-> {}]]
    /\ wire = {}
    /\ received = {} /\ refused = {} /\ closed = {}
    /\ failures = 0

Finished(x) == row[x].acked \/ row[x].dropped
(* Journal.Pending: each object's lowest unfinished sequence, then the due filter. *)
Heads == {x \in Records : ~Finished(x) /\ \A k \in 1 .. (x[2] - 1) : Finished(<<x[1], k>>)}
Pending == {x \in Heads : row[x].due}

Fault == failures < MaxFailures /\ failures' = failures + 1

(* Pass: the lease is taken or renewed, then what is due is read. *)
TakeLease(p) ==
    /\ d[p].pc = "idle"
    /\ lease \in {Nobody, p}
    /\ Heads # {}
    /\ lease' = p
    /\ d' = [d EXCEPT ![p].pc = "held"]
    /\ UNCHANGED <<row, wire, received, refused, closed, failures>>

ReadPending(p) ==
    /\ d[p].pc = "held"
    /\ d' = [d EXCEPT ![p] = IF Pending = {} THEN [@ EXCEPT !.pc = "idle"]
                             ELSE [pc |-> "pass", pass |-> Pending, posting |-> {}, stale |-> closed]]
    /\ UNCHANGED <<row, lease, wire, received, refused, closed, failures>>
(* One record of the pass leaves it; the pass ends with the last. *)
Done(p, x) ==
    LET rest == d[p].pass \ {x} IN
    d' = [d EXCEPT ![p] = IF rest = {} THEN [pc |-> "idle", pass |-> {}, posting |-> {}, stale |-> {}]
                          ELSE [@ EXCEPT !.pass = rest, !.posting = @ \ {x}]]

(* drop: the record is marked, or that write fails and it is still due. *)
Drop(p, x) ==
    /\ Done(p, x)
    /\ \/ row' = [row EXCEPT ![x].dropped = TRUE]
       \/ UNCHANGED row

(***************************************************************************)
(* deliver: a record past its window at the pass's instant is dropped, any *)
(* other is posted.                                                        *)
(***************************************************************************)
DropOld(p, x) ==
    /\ x \in d[p].pass \ d[p].posting
    /\ x \in d[p].stale
    /\ Drop(p, x)
    /\ \/ row'[x].dropped /\ UNCHANGED failures
       \/ ~row'[x].dropped /\ Fault
    /\ UNCHANGED <<lease, wire, received, refused, closed>>

Post(p, x) ==
    /\ x \in d[p].pass \ d[p].posting
    /\ x \notin d[p].stale
    /\ d' = [d EXCEPT ![p].posting = @ \cup {x}]
    /\ wire' = wire \cup {<<p, x>>}
    /\ UNCHANGED <<row, lease, received, refused, closed, failures>>

Take(p, x) == wire' = wire \ {<<p, x>>}

(* 2xx: the row is acknowledged, unless that write fails. *)
Acknowledge(p, x) ==
    /\ <<p, x>> \in wire /\ x \in d[p].posting
    /\ Take(p, x)
    /\ received' = received \cup {x}
    /\ Done(p, x)
    /\ \/ row' = [row EXCEPT ![x].acked = TRUE] /\ UNCHANGED failures
       \/ Fault /\ UNCHANGED row
    /\ UNCHANGED <<lease, refused, closed>>

(* A 4xx but 401: the record is dropped, unless that write fails. *)
Refuse(p, x) ==
    /\ <<p, x>> \in wire /\ x \in d[p].posting
    /\ Fault
    /\ Take(p, x)
    /\ received' = received \cup {x}
    /\ refused' = refused \cup {x}
    /\ Drop(p, x)
    /\ UNCHANGED <<lease, closed>>
(***************************************************************************)
(* No answer in time, a 401 or a 5xx: the record is deferred, or dropped   *)
(* where its next attempt falls past the window; either write may fail.    *)
(* The post itself may still reach the sink.                               *)
(***************************************************************************)
Retry(p, x) ==
    /\ x \in d[p].posting
    /\ Fault
    /\ \/ row' = [row EXCEPT ![x].due = FALSE] /\ Done(p, x) /\ UNCHANGED closed
       \/ UNCHANGED row /\ Done(p, x) /\ UNCHANGED closed
       \/ Drop(p, x) /\ closed' = closed \cup {x}
    /\ \/ Take(p, x) \/ UNCHANGED wire
    /\ UNCHANGED <<lease, received, refused>>

(* A post whose deliverer no longer waits reaches the sink, or never does. *)
Late(p, x) ==
    /\ <<p, x>> \in wire /\ x \notin d[p].posting
    /\ Take(p, x)
    /\ \/ received' = received \cup {x}
       \/ UNCHANGED received
    /\ UNCHANGED <<row, lease, d, refused, closed, failures>>

(* Time passes: a backoff ends, a retry window closes, a lease lapses. *)
Due(x) ==
    /\ ~row[x].due
    /\ row' = [row EXCEPT ![x].due = TRUE]
    /\ UNCHANGED <<lease, d, wire, received, refused, closed, failures>>

Ages(x) ==
    /\ x \notin closed /\ Fault
    /\ closed' = closed \cup {x}
    /\ UNCHANGED <<row, lease, d, wire, received, refused>>

Lapse ==
    /\ lease # Nobody
    /\ lease' = Nobody
    /\ Fault
    /\ UNCHANGED <<row, d, wire, received, refused, closed>>

Deliver(p, x) ==
    DropOld(p, x) \/ Post(p, x) \/ Acknowledge(p, x) \/ Refuse(p, x) \/ Retry(p, x)

DeliveryNext ==
    \/ Lapse
    \/ \E p \in Deliverers :
        \/ TakeLease(p) \/ ReadPending(p)
        \/ \E x \in Records : Deliver(p, x) \/ Late(p, x)
    \/ \E x \in Records : Due(x) \/ Ages(x)

DeliveryFairness ==
    /\ \A p \in Deliverers :
        /\ WF_deliveryVars(TakeLease(p)) /\ WF_deliveryVars(ReadPending(p))
        /\ \A x \in Records : WF_deliveryVars(Deliver(p, x))
    /\ \A x \in Records : WF_deliveryVars(Due(x))

DeliverySpec == DeliveryInit /\ [][DeliveryNext]_deliveryVars /\ DeliveryFairness

-----------------------------------------------------------------------------
(* A pass holds at most one record of an object, and posts only what it holds. *)
DeliveryTypeOK ==
    \A p \in Deliverers :
        /\ d[p].posting \subseteq d[p].pass
        /\ \A x, y \in d[p].pass : x[1] = y[1] => x = y

(***************************************************************************)
(* The sink first hears of a record after the one before it was taken or   *)
(* given up, though two deliverers may post at once and a post may arrive  *)
(* late (deliver.go: "in sequence order per object, at least once").       *)
(***************************************************************************)
FirstInOrder ==
    \A x \in received : \A k \in 1 .. (x[2] - 1) :
        <<x[1], k>> \in received \/ row[<<x[1], k>>].dropped

(***************************************************************************)
(* A row marked acknowledged was taken, and one dropped was refused or     *)
(* outlived its window: a deliverer that lost the lease marks nothing the  *)
(* sink did not answer.                                                    *)
(***************************************************************************)
MarksAreEarned ==
    \A x \in Records :
        /\ row[x].acked => x \in received
        /\ row[x].dropped => x \in refused \cup closed

(* Every record is taken or given up. *)
EveryRecordEnds == \A x \in Records : <>Finished(x)

-----------------------------------------------------------------------------
(***************************************************************************)
(* The operation queue of the store (store.Operations): driver calls       *)
(* written as rows, claimed by the workers of an environment, answered     *)
(* once and pruned.  Replicas claim for their workers at the same time;    *)
(* each call is one statement, and a claim skips the rows another          *)
(* statement has locked.  A worker that stops comes back under a new id,   *)
(* which is how the hub registers one.                                     *)
(***************************************************************************)

CONSTANTS
  Ops,        \* the ids of operations, in the order they are created
  Workers,    \* the ids of registrations
  Batch,      \* rows one claim may take
  Lease,      \* how long a heartbeat holds a claim
  Window,     \* how long a done row is kept
  MaxNow,     \* the last moment of the clock
  MaxCrashes  \* workers that stop without a word

VARIABLES rows, regs, hands, told, now, crashes

operationsVars == <<rows, regs, hands, told, now, crashes>>

None == [state |-> "none"]

OperationsInit ==
  /\ rows = [o \in Ops |-> None]
  /\ regs = [w \in Workers |-> [at |-> "new"]]
  /\ hands = [w \in Workers |-> {}]
  /\ told = [o \in Ops |-> "nothing"]
  /\ now = 0
  /\ crashes = 0

(* A row for one driver call; an id already in the table is refused.       *)
Enqueue(o) ==
  /\ rows[o] = None /\ told[o] = "nothing" /\ \A p \in Ops : p < o => told[p] # "nothing" \/ rows[p] # None
  /\ rows' = [rows EXCEPT ![o] = [state |-> "queued", by |-> "nobody", result |-> "none", made |-> now]]
  /\ UNCHANGED <<regs, hands, told, now, crashes>>

Registered(w) == regs[w].at = "row"

Register(w) ==
  /\ regs[w].at = "new"
  /\ regs' = [regs EXCEPT ![w] = [at |-> "row", beat |-> now, up |-> TRUE]]
  /\ UNCHANGED <<rows, hands, told, now, crashes>>

Heartbeat(w) ==
  /\ Registered(w) /\ regs[w].up /\ regs[w].beat # now
  /\ regs' = [regs EXCEPT ![w].beat = now]
  /\ UNCHANGED <<rows, hands, told, now, crashes>>

(* A registration whose last heartbeat is inside the lease.                *)
LiveWorker(w) == Registered(w) /\ regs[w].beat + Lease >= now

\* Bug: a claim is anybody's as soon as another worker asks.
ClaimableAny(w) == {o \in Ops : rows[o].state = "queued" \/ (rows[o].state = "claimed" /\ rows[o].by # w)}

Claimable(w) ==
  {o \in Ops : \/ rows[o].state = "queued"
               \/ rows[o].state = "claimed" /\ rows[o].by # w /\ ~LiveWorker(rows[o].by)}

(* The oldest Batch rows that can be claimed and that nobody has locked.   *)
Taken(w, locked) ==
  {o \in Claimable(w) \ locked : Cardinality({p \in Claimable(w) \ locked : p < o}) < Batch}

Claim(w) ==
  /\ Registered(w) /\ regs[w].up
  /\ \E locked \in SUBSET Claimable(w) :
       LET took == Taken(w, locked)
       IN /\ took # {}
          /\ rows' = [o \in Ops |-> IF o \in took THEN [rows[o] EXCEPT !.state = "claimed", !.by = w] ELSE rows[o]]
          /\ hands' = [hands EXCEPT ![w] = @ \cup took]
  /\ UNCHANGED <<regs, told, now, crashes>>

(* The first answer ends the row; a later one changes nothing.             *)

Answered(o, w) ==
  IF rows[o].state \in {"none", "done"} THEN rows
  ELSE [rows EXCEPT ![o].state = "done", ![o].result = w]

AcknowledgeOp(w) ==
  /\ \E o \in hands[w] :
       /\ rows' = Answered(o, w)
       /\ hands' = [hands EXCEPT ![w] = @ \ {o}]
       /\ told' = [told EXCEPT ![o] = IF @ = "nothing" THEN w ELSE @]
  /\ UNCHANGED <<regs, now, crashes>>

(* A clean disconnect drops the registration with nothing in hand.         *)
Forget(w) ==
  /\ Registered(w) /\ regs[w].up /\ hands[w] = {} /\ crashes < MaxCrashes
  /\ regs' = [regs EXCEPT ![w] = [at |-> "gone"]]
  /\ crashes' = crashes + 1
  /\ UNCHANGED <<rows, hands, told, now>>

(* Early enough that the clock reaches the end of its lease.               *)
Crash(w) ==
  /\ Registered(w) /\ regs[w].up /\ crashes < MaxCrashes /\ regs[w].beat + Lease < MaxNow
  /\ regs' = [regs EXCEPT ![w].up = FALSE]
  /\ hands' = [hands EXCEPT ![w] = {}]
  /\ crashes' = crashes + 1
  /\ UNCHANGED <<rows, told, now>>

(* Done rows older than the window go, and no other.                       *)

Old(o) == rows[o].state = "done" /\ rows[o].made + Window < now

Prune ==
  /\ \E o \in Ops : Old(o)
  /\ rows' = [o \in Ops |-> IF Old(o) THEN None ELSE rows[o]]
  /\ UNCHANGED <<regs, hands, told, now, crashes>>

Tick == now < MaxNow /\ now' = now + 1 /\ UNCHANGED <<rows, regs, hands, told, crashes>>

OperationsNext ==
  \/ \E o \in Ops : Enqueue(o)
  \/ \E w \in Workers : Register(w) \/ Heartbeat(w) \/ Claim(w) \/ AcknowledgeOp(w) \/ Forget(w) \/ Crash(w)
  \/ Prune \/ Tick

(* A running worker keeps claiming and answering, and time passes.         *)
OperationsFairness ==
  /\ WF_operationsVars(Tick)
  /\ \A w \in Workers : WF_operationsVars(Register(w)) /\ WF_operationsVars(Claim(w)) /\ WF_operationsVars(AcknowledgeOp(w))

OperationsSpec == OperationsInit /\ [][OperationsNext]_operationsVars /\ OperationsFairness

-----------------------------------------------------------------------------
(* A done row has a result, a claimed one a worker, and only what was      *)
(* claimed is in a worker's hands.                                         *)
OperationsTypeOK ==
  /\ \A o \in Ops : /\ rows[o].state \in {"none", "queued", "claimed", "done"}
                    /\ rows[o].state = "done" => rows[o].result \in Workers
                    /\ rows[o].state = "claimed" => rows[o].by \in Workers
                    /\ rows[o].state = "queued" => \A w \in Workers : o \notin hands[w]

(* Acknowledge: "An operation already done keeps the result it had, so a   *)
(* redelivery that raced a result cannot overwrite the answer the caller   *)
(* was given": the row agrees with the first answer.                       *)
AnswerStands == \A o \in Ops : rows[o].state = "done" => rows[o].result = told[o]

(* A claim is taken over only from a worker whose lease lapsed or whose    *)
(* registration is gone.                                                   *)
TakenOverWhenLapsed ==
  [][\A o \in Ops : rows[o].state = "claimed" /\ rows'[o].state = "claimed" /\ rows'[o].by # rows[o].by
       => ~LiveWorker(rows[o].by)]_operationsVars

(* Retention forgets only what was answered: "an operation not yet         *)
(* answered [is] kept whatever [its] age".                                 *)
KeptUntilAnswered ==
  [][\A o \in Ops : rows[o] # None /\ rows'[o] = None => told[o] # "nothing"]_operationsVars

(* Every operation is answered, though workers stop with it in hand, as    *)
(* long as one keeps running.                                              *)
EveryAnswered == \A o \in Ops : rows[o] # None ~> told[o] # "nothing"

=============================================================================
