---------------------------- MODULE MCServices ----------------------------
\* What a replica of the control plane runs: the sandboxes of one environment
\* (Fleet), transactions of the store (StoreTx, which implements Store), the
\* event feeds (Feeds, which implements Feed), deliveries and operations
\* (Queues), replicas and the sealing of the stored credentials (Replicas). The
\* components share no variable: a behaviour is of one of them and the others
\* rest in an initial state. What a component does in the end is asked under
\* the fairness its module states.
EXTENDS Naturals, Sequences

VARIABLE part       \* the component this behaviour is of

\* An environment of two cores, two slots and a disk of two, as declared and
\* used in six ways.
Plain == [cpu |-> 1, disk |-> 1, pri |-> 0, preempt |-> TRUE, queue |-> "a", owner |-> "o",
          deadline |-> TRUE, pooled |-> FALSE]
Pooled == [Plain EXCEPT !.deadline = FALSE, !.pooled = TRUE]
Middle == [Plain EXCEPT !.pri = 1, !.owner = "p"]
Urgent == [Plain EXCEPT !.cpu = 2, !.pri = 1, !.preempt = FALSE, !.queue = "b", !.deadline = FALSE]
All == [plain |-> Plain, pooled |-> Pooled, middle |-> Middle, urgent |-> Urgent]

TwoCores == [cpu |-> 2, disk |-> 2, slots |-> 2]
NoPool == [size |-> 0, cpu |-> 1, disk |-> 1]
SmallPool == [size |-> 1, cpu |-> 1, disk |-> 1]

Waits == [mode |-> "queued", pool |-> NoPool, budget |-> 0, menu |-> {"plain", "middle", "urgent"},
          verbs |-> {"stop", "delete"}, faults |-> 1]
Refills == [mode |-> "queued", pool |-> SmallPool, budget |-> 0, menu |-> {"pooled", "urgent"},
           verbs |-> {"delete"}, faults |-> 0]
Evicts == [Refills EXCEPT !.verbs = {}, !.faults = 1]
Spawns == [mode |-> "queued", pool |-> NoPool, budget |-> 1, menu |-> {"plain"},
           verbs |-> {"delete"}, faults |-> 1]
Direct == [mode |-> "direct", pool |-> SmallPool, budget |-> 0, menu |-> {"pooled"},
           verbs |-> {"stop"}, faults |-> 1]
DirectSpawns == [mode |-> "direct", pool |-> NoPool, budget |-> 1, menu |-> {"plain"},
           verbs |-> {"delete"}, faults |-> 1]

Declared == {Waits, Refills, Evicts, Spawns, Direct, DirectSpawns}

VARIABLES flt_sb, flt_arrived, flt_obj, flt_made, flt_world, flt_pass, flt_adopting,
          flt_refill, flt_ledger, flt_asking, flt_faults, flt_outside, flt_late, flt_unwritten,
          flt_struck, flt_doubled
fltVars == <<flt_sb, flt_arrived, flt_obj, flt_made, flt_world, flt_pass, flt_adopting,
     flt_refill, flt_ledger, flt_asking, flt_faults, flt_outside, flt_late, flt_unwritten,
     flt_struck, flt_doubled>>
Flt == INSTANCE Fleet WITH sb <- flt_sb, arrived <- flt_arrived, obj <- flt_obj, made <-
     flt_made, world <- flt_world, pass <- flt_pass, adopting <- flt_adopting, refill <-
     flt_refill, ledger <- flt_ledger, asking <- flt_asking, faults <- flt_faults, outside <-
     flt_outside, late <- flt_late, unwritten <- flt_unwritten, struck <- flt_struck, doubled
     <- flt_doubled, Shape <- All, Capacity <- TwoCores, Worlds <- Declared, MaxPreemptions <-
     1, PoolInFlight <- 1, MaxIds <- 3

VARIABLES tx_rows, tx_seq, tx_used, tx_lease, tx_tx, tx_versions, tx_stale, tx_begun,
          tx_doubts, tx_lapses
txVars == <<tx_rows, tx_seq, tx_used, tx_lease, tx_tx, tx_versions, tx_stale, tx_begun,
     tx_doubts, tx_lapses>>
Tx == INSTANCE StoreTx WITH rows <- tx_rows, seq <- tx_seq, used <- tx_used, lease <- tx_lease,
     tx <- tx_tx, versions <- tx_versions, stale <- tx_stale, begun <- tx_begun, doubts <-
     tx_doubts, lapses <- tx_lapses, Objects <- {"o1", "o2"}, Names <- {"n1"}, Holders <- {"p1",
     "p2"}, Budget <- 1, MaxBegun <- 2, MaxDoubts <- 1, MaxLapses <- 1

VARIABLES fol_shared, fol_kept, fol_newest, fol_unpublished, fol_sub, fol_reader, fol_queue,
          fol_sent, fol_prunes
folVars == <<fol_shared, fol_kept, fol_newest, fol_unpublished, fol_sub, fol_reader,
     fol_queue, fol_sent, fol_prunes>>
VARIABLES feed_journal, feed_gone, feed_allowed, feed_following, feed_feeds, feed_draining,
          feed_expired, feed_changes
feedVars == <<feed_journal, feed_gone, feed_allowed, feed_following, feed_feeds,
     feed_draining, feed_expired, feed_changes>>
Feeds == INSTANCE Feeds WITH shared <- fol_shared, kept <- fol_kept, newest <- fol_newest,
     unpublished <- fol_unpublished, sub <- fol_sub, reader <- fol_reader, queue <- fol_queue,
     sent <- fol_sent, prunes <- fol_prunes, Worlds <- BOOLEAN, MaxSeq <- 3, SubscriptionBuffer
     <- 1, FollowBatch <- 2, MaxPrunes <- 1, journal <- feed_journal, gone <- feed_gone, allowed
     <- feed_allowed, following <- feed_following, feeds <- feed_feeds, draining <-
     feed_draining, expired <- feed_expired, changes <- feed_changes, Objects <- {"o1"}, Clients
     <- {"c1", "c2"}, FollowLimit <- 1, ReadCache <- 1, MaxRecords <- 3, MaxChanges <- 1

VARIABLES del_row, del_lease, del_d, del_wire, del_received, del_refused, del_closed,
          del_failures
delVars == <<del_row, del_lease, del_d, del_wire, del_received, del_refused, del_closed,
     del_failures>>
VARIABLES ops_rows, ops_regs, ops_hands, ops_told, ops_now, ops_crashes
opsVars == <<ops_rows, ops_regs, ops_hands, ops_told, ops_now, ops_crashes>>
Queues == INSTANCE Queues WITH row <- del_row, lease <- del_lease, d <- del_d, wire <- del_wire,
     received <- del_received, refused <- del_refused, closed <- del_closed, failures <-
     del_failures, Objects <- {"o1"}, MaxSeq <- 3, Deliverers <- {"p1", "p2"}, MaxFailures <- 2,
     rows <- ops_rows, regs <- ops_regs, hands <- ops_hands, told <- ops_told, now <- ops_now,
     crashes <- ops_crashes, Ops <- {1, 2}, Workers <- {"w1", "w2"}, Batch <- 1, Lease <- 1,
     Window <- 0, MaxNow <- 2, MaxCrashes <- 1

VARIABLES rep_lease, rep_role, rep_serving, rep_known, rep_rows, rep_cached, rep_req,
          rep_resumed, rep_lapses, rep_crashes
repVars == <<rep_lease, rep_role, rep_serving, rep_known, rep_rows, rep_cached, rep_req,
     rep_resumed, rep_lapses, rep_crashes>>
VARIABLES seal_table, seal_value, seal_schema, seal_sealLease, seal_key, seal_serve,
          seal_maint, seal_truth, seal_left, seal_past
sealVars == <<seal_table, seal_value, seal_schema, seal_sealLease, seal_key, seal_serve,
     seal_maint, seal_truth, seal_left, seal_past>>
Rep == INSTANCE Replicas WITH lease <- rep_lease, role <- rep_role, serving <- rep_serving,
     known <- rep_known, rows <- rep_rows, cached <- rep_cached, req <- rep_req, resumed <- rep_resumed, lapses <- rep_lapses, crashes <- rep_crashes, Procs
     <- {"p1", "p2"}, Requests <- {"r1"}, NoProc <- "none", MaxWrites <- 1, MaxLapses <- 1,
     MaxCrashes <- 1, table <- seal_table, value <- seal_value, schema <- seal_schema, sealLease
     <- seal_sealLease, key <- seal_key, serve <- seal_serve, maint <- seal_maint, truth <-
     seal_truth, left <- seal_left, past <- seal_past, Rows <- {"r1", "r2"}, MaxPuts <- 1,
     MaxSealCrashes <- 2, MaxPauses <- 1, MaxRuns <- 3

vars == <<part, fltVars, txVars, folVars, feedVars, delVars, opsVars, repVars, sealVars>>

Init ==
  /\ part \in {"fleet", "tx", "fol", "feed", "del", "ops", "rep", "seal"}
  /\ Flt!Init /\ (part # "fleet" => flt_world = Waits)
  /\ Tx!Init
  /\ Feeds!FollowerInit /\ (part # "fol" => fol_shared /\ fol_newest = 0)
  /\ Feeds!FeedInit /\ (part # "feed" => feed_allowed = {})
  /\ Queues!DeliveryInit
  /\ Queues!OperationsInit
  /\ Rep!Init
  /\ Rep!SealingInit /\ (part # "seal" => seal_key = "k1" /\ \A r \in {"r1", "r2"} : seal_table[r].at = "live")

\* The component the behaviour is of moves; the others rest.
Next ==
  /\ UNCHANGED part
  /\ \/ part = "fleet" /\ Flt!Next /\ UNCHANGED <<txVars, folVars, feedVars, delVars, opsVars, repVars, sealVars>>
     \/ part = "tx" /\ Tx!Next /\ UNCHANGED <<fltVars, folVars, feedVars, delVars, opsVars, repVars, sealVars>>
     \/ part = "fol" /\ Feeds!FollowerNext /\ UNCHANGED <<fltVars, txVars, feedVars, delVars, opsVars, repVars,
            sealVars>>
     \/ part = "feed" /\ Feeds!FeedNext /\ UNCHANGED <<fltVars, txVars, folVars, delVars, opsVars, repVars, sealVars>>
     \/ part = "del" /\ Queues!DeliveryNext /\ UNCHANGED <<fltVars, txVars, folVars, feedVars, opsVars, repVars,
            sealVars>>
     \/ part = "ops" /\ Queues!OperationsNext /\ UNCHANGED <<fltVars, txVars, folVars, feedVars, delVars, repVars,
            sealVars>>
     \/ part = "rep" /\ Rep!Next /\ UNCHANGED <<fltVars, txVars, folVars, feedVars, delVars, opsVars, sealVars>>
     \/ part = "seal" /\ Rep!SealingNext /\ UNCHANGED <<fltVars, txVars, folVars, feedVars, delVars, opsVars, repVars>>

Spec == Init /\ [][Next]_vars

\* The fairness of Fleet, for the behaviours of an environment's sandboxes.
FleetFair ==
  /\ []<>~Flt!SchedulerDue \/ []<><<part = "fleet" /\ Flt!Schedule>>_fltVars
  /\ []<>(flt_adopting.at = "no")

\* The fairness of StoreTx, for the behaviours of transactions.
TxFair ==
  /\ \A t \in Tx!Slots : WF_txVars(part = "tx" /\ Tx!Step(t))

\* The fairness of Feeds, for the behaviours of a follower of the journal.
FolFair ==
  /\ WF_folVars(part = "fol" /\ Feeds!Watch)
  /\ WF_folVars(part = "fol" /\ Feeds!StartNewest)
  /\ WF_folVars(part = "fol" /\ Feeds!StartNext)
  /\ WF_folVars(part = "fol" /\ Feeds!CatchUp)
  /\ WF_folVars(part = "fol" /\ Feeds!WriteLine)
  /\ WF_folVars(part = "fol" /\ Feeds!Publish)
  /\ WF_folVars(part = "fol" /\ Feeds!Resubscribe)
  /\ WF_folVars(part = "fol" /\ Feeds!Receive)
  /\ WF_folVars(part = "fol" /\ Feeds!Poll)

\* The fairness of Feeds, for the behaviours of a feed over HTTP.
FeedFair ==
  /\ \A c \in {"c1", "c2"} : WF_feedVars(part = "feed" /\ (Feeds!followFeed(c) \/ Feeds!Follow(c) \/ Feeds!Serve(c) \/ Feeds!Stop(c)))

\* The fairness of Queues, for the behaviours of deliveries.
DelFair ==
  /\ \A p \in {"p1", "p2"} : WF_delVars(part = "del" /\ Queues!TakeLease(p))
  /\ \A p \in {"p1", "p2"} : WF_delVars(part = "del" /\ Queues!ReadPending(p))
  /\ \A p \in {"p1", "p2"} : \A x \in Queues!Records : WF_delVars(part = "del" /\ Queues!Deliver(p, x))
  /\ \A x \in Queues!Records : WF_delVars(part = "del" /\ Queues!Due(x))

\* The fairness of Queues, for the behaviours of operations.
OpsFair ==
  /\ WF_opsVars(part = "ops" /\ Queues!Tick)
  /\ \A w \in {"w1", "w2"} : WF_opsVars(part = "ops" /\ Queues!Register(w))
  /\ \A w \in {"w1", "w2"} : WF_opsVars(part = "ops" /\ Queues!Claim(w))
  /\ \A w \in {"w1", "w2"} : WF_opsVars(part = "ops" /\ Queues!AcknowledgeOp(w))

\* The fairness of Replicas, for the behaviours of replicas.
RepFair ==
  /\ \A p \in {"p1", "p2"} : WF_repVars(part = "rep" /\ Rep!Take(p))
  /\ \A p \in {"p1", "p2"} : WF_repVars(part = "rep" /\ Rep!Promote(p))
  /\ \A p \in {"p1", "p2"} : WF_repVars(part = "rep" /\ Rep!Renew(p))
  /\ \A p \in {"p1", "p2"} : WF_repVars(part = "rep" /\ Rep!Demote(p))
  /\ \A p \in {"p1", "p2"} : WF_repVars(part = "rep" /\ Rep!Handoff(p))
  /\ \A r \in {"r1"} : WF_repVars(part = "rep" /\ Rep!HoldEnds(r))
  /\ \A r \in {"r1"} : WF_repVars(part = "rep" /\ Rep!Answer(r))
  /\ \A r \in {"r1"} : WF_repVars(part = "rep" /\ Rep!ServeLocally(r))
  /\ WF_repVars(part = "rep" /\ rep_lease.live /\ ~Rep!Up(rep_lease.holder) /\ Rep!Lapse)

\* The fairness of Replicas, for the behaviours of sealed credentials.
SealFair ==
  /\ WF_sealVars(part = "seal" /\ Rep!Serves)
  /\ WF_sealVars(part = "seal" /\ Rep!Maintains)
  /\ WF_sealVars(part = "seal" /\ (Rep!SealLapse /\ (seal_serve.at = "off" \/ seal_maint.at = "off") /\ seal_past' = seal_past))

-----------------------------------------------------------------------------
(* Properties *)

\* Every component keeps its values in their ranges.
TypesHold == Flt!TypeOK /\ Tx!TypeOK /\ Feeds!FollowerTypeOK /\ Feeds!FeedTypeOK /\ Queues!DeliveryTypeOK
             /\ Queues!OperationsTypeOK /\ Rep!TypeOK /\ Rep!SealingTypeOK

\* place, fit and WriteSpawn: neither the environment's capacity nor a spawn
\* budget is passed, with the exceptions the two state.
LimitsHeld ==
  \* What the rows of the environment hold stays within what it declares,
  \* through every placement, preemption and resume, until capacity is taken
  \* with no placement: Start and the adoption of an entry count none, and a
  \* refusal that is not written leaves its row Pending.
  /\ Flt!CapacityHeld
  \* The ledger counts at least the children that were created and did not
  \* fail, so no sandbox has more of them than its budget, but one that was
  \* credited for a failure whose write was refused.
  /\ Flt!BudgetHeld

\* cascade, the pool and the settles: a row has what it stands on, the sandbox
\* it was spawned from and the object it runs as, with the exceptions the two
\* state.
RowsWhole ==
  \* No sandbox outlives the one that created it, but a child that was
  \* authorized before its parent was deleted and written after.
  /\ Flt!TreeWhole
  \* A sandbox that runs has its object: only the refill loop, which deletes by
  \* id what it listed, takes an entry that was adopted since, and an entry a
  \* create took as its own unadopted is still the pool's.
  /\ Flt!RunningKept

\* scheduleEnvironment: no waiting sandbox is passed by a lower one, and a pass
\* does not stop what it placed, where none joined a queue while its lock was
\* released.
PassesFair == Flt!NoPassing /\ Flt!PassKeeps

\* The transactions implement the store the rest of the control plane is
\* written against.
Implements ==
  /\ []TypesHold
  \* Transactions: the interleaved statements implement the atomic contract:
  \* whatever a transaction does in several statements, some one step of Store
  \* does, and a fenced write commits only while the lease names its process.
  /\ Tx!Implements

\* A reader of the journal, over a feed or at the sink, is sent its records in
\* order, whole and only while it may read them.
ReadersWhole ==
  \* A follower of the journal: A feed is refused or ended as expired only
  \* where a record after its position is really gone.
  /\ Feeds!ExpiredMeansGone
  \* A feed over HTTP: however requests race for the last place, the feeds that
  \* are served stay within Options.FollowLimit: the place is taken before it
  \* is compared.
  /\ Feeds!FeedsWithinLimit
  \* A record reaches a feed of every object only if the authorizer allowed its
  \* object's read at some moment of the feed's life (recordGate.allows),
  \* though the decision is held and the policy moves on.
  /\ Feeds!SentWasReadable
  \* A feed of one object has written every record of the object from where it
  \* began to where it is, and a feed that is over because the object ended
  \* wrote the delete record last: no record a late operation wrote after it
  \* (handler.emit outlives the request) is sent.
  /\ Feeds!WholeUpToTheDelete
  \* Deliveries: the sink first hears of a record after the one before it was
  \* taken or given up, though two deliverers may post at once and a post may
  \* arrive late.
  /\ Queues!FirstInOrder
  \* A row marked acknowledged was taken, and one dropped was refused or
  \* outlived its window: a deliverer that lost the lease marks nothing the
  \* sink did not answer.
  /\ Queues!MarksAreEarned

\* What two processes may both believe theirs is done by one: a write, an
\* operation, a place in the journal.
DoneOnce ==
  \* Transactions: A conditional write is refused as a conflict only where
  \* another process wrote the object, or this process's own commit was lost in
  \* doubt, or the object was removed: Controlled.versions follows what it
  \* wrote.
  /\ []Tx!ConflictMeansOvertaken
  \* Replicas: the fence: a process that may write has read every committed
  \* write, so no predecessor's write lands behind what its successor loaded,
  \* but a process that took its lease back after another held it.
  /\ []Rep!WriterHasRead
  \* Operations: acknowledge: "An operation already done keeps the result it
  \* had, so a redelivery that raced a result cannot overwrite the answer the
  \* caller was given": the row agrees with the first answer.
  /\ []Queues!AnswerStands
  \* A claim is taken over only from a worker whose lease lapsed or whose
  \* registration is gone.
  /\ Queues!TakenOverWhenLapsed
  \* Retention forgets only what was answered: "an operation not yet answered
  \* [is] kept whatever [its] age".
  /\ Queues!KeptUntilAnswered
  \* A follower is sent the records in order and none twice, as the abstract
  \* feed sends them.
  /\ Feeds!InOrder

\* What the comment on Controlled.Fence says of a writer that lost its lease
\* without knowing it: it "writes nothing after its successor read the rows".
\* A process that takes the lease back after its successor ended does.
WritesNothingAfter == Rep!LostWritersWriteNothing

\* A stored credential is kept, and under the key in use.
CredentialsSealed ==
  \* Sealed credentials: no rewrite, write, crash or rotation loses what a
  \* sandbox's last write stored.
  /\ Rep!CredentialsKept
  \* While a replica that holds a key serves, no row of the table holds a
  \* credential in the clear and no deleted row any, but the rows its sealing
  \* could not rewrite and nothing has written since, and unless a pause let a
  \* lease lapse.
  /\ Rep!NoneInTheClear
  \* What is sealed is sealed under the key replicas are started with: a
  \* rotation moves every row and value or none, whatever crashed, while its
  \* lease held and no replica under the key before stood by for the lease.
  /\ Rep!OneKey

\* No queue, transaction, reader, record, operation, request or start waits for
\* ever.
ServicesProgress ==
  \* RunScheduler: where nothing computes and what waits fits, a queue does not
  \* stay as it is: its head is placed, resumed, lost or failed.
  /\ part = "fleet" /\ FleetFair => Flt!QueueMoves
  \* Transactions: no transaction waits forever: the statements take their
  \* locks in one order, so what an insert waits for ends.
  /\ part = "tx" /\ TxFair => Tx!TransactionsEnd
  \* A follower of the journal: A reader that stays receives every record: what
  \* it subscribed to before it read, what arrived out of order, and what
  \* another replica appended.
  /\ part = "fol" /\ FolFair => Feeds!CatchesUp
  \* A feed over HTTP: A feed that is open when the server drains is over in
  \* the end, whatever records keep arriving.
  /\ part = "feed" /\ FeedFair => Feeds!DrainEnds
  \* A feed of one object that began before the object's delete record ends:
  \* the follower is handed the record and serveFollow returns on it.
  /\ part = "feed" /\ FeedFair => Feeds!EndsWithItsObject
  \* Deliveries: every record is taken or given up.
  /\ part = "del" /\ DelFair => Queues!EveryRecordEnds
  \* Operations: every operation is answered, though workers stop with it in
  \* hand, as long as one keeps running.
  /\ part = "ops" /\ OpsFair => Queues!EveryAnswered
  \* Replicas: A handoff ends with the process gone, and every caller is
  \* answered.
  /\ part = "rep" /\ RepFair => Rep!HandoffEnds
  \* A request a replica took is answered, whoever leads by then.
  /\ part = "rep" /\ RepFair => Rep!RequestsEnd
  \* While a replica is left, one of them comes to serve: the lease of a writer
  \* that crashed lapses, and a handoff releases it.
  /\ part = "rep" /\ RepFair => Rep!SomeoneServes
  \* Sealed credentials: A replica that opened and is not stopped comes to
  \* serve.
  /\ part = "seal" /\ SealFair => Rep!Comes
=============================================================================
