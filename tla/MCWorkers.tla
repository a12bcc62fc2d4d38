----------------------------- MODULE MCWorkers -----------------------------
\* The far side of the control plane: a sub-stream of a worker's link
\* (CreditStream, whose constants the configuration gives), the workers that
\* register and serve (WorkerHub), what a worker reports and how its host
\* decides what it runs (WorkerServe), and a gateway (Gateway). The components
\* share no variable: a behaviour is of one of them and the others rest in an
\* initial state. What a component does in the end is asked under the fairness
\* its module states.
EXTENDS CreditStream

VARIABLE part       \* the component this behaviour is of

\* The worker of one host, and another: on a second host, under a key of its
\* own, or with another driver.
Beside(k, h, d) == [p \in {"w1", "w2"} |-> IF p = "w1" THEN [key |-> "k1", host |-> "h1", driver |-> "d1"]
                                                       ELSE [key |-> k, host |-> h, driver |-> d]]
HubStarts == {<<Beside("k1", "h2", "d1"), 2>>, <<Beside("k2", "h1", "d1"), 1>>, <<Beside("k1", "h1", "d2"), 1>>}

VARIABLES hub_site, hub_obj, hub_allow, hub_revoked, hub_acts, hub_hub, hub_reg, hub_n,
          hub_unopened, hub_proc, hub_held, hub_breaks, hub_edits, hub_cut, hub_ended,
          hub_lowered
hubVars == <<hub_site, hub_obj, hub_allow, hub_revoked, hub_acts, hub_hub, hub_reg, hub_n,
     hub_unopened, hub_proc, hub_held, hub_breaks, hub_edits, hub_cut, hub_ended,
     hub_lowered>>
Hub == INSTANCE WorkerHub WITH site <- hub_site, obj <- hub_obj, allow <- hub_allow, revoked <-
     hub_revoked, acts <- hub_acts, hub <- hub_hub, reg <- hub_reg, n <- hub_n, unopened <-
     hub_unopened, proc <- hub_proc, held <- hub_held, breaks <- hub_breaks, edits <- hub_edits,
     cut <- hub_cut, ended <- hub_ended, lowered <- hub_lowered, Workers <- {"w1", "w2"}, Sites
     <- {s[1] : s \in HubStarts}, Limits <- {1, 2}, KeepOnExit <- FALSE, MaxReg <- 2, MaxBreaks
     <- 1, MaxEdits <- 1

VARIABLES rep_drv, rep_asked, rep_report, rep_watched, rep_conn, rep_up, rep_observed,
          rep_creates, rep_listing, rep_queue, rep_know, rep_changes, rep_drops, rep_closes,
          rep_newest, rep_late
repVars == <<rep_drv, rep_asked, rep_report, rep_watched, rep_conn, rep_up, rep_observed,
     rep_creates, rep_listing, rep_queue, rep_know, rep_changes, rep_drops, rep_closes,
     rep_newest, rep_late>>
VARIABLES gate_ops, gate_held, gate_labels, gate_policed, gate_faults
gateVars == <<gate_ops, gate_held, gate_labels, gate_policed, gate_faults>>
Srv == INSTANCE WorkerServe WITH drv <- rep_drv, asked <- rep_asked, report <- rep_report,
     watched <- rep_watched, conn <- rep_conn, up <- rep_up, observed <- rep_observed, creates
     <- rep_creates, listing <- rep_listing, queue <- rep_queue, know <- rep_know, changes <-
     rep_changes, drops <- rep_drops, closes <- rep_closes, newest <- rep_newest, late <- rep_late, Ops <- {"o1"},
     WatchQueue <- 1, MaxChanges <- 1, MaxDrops <- 1, MaxFrames <- 1, ops <- gate_ops, held <-
     gate_held, labels <- gate_labels, policed <- gate_policed, faults <- gate_faults, Operations <- {"a", "b"},
     MaxFaults <- 1

VARIABLES gw_want, gw_down, gw_stream, gw_maps, gw_byCredential, gw_resolvers, gw_reported,
          gw_uses, gw_up, gw_stamped, gw_req, gw_role, gw_past, gw_requests, gw_losses
gwVars == <<gw_want, gw_down, gw_stream, gw_maps, gw_byCredential, gw_resolvers,
     gw_reported, gw_uses, gw_up, gw_stamped, gw_req, gw_role, gw_past, gw_requests,
     gw_losses>>
Gw == INSTANCE Gateway WITH want <- gw_want, down <- gw_down, stream <- gw_stream, maps <-
     gw_maps, byCredential <- gw_byCredential, resolvers <- gw_resolvers, reported <-
     gw_reported, uses <- gw_uses, up <- gw_up, stamped <- gw_stamped, req <- gw_req, role <-
     gw_role, past <- gw_past, requests <- gw_requests, losses <- gw_losses, Principals <-
     {"p1"}, Prints <- {"a", "b"}, UseBuffer <- 1, MaxVersion <- 2, MaxRequests <- 2, MaxLosses <- 1

all == <<part, vars, hubVars, repVars, gateVars, gwVars>>

AllInit ==
  /\ part \in {"credit", "hub", "rep", "gate", "gw"}
  /\ Hub!Init /\ <<hub_site, hub_obj.max>> \in HubStarts /\ (part # "hub" => hub_site = Beside("k1", "h2", "d1"))
  /\ Srv!ReportsInit
  /\ Srv!GateInit /\ (part # "gate" => gate_held /\ gate_policed)
  /\ Gw!Init
  /\ Init

\* The component the behaviour is of moves; the others rest.
AllNext ==
  /\ UNCHANGED part
  /\ \/ part = "credit" /\ Next /\ UNCHANGED <<hubVars, repVars, gateVars, gwVars>>
     \/ part = "hub" /\ Hub!Next /\ UNCHANGED <<vars, repVars, gateVars, gwVars>>
     \/ part = "rep" /\ Srv!ReportsNext /\ UNCHANGED <<vars, hubVars, gateVars, gwVars>>
     \/ part = "gate" /\ Srv!GateNext /\ UNCHANGED <<vars, hubVars, repVars, gwVars>>
     \/ part = "gw" /\ Gw!Next /\ UNCHANGED <<vars, hubVars, repVars, gateVars>>

AllSpec == AllInit /\ [][AllNext]_all

\* The fairness of CreditStream, for the behaviours of a sub-stream.
CreditFair ==
  /\ WF_vars(part = "credit" /\ Spend)
  /\ WF_vars(part = "credit" /\ SendFrame)
  /\ WF_vars(part = "credit" /\ StopWaiting)
  /\ WF_vars(part = "credit" /\ Grant)
  /\ WF_vars(part = "credit" /\ Push)
  /\ WF_vars(part = "credit" /\ \E n \in 1..Window : Read(n))
  /\ WF_vars(part = "credit" /\ SendCredit)
  /\ WF_vars(part = "credit" /\ ended /\ EndWriter)

\* The fairness of WorkerHub, for the behaviours of registrations and streams.
HubFair ==
  /\ \A r \in Hub!Regs : WF_hubVars(part = "hub" /\ Hub!Bind(r))
  /\ \A r \in Hub!Regs : WF_hubVars(part = "hub" /\ Hub!Release(r))
  /\ \A r \in Hub!Regs : WF_hubVars(part = "hub" /\ Hub!Recheck(r))
  /\ \A k \in Hub!Keys : WF_hubVars(part = "hub" /\ Hub!HubRevoke(k))
  /\ WF_hubVars(part = "hub" /\ Hub!HubRelease)
  /\ \A p \in {"w1", "w2"} : WF_hubVars(part = "hub" /\ Hub!Ask(p))
  /\ \A p \in {"w1", "w2"} : WF_hubVars(part = "hub" /\ Hub!RegisterWith(p))
  /\ \A p \in {"w1", "w2"} : WF_hubVars(part = "hub" /\ Hub!Dial(p))
  /\ \A p \in {"w1", "w2"} : WF_hubVars(part = "hub" /\ Hub!StreamEnds(p))

\* The fairness of WorkerServe, for the behaviours of reports.
RepFair ==
  /\ WF_repVars(part = "rep" /\ Srv!Connect)
  /\ WF_repVars(part = "rep" /\ Srv!Lists)
  /\ WF_repVars(part = "rep" /\ Srv!Reports)
  /\ SF_repVars(part = "rep" /\ Srv!Relay)
  /\ SF_repVars(part = "rep" /\ Srv!AnswersList)
  /\ WF_repVars(part = "rep" /\ Srv!Receive)
  /\ WF_repVars(part = "rep" /\ Srv!Listed)
  /\ WF_repVars(part = "rep" /\ Srv!Consume)
  /\ \A o \in {"o1"} : WF_repVars(part = "rep" /\ Srv!Admit(o))
  /\ \A o \in {"o1"} : WF_repVars(part = "rep" /\ Srv!Execute(o))
  /\ \A o \in {"o1"} : SF_repVars(part = "rep" /\ Srv!Answer(o))

\* The fairness of WorkerServe, for the behaviours of the host's own word.
GateFair ==
  /\ \A o \in {"a", "b"} : WF_gateVars(part = "gate" /\ Srv!Runs(o))
  /\ \A o \in {"a", "b"} : WF_gateVars(part = "gate" /\ Srv!HoldQuestion(o))
  /\ \A o \in {"a", "b"} : WF_gateVars(part = "gate" /\ Srv!Timeout(o))

\* The fairness of Gateway, for the behaviours of a gateway.
GwFair ==
  /\ WF_gwVars(part = "gw" /\ Gw!Dial)
  /\ WF_gwVars(part = "gw" /\ Gw!readLoop)
  /\ WF_gwVars(part = "gw" /\ Gw!writeLoop)
  /\ WF_gwVars(part = "gw" /\ Gw!TakeUse)
  /\ WF_gwVars(part = "gw" /\ Gw!Doors)
  /\ WF_gwVars(part = "gw" /\ Gw!Finish)
  /\ WF_gwVars(part = "gw" /\ Gw!Close)

-----------------------------------------------------------------------------
(* Properties *)

\* Every component keeps its values in their ranges.
TypesHold == Hub!TypeOK /\ Srv!ReportsTypeOK /\ Srv!GateTypeOK /\ Gw!TypeOK


\* Only what was let in is served: the streams the environment takes, of keys
\* that stand, and on a host what its policy allowed.
ServedAsAllowed ==
  \* Registrations and streams: liveWorkersLocked and bind together: while the
  \* limit is never lowered, no more streams are held than spec.workers.max
  \* takes, whatever registrations were pending, expired, replaced or refused
  \* on the way.
  /\ Hub!StreamsWithinLimit
  \* Hub.Revoke: once it has run for a key, no stream registered with the key
  \* is bound, whether it was open, unopened, or registering meanwhile.
  /\ Hub!NoRevokedStream
  \* endBeforeStreamLocked and bind: a stream whose registration was replaced,
  \* revoked or deleted before its hello is told that reason; it is answered as
  \* one that never registered only when its record is past the pending window.
  /\ Hub!ToldWhy
  \* The host's own word: A create reaches the driver of a host with a policy
  \* only if the host allowed it, however late the answer: the deadline and the caller going away end
  \* the question with a refusal and an answer that arrives after them is read
  \* by nobody.
  /\ Srv!RunsWhatTheHostAllowed
  \* The host's own log tells its no from the driver's: a record says refused
  \* exactly when the driver was not asked and the operation did not simply
  \* end.
  /\ Srv!RecordTellsWho

\* Whatever stream was lost, each side comes back to what the other holds, and
\* nobody waits for ever.
LinksRecover ==
  \* A sub-stream: a Write always returns: it sends all it was given, or the
  \* operation or the connection ends and wakes it, while the reader reads.
  /\ part = "credit" /\ CreditFair => WriteReturns
  \* Registrations and streams: rechecks: a stream of an environment that is
  \* gone does not stay, even one whose registration was decided before the
  \* delete and reached the hub after it.
  /\ part = "hub" /\ HubFair => Hub!DeletedUnserved
  \* closeRefusal and release: a worker whose stream was closed because its key
  \* was revoked or its environment may not be served ends everything it runs,
  \* but what its driver fails at, unless the network lost the reason or the
  \* worker was stopped first.
  /\ part = "hub" /\ HubFair => Hub!CloseEndsWork
  \* worker.run: a worker that lost its stream registers and holds one again,
  \* unless it is refused or stopped, its key is revoked, or the bound on
  \* registrations leaves it none to ask for.
  /\ part = "hub" /\ HubFair => Hub!Reconnects
  \* Reports: A report is sent again and again: once the driver is still, the
  \* control plane's view is the driver's, whatever raced before.
  /\ part = "rep" /\ RepFair => Srv!ViewCatchesUp
  \* Every operation a caller opened returns to it, with an answer or the loss
  \* of the stream.
  /\ part = "rep" /\ RepFair => Srv!CallerAnswered
  \* A consumer that lags, or whose driver's watch closed, reads the driver's
  \* state once it is still, while the stream has not been lost and no older
  \* List was applied after a newer state.
  /\ part = "rep" /\ RepFair => Srv!ConsumerCatchesUp
  \* The host's own word: A create the policy never answers is answered in the
  \* end, after the caller was told that the host is asking (heldAfter, the
  \* admit timeout).
  /\ part = "gate" /\ GateFair => Srv!QuestionEnds
  \* A gateway: A gateway that lost its stream is whole again in the end, and
  \* holds exactly the maps the control plane has, unless it is stopped.
  /\ part = "gw" /\ GwFair => Gw!BecomesWhole
=============================================================================
