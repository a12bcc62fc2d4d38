------------------------------ MODULE K8sDriver ------------------------------
\* The cluster driver (runtime/k8s): one sandbox is a claim, a Pod, a Secret
\* and a network rule, a mesh is a policy and a Service beside them, and each
\* operation of the contract is a sequence of calls on the API server, any of
\* which may fail, run beside another call, or be the last of the process.
\*
\* The controller gives the calls their order.  It holds its lock across a
\* start, a stop and a delete, and releases it for a create and for the move
\* of a sandbox to a larger size, so one call of each kind runs at a time.
EXTENDS Naturals, Sequences, FiniteSets

CONSTANTS Ids,        \* the sandboxes, all members of one mesh
          MaxCalls,   \* driver calls the controller makes
          MaxFaults   \* API calls that fail, waits that time out, crashes

VARIABLES claim,    \* claim[i]: "no", "there", "going" (being deleted)
          pod,      \* pod[i]: "no", "pending", "running", "ended", "going"
          secret,   \* secret[i]: the Secret exists
          rule,     \* rule[i]: the sandbox's own network rule exists
          mesh,     \* the mesh's policy and Service exist
          known,    \* known[i]: the controller's row: "new", "live", "deleting", "gone"
          call,     \* call[l]: the open call of the lock holder and of the loop
          answer,   \* answer[i]: the operation the last step answered
          calls, faults

vars == <<claim, pod, secret, rule, mesh, known, call, answer, calls, faults>>
objects == <<claim, pod, secret, rule, mesh>>

\* Under the controller's lock, and beside it.
Lanes == {"locked", "loop"}
Idle == [op |-> "none", i |-> CHOOSE i \in Ids : TRUE, steps |-> <<>>, ok |-> TRUE, left |-> FALSE, mixed |-> FALSE]
None == [i \in Ids |-> "none"]

CreateSteps == <<"claim", "rule", "join", "secret", "pod", "ready">>
StartSteps == <<"rule", "secret", "pod", "ready", "stamp">>

StopSteps == <<"held", "podDel", "podGone", "stamp">>
RemoveSteps == <<"inspect", "podDel", "podGone", "secretDel", "claimDel", "claimGone", "ruleDel", "members", "leave">>

StepsOf(op) ==
  CASE op = "Create" -> CreateSteps
    [] op = "Start" -> <<"read">>
    [] op = "Stop" -> StopSteps
    [] op = "Delete" -> RemoveSteps

Init ==
  /\ claim = [i \in Ids |-> "no"] /\ pod = [i \in Ids |-> "no"]
  /\ secret = [i \in Ids |-> FALSE] /\ rule = [i \in Ids |-> FALSE]
  /\ mesh = FALSE
  /\ known = [i \in Ids |-> "new"]
  /\ call = [l \in Lanes |-> Idle]
  /\ answer = None
  /\ calls = 0 /\ faults = 0

\* A call notes whether another one on the same sandbox ran beside it.
Open(l, op, i, steps) ==
  LET beside == {m \in Lanes \ {l} : call[m] # Idle /\ call[m].i = i} IN
  /\ calls < MaxCalls
  /\ call[l] = Idle
  /\ call' = [m \in Lanes |->
       IF m = l THEN [op |-> op, i |-> i, steps |-> steps, ok |-> TRUE, left |-> FALSE, mixed |-> beside # {}]
       ELSE [call[m] EXCEPT !.mixed = @ \/ m \in beside]]
  /\ calls' = calls + 1
  /\ answer' = None
  /\ UNCHANGED <<objects, faults>>

\* The loop's create of a placed sandbox; again after a crash cut it short.
Realize(i) ==
  /\ known[i] = "new" /\ call["locked"] = Idle
  /\ Open("loop", "Create", i, CreateSteps)
  /\ UNCHANGED known

\* The autosize loop stops a running sandbox and starts it at a larger size.
Move(i) ==
  /\ known[i] = "live" /\ call["locked"] = Idle
  /\ Open("loop", "Move", i, IF pod[i] = "running" THEN StopSteps \o <<"read">> ELSE <<"read">>)
  /\ UNCHANGED known

\* A client's start or stop is refused while the loop has the sandbox.
Act(op, i) ==
  /\ known[i] = "live"
  /\ call["loop"].i # i \/ call["loop"] = Idle
  /\ Open("locked", op, i, StepsOf(op))
  /\ UNCHANGED known

\* A delete is accepted in every phase, and retried until it holds.
Delete(i) ==
  /\ known[i] \in {"new", "live", "deleting"}
  /\ Open("locked", "Delete", i, RemoveSteps)
  /\ known' = [known EXCEPT ![i] = "deleting"]

\* ------------------------------------------------------------- API calls
Now(l) == IF call[l].steps = <<>> THEN "end" ELSE Head(call[l].steps)
At(l, s) == call[l] # Idle /\ Now(l) = s
Then(l, steps) ==
  /\ call' = [call EXCEPT ![l].steps = steps]
  /\ answer' = None
  /\ UNCHANGED <<known, calls, faults>>
Rest(l) == Tail(call[l].steps)
Id(l) == call[l].i

\* A create that fails after its claim removes what it made; a start that
\* saw its new Pod not come up deletes that Pod; the rest just fail.
AfterFailure(l) ==
  CASE call[l].op = "Create" /\ Now(l) \in {"rule", "ruleDrop", "ruleMake", "join", "secret", "pod", "ready"} -> RemoveSteps
    [] call[l].op \in {"Start", "Move"} /\ Now(l) = "ready" -> <<"podDel", "podGone">>
    [] OTHER -> <<>>
Fails(l) == call' = [call EXCEPT ![l].steps = AfterFailure(l), ![l].ok = FALSE]

\* The API server refuses one call, or a wait runs out of its budget.
Fault(l) ==
  /\ call[l] # Idle /\ Now(l) # "end"
  /\ faults < MaxFaults /\ faults' = faults + 1
  /\ IF Now(l) = "inspect"
     THEN call' = [call EXCEPT ![l].steps = Rest(l)]  \* the membership is not learned
     ELSE Fails(l)
  /\ answer' = None
  /\ UNCHANGED <<objects, known, calls>>

ClaimCreate(l) ==
  /\ At(l, "claim")
  /\ IF claim[Id(l)] = "no"
     THEN claim' = [claim EXCEPT ![Id(l)] = "there"] /\ Then(l, Rest(l))
     ELSE /\ Then(l, <<>>)   \* taken as this sandbox's own, by an earlier process
          /\ UNCHANGED claim
  /\ UNCHANGED <<pod, secret, rule, mesh>>

RulePut(l) ==
  /\ At(l, "rule")
  /\ IF rule[Id(l)]
     THEN Then(l, <<"ruleDrop", "ruleMake">> \o Rest(l)) /\ UNCHANGED rule
     ELSE rule' = [rule EXCEPT ![Id(l)] = TRUE] /\ Then(l, Rest(l))
  /\ UNCHANGED <<claim, pod, secret, mesh>>
RuleReplace(l) ==
  /\ Now(l) \in {"ruleDrop", "ruleMake"}
  /\ call[l] # Idle
  /\ rule' = [rule EXCEPT ![Id(l)] = Now(l) = "ruleMake"]
  /\ Then(l, Rest(l))
  /\ UNCHANGED <<claim, pod, secret, mesh>>

JoinMesh(l) ==
  /\ At(l, "join")
  /\ mesh' = TRUE
  /\ Then(l, Rest(l))
  /\ UNCHANGED <<claim, pod, secret, rule>>

SecretPut(l) ==
  /\ At(l, "secret")
  /\ secret' = [secret EXCEPT ![Id(l)] = TRUE]
  /\ Then(l, Rest(l))
  /\ UNCHANGED <<claim, pod, rule, mesh>>

PodCreate(l) ==
  /\ At(l, "pod")
  /\ IF pod[Id(l)] = "no"
     THEN pod' = [pod EXCEPT ![Id(l)] = "pending"] /\ Then(l, Rest(l))
     ELSE Fails(l) /\ answer' = None /\ UNCHANGED <<pod, known, calls, faults>>
  /\ UNCHANGED <<claim, secret, rule, mesh>>

\* A Pod that ran and ended has started.  One that cannot come up spends the
\* budget of the wait.
WaitReady(l) ==
  /\ Now(l) \in {"ready", "readyLive"} /\ call[l] # Idle
  /\ \/ pod[Id(l)] \in {"running", "ended"} /\ Then(l, Rest(l))
     \/ /\ pod[Id(l)] \in {"no", "going"} \/ (pod[Id(l)] = "pending" /\ claim[Id(l)] # "there")
        /\ Fails(l) /\ answer' = None /\ UNCHANGED <<known, calls, faults>>
  /\ UNCHANGED objects

\* Start reads the claim and the Pod it finds on it.
StartRead(l) ==
  /\ At(l, "read")
  /\ IF claim[Id(l)] = "no"
     THEN Fails(l) /\ answer' = None /\ UNCHANGED <<known, calls, faults>>
     ELSE Then(l, CASE pod[Id(l)] \in {"pending", "running"} -> <<"readyLive">>
                    [] pod[Id(l)] \in {"ended", "going"} -> <<"podDel", "podGone">> \o StartSteps
                    [] pod[Id(l)] = "no" -> StartSteps)
  /\ UNCHANGED objects

\* The reads that only refuse a sandbox whose claim is gone, and the stamp a
\* start and a stop leave on it.
NeedsClaim(l) ==
  /\ Now(l) \in {"held", "stamp"} /\ call[l] # Idle
  /\ IF claim[Id(l)] = "no"
     THEN Fails(l) /\ answer' = None /\ UNCHANGED <<known, calls, faults>>
     ELSE Then(l, Rest(l))
  /\ UNCHANGED objects

Inspect(l) ==
  /\ At(l, "inspect")
  /\ call' = [call EXCEPT ![l].steps = Rest(l), ![l].left = claim[Id(l)] # "no"]
  /\ answer' = None
  /\ UNCHANGED <<objects, known, calls, faults>>

PodDelete(l) ==
  /\ At(l, "podDel")
  /\ pod' = [pod EXCEPT ![Id(l)] = IF @ = "no" THEN "no" ELSE "going"]
  /\ Then(l, Rest(l))
  /\ UNCHANGED <<claim, secret, rule, mesh>>
\* A wait for an object to go ends when it is gone, and runs out of its
\* budget when another call made it again under the same name.
WaitGone(l) ==
  /\ call[l] # Idle
  /\ \/ Now(l) = "podGone" /\ pod[Id(l)] = "no" /\ Then(l, Rest(l))
     \/ Now(l) = "claimGone" /\ claim[Id(l)] = "no" /\ Then(l, Rest(l))
     \/ /\ \/ Now(l) = "podGone" /\ pod[Id(l)] \in {"pending", "running", "ended"}
           \/ Now(l) = "claimGone" /\ claim[Id(l)] = "going" /\ pod[Id(l)] # "no"
           \/ Now(l) = "claimGone" /\ claim[Id(l)] = "there"
        /\ Fails(l) /\ answer' = None /\ UNCHANGED <<known, calls, faults>>
  /\ UNCHANGED objects

SecretDelete(l) ==
  /\ At(l, "secretDel")
  /\ secret' = [secret EXCEPT ![Id(l)] = FALSE]
  /\ Then(l, Rest(l))
  /\ UNCHANGED <<claim, pod, rule, mesh>>
ClaimDelete(l) ==
  /\ At(l, "claimDel")
  /\ claim' = [claim EXCEPT ![Id(l)] = IF @ = "no" THEN "no" ELSE "going"]
  /\ Then(l, Rest(l))
  /\ UNCHANGED <<pod, secret, rule, mesh>>
RuleDelete(l) ==
  /\ At(l, "ruleDel")
  /\ rule' = [rule EXCEPT ![Id(l)] = FALSE]
  /\ Then(l, Rest(l))
  /\ UNCHANGED <<claim, pod, secret, mesh>>

\* leaveMesh lists the members and, when none other is left, removes the
\* mesh's objects: two calls, with other calls between them.
ListMembers(l) ==
  /\ At(l, "members")
  /\ Then(l, IF call[l].left /\ \A j \in Ids \ {Id(l)} : claim[j] = "no" THEN Rest(l) ELSE <<>>)
  /\ UNCHANGED objects
LeaveMesh(l) ==
  /\ At(l, "leave")
  /\ mesh' = FALSE
  /\ Then(l, Rest(l))
  /\ UNCHANGED <<claim, pod, secret, rule>>

\* ------------------------------------------------- back in the controller
\* A move reads the sandbox again before it says what became of it.
Reread(l) ==
  /\ At(l, "end") /\ call[l].op = "Move"
  /\ call' = [call EXCEPT ![l].op = "Moved", ![l].left = claim[Id(l)] # "no"]
  /\ answer' = [None EXCEPT ![Id(l)] = IF call[l].ok THEN "Start" ELSE "none"]
  /\ UNCHANGED <<objects, known, calls, faults>>

\* The call ends, under the lock unless a move found nothing.  What the
\* controller does with the answer is part of it: a delete that held forgets
\* the row; a create or a move whose row is gone or going removes what it
\* made, the move only when the driver still showed it.
Undo(l) ==
  \/ call[l].op = "Create" /\ known[Id(l)] = "gone"
  \/ call[l].op = "Moved" /\ known[Id(l)] \in {"deleting", "gone"} /\ call[l].left
Answered(l) == IF call[l].ok /\ call[l].op \notin {"Moved", "Undo"} THEN call[l].op ELSE "none"
Settles(l) == l = "loop" /\ (call[l].op = "Create" \/ (call[l].op = "Moved" /\ call[l].left))
Return(l) ==
  /\ At(l, "end") /\ call[l].op # "Move"
  /\ Settles(l) => call["locked"] = Idle
  /\ call' = [call EXCEPT ![l] = IF Undo(l) THEN [Idle EXCEPT !.op = "Undo", !.i = Id(l), !.steps = RemoveSteps, !.mixed = call[l].mixed] ELSE Idle]
  /\ answer' = [None EXCEPT ![Id(l)] = Answered(l)]
  /\ known' = [known EXCEPT ![Id(l)] =
       IF call[l].op = "Delete" /\ call[l].ok THEN "gone"
       ELSE IF call[l].op = "Create" /\ @ = "new" THEN "live" ELSE @]
  /\ UNCHANGED <<objects, calls, faults>>

\* The process dies with its calls; the next one finds the rows.
Crash ==
  /\ faults < MaxFaults /\ faults' = faults + 1
  /\ \E l \in Lanes : call[l] # Idle
  /\ call' = [l \in Lanes |-> Idle]
  /\ answer' = None
  /\ UNCHANGED <<objects, known, calls>>

\* ------------------------------------------------------------ the cluster
\* A Pod comes up on a claim that is there, ends by itself, and goes once it
\* is deleted; a claim being deleted goes once no Pod holds it; a Secret
\* whose claim is gone is collected.
PodRuns(i) == pod[i] = "pending" /\ claim[i] = "there" /\ pod' = [pod EXCEPT ![i] = "running"] /\ UNCHANGED <<claim, secret>>
PodEnds(i) == pod[i] = "running" /\ pod' = [pod EXCEPT ![i] = "ended"] /\ UNCHANGED <<claim, secret>>
PodGoes(i) == pod[i] = "going" /\ pod' = [pod EXCEPT ![i] = "no"] /\ UNCHANGED <<claim, secret>>
ClaimGoes(i) == claim[i] = "going" /\ pod[i] = "no" /\ claim' = [claim EXCEPT ![i] = "no"] /\ UNCHANGED <<pod, secret>>
SecretGoes(i) == claim[i] = "no" /\ secret[i] /\ secret' = [secret EXCEPT ![i] = FALSE] /\ UNCHANGED <<claim, pod>>
Cluster(i) ==
  /\ PodRuns(i) \/ PodEnds(i) \/ PodGoes(i) \/ ClaimGoes(i) \/ SecretGoes(i)
  /\ answer' = None
  /\ UNCHANGED <<rule, mesh, known, call, calls, faults>>

Step(l) ==
  \/ ClaimCreate(l) \/ RulePut(l) \/ RuleReplace(l) \/ JoinMesh(l) \/ SecretPut(l)
  \/ PodCreate(l) \/ WaitReady(l) \/ StartRead(l) \/ NeedsClaim(l) \/ Inspect(l)
  \/ PodDelete(l) \/ WaitGone(l) \/ SecretDelete(l) \/ ClaimDelete(l) \/ RuleDelete(l)
  \/ ListMembers(l) \/ LeaveMesh(l) \/ Reread(l) \/ Return(l)

Next ==
  \/ \E i \in Ids : Realize(i) \/ Move(i) \/ Act("Start", i) \/ Act("Stop", i) \/ Delete(i) \/ Cluster(i)
  \/ \E l \in Lanes : Step(l) \/ Fault(l)
  \/ Crash

\* Every call moves on, and the cluster does what it was asked.
Fairness ==
  /\ \A l \in Lanes : WF_vars(Step(l))
  /\ \A i \in Ids : WF_vars(PodRuns(i) /\ Cluster(i)) /\ WF_vars(PodGoes(i) /\ Cluster(i))
                    /\ WF_vars(ClaimGoes(i) /\ Cluster(i)) /\ WF_vars(SecretGoes(i) /\ Cluster(i))

Spec == Init /\ [][Next]_vars /\ Fairness

\* ------------------------------------------------------------- properties
\* A claim, a Pod and a row are in the states the driver and the controller tell
\* apart, and a call is one of the driver's.
TypeOK ==
  /\ \A i \in Ids : claim[i] \in {"no", "there", "going"} /\ pod[i] \in {"no", "pending", "running", "ended", "going"}
  /\ \A i \in Ids : known[i] \in {"new", "live", "deleting", "gone"}
  /\ \A l \in Lanes : call[l].op \in {"none", "Create", "Start", "Stop", "Delete", "Move", "Moved", "Undo"}

\* The Pod of a sandbox nobody asked to delete runs under its network rule,
\* through every create, start, move and fault (lifecycle.go: "the Pod is
\* confined from its first packet"): a start that replaces the rule does so
\* while no Pod runs.  A delete beside a create is outside: it takes the rule
\* of what the create is still making, and the settle removes that.
RunsConfined == \A i \in Ids : pod[i] = "running" /\ known[i] \in {"new", "live"} => rule[i]

\* The contract of runtime/driver.go, with a claim not being deleted as the
\* sandbox and a Pod that runs or comes up as its workload.  The moves and the undoing of a deleted
\* sandbox are the controller's starts, stops and deletes.
OpenOn(i) ==
  UNION {CASE call[l].op = "Move" -> {"Start", "Stop"} [] call[l].op = "Moved" -> {"Start"}
           [] call[l].op = "Undo" -> {"Delete"}
           [] OTHER -> {call[l].op} : l \in {m \in Lanes : call[m] # Idle /\ call[m].i = i}}
D == INSTANCE Driver WITH
  there <- [i \in Ids |-> claim[i] = "there"],
  runs <- [i \in Ids |-> pod[i] \in {"pending", "running"}],
  open <- [i \in Ids |-> OpenOn(i)],
  mixed <- [i \in Ids |-> \E l \in Lanes : call[l] # Idle /\ call[l].i = i /\ call[l].mixed],
  ended <- answer
\* Every step of the driver, its partial failures and crossing calls among them,
\* is a step of Driver or of none.
Contract == D!Spec

\* Every driver call answers: each wait has a budget, and each call a next.
CallsEnd == \A l \in Lanes : (call[l] # Idle) ~> (call[l] = Idle)

\* A sandbox the controller has forgotten leaves no workload, no claim and no
\* Secret behind, though its delete ran beside a create or a move: the
\* create's settle and the move's own delete remove what they made.  A fault
\* or a crash in that removal leaves it to the next process's recovery.
ForgottenGoes == \A i \in Ids :
  (known[i] = "gone") ~> (faults > 0 \/ (claim[i] = "no" /\ pod[i] = "no" /\ ~secret[i]))

=============================================================================
