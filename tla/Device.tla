------------------------------- MODULE Device -------------------------------
\* A computer that serves itself: its registration and its key at the control
\* plane, and beside its worker the questions put to its person, its policy, its
\* log and the place of its key.
EXTENDS Naturals, FiniteSets, Sequences, SequencesExt

-----------------------------------------------------------------------------
\* The engine that serves a person's computer as one device (device/engine.go,
\* connect.go, owner.go, keys.go): the run of each device, its key and the key
\* it replaces, the tokens a client hands, the question whether a refused
\* device still exists, and a connect and a removal through the socket.  What
\* the platform answers is external.

CONSTANTS Devices,   \* device ids, used in order
          Keys,      \* key ids, used in order
          Persons,   \* who a client signs in as
          MaxTokens,   \* tokens handed
          MaxEngineFaults, \* crashes of the engine, keys revoked elsewhere
          Nil

VARIABLES plane,    \* plane[d]: "none", "there", "gone"
          ownerOf,  \* who created d
          minted,   \* minted[k]: the device k was minted for
          refused,  \* keys the platform no longer takes
          named,     \* the device the host policy file names
          store,    \* the key kept for each device
          owner,    \* the owner file: a device and a person
          held,     \* the person the held tokens name
          tied,     \* the person tokens are tied to, once confirmed
          pc,       \* Run: "read", "wait", "start", "key", "mint", "serve", "ended"
          dev, key, retiring,
          cause,    \* why the run was cancelled
          online, paused,
          call,     \* a mint of the run's: the device, the person asked as, the answer
          asking,      \* unauthorized's goroutine, the same
          client,   \* a connect or a removal through the socket
          tokens, engineFaults,
          late,     \* devices a key was kept for after they were forgotten
          swapped,  \* a person was confirmed by an answer another's token got
          misled    \* devices forgotten on an answer got before the owner was confirmed

plat == <<plane, ownerOf, minted, refused>>
disk == <<named, store, owner>>
creds == <<held, tied>>
run == <<pc, dev, key, retiring, cause, online, paused>>
hist == <<late, swapped, misled>>
engineVars == <<plat, disk, creds, run, call, asking, client, tokens, engineFaults, hist>>

Idle == [kind |-> "none", d |-> Nil, as |-> Nil, got |-> Nil, k |-> Nil]
NoOwner == [d |-> Nil, p |-> Nil]

EngineInit ==
  /\ plane = [d \in Devices |-> "none"] /\ ownerOf = [d \in Devices |-> Nil]
  /\ minted = [k \in Keys |-> Nil] /\ refused = {}
  /\ named = Nil /\ store = [d \in Devices |-> Nil] /\ owner = NoOwner
  /\ held = Nil /\ tied = Nil
  /\ pc = "read" /\ dev = Nil /\ key = Nil /\ retiring = Nil /\ cause = "none"
  /\ online = FALSE /\ paused = FALSE
  /\ call = Idle /\ asking = Idle /\ client = Idle /\ tokens = 0 /\ engineFaults = 0
  /\ late = {} /\ swapped = FALSE /\ misled = {}

\* ------------------------------------------------------ the platform, external
Mine(d, p) == plane[d] = "there" /\ ownerOf[d] = p
Fresh(k) == minted[k] = Nil /\ \A j \in Keys : j < k => minted[j] # Nil
\* MintKey as the person whose token is held: a key, or that the device is not
\* theirs, which a removed one and another person's both answer.
Minted(d, c) ==
  IF Mine(d, held)
  THEN \E k \in Keys : Fresh(k) /\ minted' = [minted EXCEPT ![k] = d] /\ c = [kind |-> "mint", d |-> d, as |-> held, got |-> "key", k |-> k]
  ELSE UNCHANGED minted /\ c = [kind |-> "mint", d |-> d, as |-> held, got |-> "removed", k |-> Nil]
\* The person removes the device elsewhere, or revokes its key.
PlaneRemoves(d) ==
  /\ plane[d] = "there" /\ plane' = [plane EXCEPT ![d] = "gone"]
  /\ refused' = refused \cup {k \in Keys : minted[k] = d} /\ UNCHANGED <<ownerOf, minted>>
  /\ UNCHANGED <<disk, creds, run, call, asking, client, tokens, engineFaults, hist>>
PlaneRevokes(k) ==
  /\ minted[k] # Nil /\ k \notin refused /\ refused' = refused \cup {k}
  /\ engineFaults < MaxEngineFaults /\ engineFaults' = engineFaults + 1 /\ UNCHANGED <<plane, ownerOf, minted>>
  /\ UNCHANGED <<disk, creds, run, call, asking, client, tokens, hist>>

\* --------------------------------------------------------- tokens and the owner
\* Put: a token of another person than the tied one is refused; it replaces
\* the held tokens of a different person.
PutPerson(p) ==
  /\ tokens < MaxTokens /\ tokens' = tokens + 1
  /\ tied = Nil \/ tied = p
  /\ held' = p
  /\ UNCHANGED <<plat, disk, tied, run, call, asking, client, engineFaults, hist>>
\* confirmOwner: the person the held tokens name now is recorded, unless
\* another is.
recorded(d) == IF owner.d = d THEN owner.p ELSE Nil
confirmOwner(d, as) ==
  IF held # Nil /\ recorded(d) \in {Nil, held}
  THEN /\ owner' = [d |-> d, p |-> held] /\ tied' = held
       /\ swapped' = (swapped \/ held # as) /\ UNCHANGED held
  ELSE UNCHANGED <<owner, tied, held, swapped>>
Unbound(d) == IF owner.d = d THEN NoOwner ELSE owner

\* Bug: tokens count as the owner's as soon as they are held.
UnconfirmedNotHeld == held = Nil

unconfirmed == tied = Nil

\* ------------------------------------------------------------------- the run
readPolicy ==
  /\ pc = "read"
  /\ IF named = Nil THEN pc' = "wait" /\ dev' = Nil /\ paused' = FALSE /\ tied' = Nil /\ UNCHANGED held
     ELSE /\ pc' = "start" /\ dev' = named /\ tied' = recorded(named) /\ UNCHANGED paused
          /\ held' = IF tied' # Nil /\ held # tied' THEN Nil ELSE held
  /\ UNCHANGED <<plat, disk, key, retiring, cause, online, call, asking, client, tokens, engineFaults, hist>>

\* serveDevice registers the run and checks the file under startMu.
Start ==
  /\ pc = "start"
  /\ IF named = dev THEN pc' = "key" ELSE pc' = "read"
  /\ cause' = "none"
  /\ UNCHANGED <<plat, disk, creds, dev, key, retiring, online, paused, call, asking, client, tokens, engineFaults, hist>>
\* prepareKey: the kept key, its rotation when it is old, or a mint that waits
\* for the person's token.
prepareKey ==
  /\ pc = "key" /\ call = Idle
  /\ \/ store[dev] # Nil /\ key' = store[dev] /\ pc' = "serve"
     \/ (store[dev] = Nil \/ held # Nil) /\ key' = key /\ pc' = "mint"
  /\ UNCHANGED <<plat, disk, creds, dev, retiring, cause, online, paused, call, asking, client, tokens, engineFaults, hist>>
mint ==
  /\ pc = "mint" /\ call = Idle /\ held # Nil /\ Minted(dev, call')
  /\ UNCHANGED <<plane, ownerOf, refused, disk, creds, run, asking, client, tokens, engineFaults, hist>>

\* The key is kept and its person confirmed.
MintKept ==
  /\ pc = "mint" /\ call.got = "key" /\ call' = Idle
  /\ retiring' = store[dev] /\ store' = [store EXCEPT ![dev] = call.k]
  /\ key' = call.k /\ pc' = "serve" /\ confirmOwner(dev, call.as)
  /\ UNCHANGED <<plat, named, dev, cause, online, paused, asking, client, tokens, engineFaults, late, misled>>
\* The answer that the device is removed: the device is forgotten, and the
\* run's end lets a waiting removal answer.  Unconfirmed tokens are dropped
\* instead; then a rotation serves with the kept key and a mint waits.
forgotten(d) ==
  /\ store' = [store EXCEPT ![d] = Nil] /\ named' = (IF named = d THEN Nil ELSE named)
  /\ owner' = Unbound(d) /\ tied' = Nil

RunEnds ==
  /\ pc' = "read" /\ key' = Nil /\ retiring' = Nil /\ online' = FALSE /\ paused' = FALSE
  /\ call' = Idle /\ client' = IF client.kind = "removing" THEN Idle ELSE client
MintRefused ==
  /\ pc = "mint" /\ call.got = "removed"
  /\ IF unconfirmed
     THEN /\ held' = Nil /\ call' = Idle /\ key' = store[dev] /\ pc' = IF store[dev] # Nil THEN "serve" ELSE "mint"
          /\ UNCHANGED <<disk, tied, misled, retiring, online, paused, client>>
     ELSE /\ forgotten(dev) /\ RunEnds /\ UNCHANGED held
          /\ misled' = IF tied # Nil /\ call.as # tied THEN misled \cup {dev} ELSE misled
  /\ UNCHANGED <<plat, dev, cause, asking, tokens, engineFaults, late, swapped>>
\* A mint the platform did not answer: a rotation serves with the kept key.
MintErrs ==
  /\ pc = "mint" /\ call = Idle /\ store[dev] # Nil /\ engineFaults < MaxEngineFaults /\ engineFaults' = engineFaults + 1
  /\ pc' = "serve" /\ key' = store[dev]
  /\ UNCHANGED <<plat, disk, creds, dev, retiring, cause, online, paused, call, asking, client, tokens, hist>>

Takes(k) == k # Nil /\ k \notin refused /\ plane[minted[k]] = "there"
\* The worker registers: the key this start replaced is revoked, the new one
\* works.
Registered ==
  /\ pc = "serve" /\ cause = "none" /\ ~paused /\ ~online /\ Takes(key)
  /\ online' = TRUE /\ retiring' = Nil
  /\ refused' = IF retiring = Nil THEN refused ELSE refused \cup {retiring}
  /\ UNCHANGED <<plane, ownerOf, minted, disk, creds, pc, dev, key, cause, paused, call, asking, client, tokens, engineFaults, hist>>
StreamEnds ==
  /\ online /\ ~Takes(key) /\ online' = FALSE
  /\ UNCHANGED <<plat, disk, creds, pc, dev, key, retiring, cause, paused, call, asking, client, tokens, engineFaults, hist>>
\* The stream is told why it ends, a revoked key or a device removed: both
\* forget the device.
refusedServe ==
  /\ pc = "serve" /\ online /\ ~Takes(key) /\ forgotten(dev) /\ RunEnds
  /\ UNCHANGED <<plat, held, dev, cause, asking, tokens, engineFaults, hist>>
\* unauthorized: a refused key asks, apart, whether the device exists.
unauthorized ==
  /\ pc = "serve" /\ cause = "none" /\ ~paused /\ ~online /\ ~Takes(key) /\ asking = Idle /\ held # Nil
  /\ asking' = [kind |-> "exists", d |-> dev, as |-> held, got |-> IF Mine(dev, held) THEN "there" ELSE "removed", k |-> Nil]
  /\ UNCHANGED <<plat, disk, creds, run, call, client, tokens, engineFaults, hist>>

\* Its answer is used against the tokens and the run there are by then.
AskUpstream ==
  /\ asking.kind = "exists"
  /\ IF asking.got = "there"
     THEN /\ confirmOwner(asking.d, asking.as) /\ UNCHANGED <<cause, misled>>
          /\ IF held = Nil THEN UNCHANGED minted /\ asking' = Idle ELSE Minted(asking.d, asking')
     ELSE /\ asking' = Idle /\ UNCHANGED <<minted, owner, tied, swapped>>
          /\ held' = (IF unconfirmed THEN Nil ELSE held)
          /\ IF unconfirmed \/ pc # "serve" \/ dev # asking.d \/ cause # "none" THEN UNCHANGED <<cause, misled>>
             ELSE cause' = "gone" /\ misled' = IF tied # Nil /\ asking.as # tied THEN misled \cup {asking.d} ELSE misled
  /\ UNCHANGED <<plane, ownerOf, refused, named, store, pc, dev, key, retiring, online, paused, call, client, tokens, engineFaults, late>>

AskMinted ==
  /\ asking.kind = "mint" /\ asking' = Idle
  /\ IF asking.got = "key"
     THEN /\ store' = [store EXCEPT ![asking.d] = asking.k] /\ confirmOwner(asking.d, asking.as)
          /\ late' = IF named = asking.d THEN late ELSE late \cup {asking.d}
          /\ key' = IF pc \in {"serve", "key", "mint"} THEN asking.k ELSE key
     ELSE UNCHANGED <<store, owner, tied, held, swapped, late, key>>
  /\ UNCHANGED <<plat, named, pc, dev, retiring, cause, online, paused, call, client, tokens, engineFaults, misled>>
\* The run ends on a gone device.
Gone ==
  /\ pc = "serve" /\ cause = "gone" /\ forgotten(dev) /\ RunEnds
  /\ UNCHANGED <<plat, held, dev, cause, asking, tokens, engineFaults, hist>>
Pause ==
  /\ pc \in {"key", "mint", "serve"} /\ cause = "none"
  /\ paused' = ~paused /\ online' = FALSE
  /\ UNCHANGED <<plat, disk, creds, pc, dev, key, retiring, cause, call, asking, client, tokens, engineFaults, hist>>

\* --------------------------------------------------------- through the socket
Unused(d) == plane[d] = "none" /\ \A e \in Devices : e < d => plane[e] # "none"
Connect(d) ==
  /\ client = Idle /\ named = Nil /\ Unused(d) /\ held # Nil
  /\ plane' = [plane EXCEPT ![d] = "there"] /\ ownerOf' = [ownerOf EXCEPT ![d] = held]
  /\ client' = [Idle EXCEPT !.kind = "connect", !.d = d, !.as = held]
  /\ UNCHANGED <<minted, refused, disk, creds, run, call, asking, tokens, engineFaults, hist>>
\* The file names the device; the person whose tokens connected it owns it;
\* a waiting run wakes.
Connected ==
  /\ client.kind = "connect" /\ client' = Idle
  /\ named' = client.d /\ confirmOwner(client.d, client.as)
  /\ pc' = IF pc = "wait" THEN "read" ELSE pc
  /\ UNCHANGED <<plat, store, dev, key, retiring, cause, online, paused, call, asking, tokens, engineFaults, late, misled>>
\* Remove: at the platform first, unless it is local.
Named == IF dev # Nil THEN dev ELSE named
RemoveDevice(local) ==
  /\ client = Idle /\ Named # Nil
  /\ IF local THEN UNCHANGED <<plane, refused>>
     ELSE /\ Mine(Named, held) /\ plane' = [plane EXCEPT ![Named] = "gone"]
          /\ refused' = refused \cup {k \in Keys : minted[k] = Named}
  /\ client' = [Idle EXCEPT !.kind = "remove", !.d = Named]
  /\ UNCHANGED <<ownerOf, minted, disk, creds, run, call, asking, tokens, engineFaults, hist>>
Running == pc \in {"key", "mint", "serve"}
\* Under startMu: a run is cancelled and waited for; with none the device is
\* forgotten here.
RemoveHere ==
  /\ client.kind = "remove"
  /\ IF Running
     THEN cause' = "removed" /\ client' = [client EXCEPT !.kind = "removing"] /\ UNCHANGED <<disk, tied>>
     ELSE forgotten(client.d) /\ client' = Idle /\ UNCHANGED cause
  /\ UNCHANGED <<plat, held, pc, dev, key, retiring, online, paused, call, asking, tokens, engineFaults, hist>>
RunRemoved ==
  /\ Running /\ cause = "removed" /\ forgotten(dev) /\ RunEnds /\ dev' = Nil
  /\ UNCHANGED <<plat, held, cause, asking, tokens, engineFaults, hist>>

Crash ==
  /\ engineFaults < MaxEngineFaults /\ engineFaults' = engineFaults + 1
  /\ held' = Nil /\ tied' = Nil /\ pc' = "read" /\ dev' = Nil /\ key' = Nil /\ retiring' = Nil
  /\ cause' = "none" /\ online' = FALSE /\ paused' = FALSE /\ call' = Idle /\ asking' = Idle /\ client' = Idle
  /\ UNCHANGED <<plat, disk, tokens, hist>>

RunSteps == readPolicy \/ Start \/ prepareKey \/ mint \/ MintKept \/ MintRefused \/ Registered \/ refusedServe \/ StreamEnds \/ Gone \/ RunRemoved
Asking == unauthorized \/ AskUpstream \/ AskMinted
EngineNext ==
  \/ RunSteps \/ MintErrs \/ Asking \/ Pause \/ Connected \/ RemoveHere \/ Crash
  \/ \E d \in Devices : PlaneRemoves(d) \/ Connect(d)
  \/ \E k \in Keys : PlaneRevokes(k)
  \/ \E p \in Persons : PutPerson(p)
  \/ \E local \in BOOLEAN : RemoveDevice(local)

EngineFairness ==
  /\ WF_engineVars(RunSteps) /\ WF_engineVars(Asking) /\ WF_engineVars(RemoveHere) /\ WF_engineVars(Connected)

EngineSpec == EngineInit /\ [][EngineNext]_engineVars /\ EngineFairness

\* --------------------------------------------------------------- properties
\* A kept key was minted for the device it is kept for.
EngineTypeOK ==
  /\ \A d \in Devices : store[d] # Nil => minted[store[d]] = d
  /\ Running => dev # Nil
  /\ owner.d # Nil => owner.p # Nil

\* A run serves a device only while the file names it, or it is being removed:
\* a removal right after a connect, whichever of the two reaches the lock
\* first, leaves no run serving a device the computer forgot (startMu).
ServesNamed == Running => named = dev \/ cause = "removed"

\* A device the computer forgot leaves no key here, but for one a question
\* still open when it was forgotten came to mint.
NoKeyLeft == \A d \in Devices : store[d] # Nil => named = d \/ d \in late \/ (Running /\ dev = d)

\* A device is not forgotten on an answer that may be another person's: while
\* it is its owner's still, the file goes on naming it unless a client removed
\* it here, whatever tokens were handed.  Not covered is an answer got with
\* one person's token and used once another's was confirmed.
KeptForItsOwner ==
  [][\A d \in Devices : named = d /\ named' # d /\ plane[d] = "there" /\ ~(online /\ ~Takes(key)) => d \in misled' \/ swapped \/ client.kind \in {"remove", "removing"}]_engineVars

\* The recorded owner is the person whose device it is, but for one confirmed
\* by an answer another's token got.
OwnerIsTrue == owner.d # Nil /\ ~swapped => owner.p = ownerOf[owner.d]

\* The key the engine revokes once its replacement registered is never the one
\* it serves with or keeps.
NeverServesRetired == retiring # Nil => retiring # key /\ (dev # Nil => store[dev] # retiring)

\* A key revoked elsewhere is replaced while the person's token is there: the
\* computer does not stay refused.
RecoversKey ==
  (pc = "serve" /\ ~Takes(key) /\ held # Nil) ~>
    (pc # "serve" \/ Takes(key) \/ held = Nil \/ paused \/ cause # "none" \/ \A k \in Keys : minted[k] # Nil)

\* The engine does not get stuck in a removal.
RemovalEnds == (client.kind \in {"remove", "removing"}) ~> (client.kind \notin {"remove", "removing"})

-----------------------------------------------------------------------------
\* A served computer beside its worker: the creates it asks its person about, its
\* host policy, its activity log and the place of its key.

-----------------------------------------------------------------------------
\* The creates a computer asks its person about (device/approvals.go,
\* events.go, control.go): the broker that holds them, the clients that follow
\* and answer through the socket, and the hub that fans the events out.

CONSTANTS Creates, Clients,
          Worlds,     \* the creates and the clients an instance has
          Buffer,     \* events a client may fall behind by (subscriberBuffer)
          MaxFollows  \* streams opened

VARIABLES pending, \* creates waiting, oldest first (order)
          at,      \* at[c]: "new", "asking", "waiting", "dropped", "done"
          verdict, \* what the worker was told of c
          answer,  \* the answer that took c from pending: its value, and how far it got
          stream,  \* stream[f]: "off", "subscribed", "attached", "on", "ended"
          events,  \* the hub's queue to f
          view,    \* the creates f shows
          follows,
          crossed  \* creates whose answer was told before their question

approvalsVars == <<pending, at, verdict, answer, stream, events, view, follows, crossed>>
broker == <<pending, at, verdict, answer>>
seen == <<stream, events, view, follows>>

None == [val |-> Nil, on |-> "no"]
ApprovalsInit ==
  /\ \E w \in Worlds : /\ at = [c \in Creates |-> IF c \in w[1] THEN "new" ELSE "done"]
                     /\ stream = [f \in Clients |-> IF f \in w[2] THEN "off" ELSE "never"]
  /\ pending = <<>> /\ verdict = [c \in Creates |-> Nil]
  /\ answer = [c \in Creates |-> None]
  /\ events = [f \in Clients |-> <<>>] /\ view = [f \in Clients |-> {}]
  /\ follows = 0 /\ crossed = {}

\* ------------------------------------------------------------------- the hub
Subscribed(f) == stream[f] \in {"subscribed", "attached", "on"}
\* A subscriber whose buffer is full is dropped: its channel closes.
publish(kind, c) ==
  /\ events' = [f \in Clients |-> IF Subscribed(f) /\ Len(events[f]) < Buffer THEN Append(events[f], [kind |-> kind, c |-> c]) ELSE events[f]]
  /\ stream' = [f \in Clients |-> IF Subscribed(f) /\ Len(events[f]) >= Buffer THEN "ended" ELSE stream[f]]
  /\ UNCHANGED <<view, follows>>

\* ---------------------------------------------------------------- the broker
\* A follower is attached until its handler returns, an ended stream included.
Attached == {f \in Clients : stream[f] \in {"attached", "on", "ended"}}
IsPending(c) == c \in ToSet(pending)
drop(c) == SelectSeq(pending, LAMBDA d : d # c)
\* Admit asks of a create the policy does not start unasked; with nobody attached the
\* create is refused at once.
ask(c) ==
  /\ at[c] = "new"
  /\ IF Attached = {}
     THEN at' = [at EXCEPT ![c] = "done"] /\ verdict' = [verdict EXCEPT ![c] = "noone"] /\ UNCHANGED pending
     ELSE at' = [at EXCEPT ![c] = "asking"] /\ pending' = Append(pending, c) /\ UNCHANGED verdict
  /\ UNCHANGED <<answer, seen, crossed>>
\* The question is told once the lock is released.
Asked(c) ==
  /\ at[c] = "asking" /\ at' = [at EXCEPT ![c] = "waiting"] /\ publish("asked", c)
  /\ crossed' = IF answer[c].on \in {"told", "given"} THEN crossed \cup {c} ELSE crossed
  /\ UNCHANGED <<pending, verdict, answer>>

\* The first answer takes the create from those waiting.
Answer(c, v) ==
  /\ IsPending(c) /\ pending' = drop(c) /\ answer' = [answer EXCEPT ![c] = [val |-> v, on |-> "taken"]]
  /\ UNCHANGED <<at, verdict, seen, crossed>>
Tell(c) ==
  /\ answer[c].on = "taken" /\ answer' = [answer EXCEPT ![c].on = "told"] /\ publish("answered", c)
  /\ UNCHANGED <<pending, at, verdict, crossed>>

Give(c) ==
  /\ answer[c].on = "told" /\ answer' = [answer EXCEPT ![c].on = "given"]
  /\ UNCHANGED <<pending, at, verdict, seen, crossed>>

\* Admit hears the answer; an allowed create is told to start.
Hear(c) ==
  /\ at[c] = "waiting" /\ answer[c].on = "given"
  /\ at' = [at EXCEPT ![c] = "done"] /\ verdict' = [verdict EXCEPT ![c] = answer[c].val]
  /\ IF answer[c].val = "allow" THEN publish("started", c) ELSE UNCHANGED seen
  /\ UNCHANGED <<pending, answer, crossed>>
\* The worker's admission time ends: a create still waiting is withdrawn, one
\* whose answer is on its way is not, and neither is admitted.
TimeOut(c) ==
  /\ at[c] = "waiting" /\ verdict' = [verdict EXCEPT ![c] = "unanswered"]
  /\ at' = [at EXCEPT ![c] = IF IsPending(c) THEN "dropped" ELSE "done"] /\ pending' = drop(c)
  /\ UNCHANGED <<answer, seen, crossed>>

Withdrawn(c) ==
  /\ at[c] = "dropped" /\ at' = [at EXCEPT ![c] = "done"] /\ publish("withdrawn", c)
  /\ UNCHANGED <<pending, verdict, answer, crossed>>
\* --------------------------------------------------------------- the clients
Follow(f) ==
  /\ stream[f] = "off" /\ follows < MaxFollows /\ follows' = follows + 1
  /\ stream' = [stream EXCEPT ![f] = "subscribed"] /\ UNCHANGED <<broker, events, view, crossed>>
Attach(f) ==
  /\ stream[f] = "subscribed" /\ stream' = [stream EXCEPT ![f] = "attached"]
  /\ UNCHANGED <<broker, events, view, follows, crossed>>
\* The creates waiting now are sent first, then the events queued since.
Listing(f) ==
  /\ stream[f] = "attached" /\ stream' = [stream EXCEPT ![f] = "on"] /\ view' = [view EXCEPT ![f] = ToSet(pending)]
  /\ UNCHANGED <<broker, events, follows, crossed>>
Shown(v, e) == IF e.kind = "asked" THEN v \cup {e.c} ELSE v \ {e.c}
Receive(f) ==
  /\ stream[f] \in {"on", "ended"} /\ events[f] # <<>>
  /\ view' = [view EXCEPT ![f] = Shown(view[f], Head(events[f]))] /\ events' = [events EXCEPT ![f] = Tail(events[f])]
  /\ UNCHANGED <<broker, stream, follows, crossed>>

\* The handler returns: the last to leave refuses every create still waiting.
Leave(f) ==
  /\ stream[f] = "on" \/ (stream[f] = "ended" /\ events[f] = <<>>)
  /\ stream' = [stream EXCEPT ![f] = "off"] /\ events' = [events EXCEPT ![f] = <<>>] /\ view' = [view EXCEPT ![f] = {}]
  /\ IF Attached = {f}
     THEN pending' = <<>> /\ answer' = [c \in Creates |-> IF IsPending(c) THEN [val |-> "noone", on |-> "taken"] ELSE answer[c]]
     ELSE UNCHANGED <<pending, answer>>
  /\ UNCHANGED <<at, verdict, follows, crossed>>

Engine(c) == Asked(c) \/ Tell(c) \/ Give(c) \/ Hear(c) \/ Withdrawn(c)
Client(f) == Attach(f) \/ Listing(f) \/ Receive(f) \/ (stream[f] = "ended" /\ Leave(f))
ApprovalsNext ==
  \/ \E c \in Creates : Engine(c) \/ ask(c) \/ TimeOut(c) \/ \E v \in {"allow", "deny"} : Answer(c, v)
  \/ \E f \in Clients : Client(f) \/ Follow(f) \/ Leave(f)

ApprovalsFairness ==
  /\ (\A c \in Creates : WF_approvalsVars(Engine(c))) /\ (\A f \in Clients : WF_approvalsVars(Client(f)))

ApprovalsSpec == ApprovalsInit /\ [][ApprovalsNext]_approvalsVars /\ ApprovalsFairness

\* --------------------------------------------------------------- properties
\* A create waits once, and an answered one no longer.
ApprovalsTypeOK ==
  /\ IsInjective(pending)
  /\ \A c \in Creates : IsPending(c) => at[c] \in {"asking", "waiting"} /\ answer[c] = None
  /\ \A f \in Clients : Len(events[f]) <= Buffer

\* A create waits only while somebody is there to answer it: a client that
\* leaves as the question is put does not leave it behind (broker.attach, ask).
SomeoneIsThere == pending # <<>> => Attached # {}

\* The verdict is the one answer given, the first, whatever the others sent,
\* or that none came in time; and every client was told an allowing answer
\* before the session it admits starts.
OneAnswer ==
  \A c \in Creates :
    /\ verdict[c] \in {"allow", "deny"} => verdict[c] = answer[c].val
    /\ verdict[c] = "allow" => answer[c].on = "given"

\* A client that has read its stream to the end shows the creates that wait,
\* but for one whose answer overtook its own question.
ShowsWaiting ==
  \A f \in Clients :
    stream[f] = "on" /\ events[f] = <<>> /\ (\A c \in Creates : at[c] \notin {"asking", "dropped"} /\ answer[c].on # "taken")
      => view[f] \ crossed = ToSet(pending)

\* A create somebody answered, or nobody is left to answer, is decided without
\* waiting for its time to end.
AnsweredEnds == \A c \in Creates : (answer[c] # None) ~> (verdict[c] # Nil)

-----------------------------------------------------------------------------
\* The host policy of a served computer (device/connect.go, network.go,
\* policy.go, engine.go): the file, the policy the engine holds, and the
\* driver its worker runs under, changed by clients, by a person's answers
\* and by hosts saved or allowed while sessions run.

CONSTANTS Hosts,    \* network entries
          Triggers, \* scheduled triggers a person may remember
          Putters,  \* clients of PUT /v1/policy
          MaxPuts,  \* policy changes
          MaxSaves  \* hosts saved or allowed, triggers remembered or forgotten

VARIABLES file,    \* the file: the network's hosts and the remembered triggers
          want,    \* the triggers a person remembered and did not forget
          policy,  \* e.policy's hosts
          stage,   \* serveOnce: "read", "build", "serve", "ended"
          runs, drv, saved, allowed, cancelled,
          put,     \* put[p]: a change under way
          save,    \* SaveHost, which holds allowMu
          allow,   \* AllowSessionHost, once it found its session running
          puts, saves,
          missed,  \* a reload came while the driver was being built, and none since
          passed  \* two changes were at once on their way from the file to the engine,
                  \* and none alone since

clients == <<put, save, allow, puts, saves>>
eng == <<policy, stage, runs, drv, saved, allowed, cancelled>>
policyVars == <<file, want, eng, clients, missed, passed>>

Still == [at |-> "idle", net |-> {}]
PolicyInit ==
  /\ file = [net |-> {}, rem |-> {}] /\ want = {} /\ policy = {} /\ stage = "read" /\ runs = 0
  /\ drv = {} /\ saved = {} /\ allowed = {} /\ cancelled = FALSE
  /\ put = [p \in Putters |-> Still] /\ save = Nil /\ allow = Nil /\ puts = 0 /\ saves = 0
  /\ missed = FALSE /\ passed = FALSE

\* ------------------------------------------------------------------- the run
\* The policy is read and the allowances forgotten under allowMu.
readForRun ==
  /\ stage = "read" /\ save = Nil
  /\ stage' = "build" /\ runs' = runs + 1 /\ drv' = policy /\ saved' = {} /\ allowed' = {} /\ cancelled' = FALSE
  /\ missed' = FALSE
  /\ UNCHANGED <<file, want, policy, clients, passed>>
\* The driver is built; only now is there something to cancel.
built ==
  /\ stage = "build" /\ stage' = "serve"
  /\ UNCHANGED <<file, want, policy, runs, drv, saved, allowed, cancelled, clients, missed, passed>>

\* The cancelled worker returns: what was allowed for its sessions goes.
workerEnds ==
  /\ stage = "serve" /\ cancelled /\ stage' = "read" /\ allowed' = {}
  /\ UNCHANGED <<file, want, policy, runs, drv, saved, cancelled, clients, missed, passed>>

\* ------------------------------------------------------------- a new policy
Busy(ps) == \E p \in ps : put[p].at \in {"written", "read"}
\* PutPolicy: checked against the file, renamed at the platform, then applied
\* over the file as it is by then.
PutPolicy(p, n) ==
  /\ put[p].at = "idle" /\ puts < MaxPuts /\ puts' = puts + 1
  /\ put' = [put EXCEPT ![p] = [at |-> "renamed", net |-> n]]
  /\ UNCHANGED <<file, want, eng, save, allow, saves, missed, passed>>

PutWritten(p) ==
  /\ put[p].at = "renamed" /\ file' = [file EXCEPT !.net = put[p].net]
  /\ put' = [put EXCEPT ![p].at = "written"]
  /\ passed' = (passed \/ save # Nil \/ Busy(Putters \ {p}))
  /\ UNCHANGED <<want, eng, save, allow, puts, saves, missed>>
\* No reload where the engine serves the same.
servesTheSame(p) ==
  /\ put[p].at = "written" /\ policy = put[p].net /\ put' = [put EXCEPT ![p] = Still]
  /\ UNCHANGED <<file, want, eng, save, allow, puts, saves, missed, passed>>
\* Reload reads the file, and then hands the policy to the engine and cancels
\* the worker there is.
ReloadRead(p) ==
  /\ put[p].at = "written" /\ policy # put[p].net
  /\ put' = [put EXCEPT ![p] = [at |-> "read", net |-> file.net]]
  /\ UNCHANGED <<file, want, eng, save, allow, puts, saves, missed, passed>>

Reload(p) ==
  /\ put[p].at = "read" /\ put' = [put EXCEPT ![p] = Still]
  /\ policy' = put[p].net /\ cancelled' = (cancelled \/ stage = "serve")
  /\ missed' = (missed \/ stage = "build")
  /\ passed' = (passed /\ (put[p].net # file.net \/ save # Nil \/ Busy(Putters \ {p})))
  /\ UNCHANGED <<file, want, stage, runs, drv, saved, allowed, save, allow, puts, saves>>

\* --------------------------------------------- hosts, while sessions run
\* SaveHost, under allowMu: the file, then the engine's policy and what the
\* sessions' next commands reach.
SaveHost(h) ==
  /\ save = Nil /\ saves < MaxSaves /\ saves' = saves + 1
  /\ file' = [file EXCEPT !.net = @ \cup {h}] /\ save' = [h |-> h, net |-> file.net \cup {h}]
  /\ passed' = (passed \/ Busy(Putters))
  /\ UNCHANGED <<want, eng, put, allow, puts, missed>>
HostSaved ==
  /\ save # Nil /\ save' = Nil /\ policy' = save.net /\ saved' = saved \cup {save.h}
  /\ UNCHANGED <<file, want, stage, runs, drv, allowed, cancelled, put, allow, puts, saves, missed, passed>>
\* AllowSessionHost: the session is found running under the driver there is, then
\* allowed the host, whatever worker runs by then.
AllowSessionHost(h) ==
  /\ stage = "serve" /\ allow = Nil /\ saves < MaxSaves /\ saves' = saves + 1
  /\ allow' = [h |-> h, run |-> runs, over |-> FALSE]
  /\ UNCHANGED <<file, want, eng, put, save, puts, missed, passed>>
SessionAllowed ==
  /\ allow # Nil /\ save = Nil /\ allow' = Nil
  /\ allowed' = allowed \cup {[allow EXCEPT !.over = allow.run # runs \/ stage # "serve"]}
  /\ UNCHANGED <<file, want, policy, stage, runs, drv, saved, cancelled, put, save, puts, saves, missed, passed>>
\* What a session's next command reaches, its own allowances apart.
allowedFor == drv \cup saved

\* ----------------------------------------------------------------- triggers
rememberTrigger(t) ==
  /\ saves < MaxSaves /\ saves' = saves + 1 /\ file' = [file EXCEPT !.rem = @ \cup {t}] /\ want' = want \cup {t}
  /\ UNCHANGED <<eng, put, save, allow, puts, missed, passed>>
ForgetRemembered(t) ==
  /\ t \in file.rem /\ file' = [file EXCEPT !.rem = @ \ {t}] /\ want' = want \ {t}
  /\ UNCHANGED <<eng, clients, missed, passed>>

Run == readForRun \/ built \/ workerEnds
Change(p) == PutWritten(p) \/ servesTheSame(p) \/ ReloadRead(p) \/ Reload(p)
PolicyNext ==
  \/ Run \/ HostSaved \/ SessionAllowed
  \/ \E p \in Putters : Change(p) \/ \E n \in SUBSET Hosts : PutPolicy(p, n)
  \/ \E h \in Hosts : SaveHost(h) \/ AllowSessionHost(h)
  \/ \E t \in Triggers : rememberTrigger(t) \/ ForgetRemembered(t)

PolicyFairness ==
  /\ WF_policyVars(Run) /\ WF_policyVars(HostSaved) /\ (\A p \in Putters : WF_policyVars(Change(p)))

PolicySpec == PolicyInit /\ [][PolicyNext]_policyVars /\ PolicyFairness

\* --------------------------------------------------------------- properties
\* A driver is built from a policy the engine held.
PolicyTypeOK == stage \in {"read", "build", "serve"} /\ runs <= puts + 1 /\ allowedFor \cup file.net \subseteq Hosts

\* A trigger the person remembered stays remembered through every change of
\* the rest of the policy, a slow rename at the platform included.
RememberedStays == file.rem = want

Quiet == save = Nil /\ \A p \in Putters : put[p].at = "idle"
\* With no change under way the sessions' commands reach what the file says:
\* the hosts saved meanwhile are neither lost to the new driver nor kept past
\* a change that drops them.  Until a later reload that does not hold after a
\* reload that came while serveOnce built its driver, when there is nothing to
\* cancel, nor after two changes that reached the engine in another order than
\* the file.
ServesFile == Quiet /\ stage = "serve" /\ ~cancelled /\ ~missed /\ ~passed => allowedFor = file.net

\* What was allowed for a session alone goes with the worker it was allowed
\* under: none of it reaches the sessions of the next, but for an allowance whose
\* session was found under the old worker and that was kept once that had ended.
AllowanceEnds == stage = "serve" => \A a \in allowed : a.run = runs \/ a.over

\* A reload that found a worker is served: the engine comes back to the policy
\* it was handed, but for a reload that met a driver being built and two changes
\* that passed each other.
ChangeServed == (\E p \in Putters : put[p].at = "read" /\ stage = "serve") ~> (stage = "serve" /\ (allowedFor = policy \/ missed \/ passed))

-----------------------------------------------------------------------------
\* A computer's activity log (device/activity.go): one writer that rotates the
\* file at its limit, rename by rename, and a reader that reads every kept file
\* and then follows the current one across rotations.

CONSTANTS Keep,       \* older files kept (ActivityKeep)
          PerFile,    \* entries a file takes (ActivityMax)
          MaxEntries, MaxFaults

VARIABLES name,   \* name[i]: the file at place i, 0 the current one; 0 for none
          data,   \* data[f]: the entries of file f
          wf,     \* the file the writer has open, 0 for none
          rot,    \* the rotation's next rename, Keep + 1 when none is under way
          n,      \* entries written
          faults,
          pos,     \* the reader: "read", "end", "poll", "look", "moved"
          place,  \* the next place it reads
          rf, off, got,
          skipped  \* entries passed over, each where the reader passed it

writer == <<name, data, wf, rot, n, faults>>
reader == <<pos, place, rf, off, got, skipped>>
logVars == <<writer, reader>>

Places == 0..Keep
Files == 1..MaxEntries + 1
Contents(r) == IF r = 0 THEN <<>> ELSE data[r]

\* A log that holds a first entry, and a reader about to start.
LogInit ==
  /\ name = [i \in Places |-> IF i = 0 THEN 1 ELSE 0] /\ data = [f \in Files |-> IF f = 1 THEN <<1>> ELSE <<>>]
  /\ wf = 1 /\ rot = Keep + 1 /\ n = 1 /\ faults = 0
  /\ pos = "read" /\ place = Keep /\ rf = 0 /\ off = 0 /\ got = <<>> /\ skipped = {}

\* ---------------------------------------------------------------- the writer
Write ==
  /\ wf # 0 /\ rot = Keep + 1 /\ n < MaxEntries /\ Len(data[wf]) < PerFile
  /\ n' = n + 1 /\ data' = [data EXCEPT ![wf] = Append(@, n + 1)]
  /\ UNCHANGED <<name, wf, rot, faults, reader>>

\* rotate: the oldest goes, each older file moves one place along, the current
\* one last, and a new file is opened.
RotateStart ==
  /\ wf # 0 /\ rot = Keep + 1 /\ n < MaxEntries /\ Len(data[wf]) = PerFile
  /\ wf' = 0 /\ rot' = Keep - 1 /\ name' = [name EXCEPT ![Keep] = 0]
  /\ UNCHANGED <<data, n, faults, reader>>

Rename ==
  /\ rot \in 0..Keep - 1
  /\ name' = [name EXCEPT ![rot + 1] = IF name[rot] = 0 THEN name[rot + 1] ELSE name[rot], ![rot] = 0]
  /\ rot' = IF rot = 0 THEN Keep + 2 ELSE rot - 1
  /\ UNCHANGED <<data, wf, n, faults, reader>>
open ==
  /\ rot = Keep + 2 /\ rot' = Keep + 1 /\ n' = n + 1
  /\ LET f == n + 1 IN name' = [name EXCEPT ![0] = f] /\ wf' = f /\ data' = [data EXCEPT ![f] = <<n + 1>>]
  /\ UNCHANGED <<faults, reader>>
\* A remove, a rename or an open that fails leaves the log closed.
RotateFails ==
  /\ wf = 0 /\ rot # Keep + 1 /\ faults < MaxFaults /\ faults' = faults + 1 /\ rot' = Keep + 1
  /\ UNCHANGED <<name, data, wf, n, reader>>

\* ---------------------------------------------------------------- the reader
\* ReadActivity: every kept file, oldest first.
ReadActivity ==
  /\ pos = "read" /\ got' = got \o Contents(name[place])
  /\ IF place = 0 THEN pos' = "end" /\ UNCHANGED place ELSE place' = place - 1 /\ UNCHANGED pos
  /\ UNCHANGED <<writer, rf, off, skipped>>
LastGot == IF got = <<>> THEN 0 ELSE got[Len(got)]
\* Entries after the last read that are in neither the open file nor the current.
Between == {e \in (LastGot + 1)..n : \E f \in Files \ {rf, name[0]} : \E i \in 1..Len(data[f]) : data[f][i] = e}

\* The current file is opened at its end, to skip what was read.
reopenAtEnd ==
  /\ pos = "end" /\ pos' = "poll" /\ rf' = name[0] /\ off' = Len(Contents(name[0]))
  /\ skipped' = skipped \cup {e \in 1..n : e \notin {got[i] : i \in 1..Len(got)}}
  /\ UNCHANGED <<writer, place, got>>
drain ==
  /\ got' = got \o SubSeq(Contents(rf), off + 1, Len(Contents(rf))) /\ off' = Len(Contents(rf))
\* moved: the name holds another file than the open one.
Moved == name[0] # 0 /\ name[0] # rf
Poll ==
  /\ pos = "poll" /\ rf # 0 /\ drain /\ pos' = "look"
  /\ UNCHANGED <<writer, place, rf, skipped>>
Look ==
  /\ pos = "look" /\ pos' = (IF Moved THEN "moved" ELSE "poll")
  /\ UNCHANGED <<writer, place, rf, off, got, skipped>>

\* The old file is read to its end once more before the new one is opened.
Reopen ==
  /\ pos = "moved" /\ pos' = "poll" /\ rf' = name[0] /\ off' = 0
  /\ got' = got \o SubSeq(Contents(rf), off + 1, Len(Contents(rf)))
  /\ skipped' = skipped \cup Between
  /\ UNCHANGED <<writer, place>>
PollAbsent ==
  /\ pos = "poll" /\ rf = 0 /\ name[0] # 0 /\ rf' = name[0] /\ off' = 0 /\ skipped' = skipped \cup Between
  /\ UNCHANGED <<writer, pos, place, got>>

Writer == Write \/ RotateStart \/ Rename \/ open
Reader == ReadActivity \/ reopenAtEnd \/ Poll \/ Look \/ Reopen \/ PollAbsent
LogNext == Writer \/ RotateFails \/ Reader

LogFairness ==
  /\ WF_logVars(Reader) /\ WF_logVars(Writer)

LogSpec == LogInit /\ [][LogNext]_logVars /\ LogFairness

\* --------------------------------------------------------------- properties
\* A place names a file the writer made, and no file has two names.
LogTypeOK ==
  /\ \A i, j \in Places : i # j /\ name[i] # 0 => name[i] # name[j]
  /\ \A f \in Files : Len(data[f]) <= PerFile
  /\ rot = Keep + 1 => wf = name[0] \/ wf = 0

\* The reader is handed entries in the order they were written and none twice,
\* whatever rotation its reads meet.
InOrder == \A i, j \in 1..Len(got) : i < j => got[i] < got[j]

\* Once it follows, the reader comes to have every entry still being written,
\* across a rotation at any moment between its reads; passed over are only the
\* entries written or moved while it first read, and a whole file rotated in
\* and out between two of its looks.  A rotation that failed closes the log.
FollowsAll == \A e \in 1..MaxEntries : (n >= e) ~> (faults > 0 \/ e \in skipped \/ \E i \in 1..Len(got) : got[i] = e)

\* A file still kept is never written over: an entry leaves the log only with
\* the oldest file.
OldestGoes ==
  [][\A i \in Places : name[i] # 0 /\ (\A j \in Places : name'[j] # name[i]) => i = Keep]_logVars

-----------------------------------------------------------------------------
\* Where a computer keeps its device's key (device/keys.go): the keychain, or
\* a file while the keychain cannot be reached.

CONSTANTS MaxKeys, MaxFlips

VARIABLES reachable,       \* the keychain answers
          chain, kf, \* the key in each, 0 for none
          last,     \* the key put last, 0 once deleted
          keyNo, flips,
          answered,      \* the last Get: a key, 0 for none, or -1 for an error
          behind    \* the keychain holds a copy written before it was last unreachable

keysVars == <<reachable, chain, kf, last, keyNo, flips, answered, behind>>
Unasked == MaxKeys + 1
Failed == MaxKeys + 2

KeysInit == reachable \in BOOLEAN /\ chain = 0 /\ kf = 0 /\ last = 0 /\ keyNo = 0 /\ flips = 0 /\ answered = Unasked /\ behind = FALSE

Flip == flips < MaxFlips /\ flips' = flips + 1 /\ reachable' = ~reachable /\ answered' = Unasked /\ UNCHANGED <<chain, kf, last, keyNo, behind>>

\* To the keychain, and the file's copy goes; or to the file.
Put ==
  /\ keyNo < MaxKeys /\ keyNo' = keyNo + 1 /\ last' = keyNo + 1 /\ answered' = Unasked
  /\ IF reachable THEN chain' = keyNo + 1 /\ kf' = 0 /\ behind' = FALSE ELSE kf' = keyNo + 1 /\ UNCHANGED chain /\ behind' = (chain # 0)
  /\ UNCHANGED <<reachable, flips>>
\* In both; a keychain that cannot be reached counts as holding nothing.
Delete ==
  /\ last' = 0 /\ kf' = 0 /\ chain' = (IF reachable THEN 0 ELSE chain) /\ behind' = (~reachable /\ chain # 0) /\ answered' = Unasked
  /\ UNCHANGED <<reachable, keyNo, flips>>
\* The keychain first, then the file, then the keychain's failure.
Get ==
  /\ answered' = IF reachable /\ chain # 0 THEN chain ELSE IF kf # 0 THEN kf ELSE IF reachable THEN 0 ELSE Failed
  /\ UNCHANGED <<reachable, chain, kf, last, keyNo, flips, behind>>

KeysNext == Flip \/ Put \/ Delete \/ Get
KeysSpec == KeysInit /\ [][KeysNext]_keysVars

\* Each store holds a key that was put.
KeysTypeOK == chain <= keyNo /\ kf <= keyNo /\ last <= keyNo

\* A read answers the key written last, wherever the two writes landed, while
\* the keychain holds no copy older than one it could not be reached for.
ReadsLast == answered \notin {Unasked, Failed} /\ ~behind /\ (reachable \/ kf # 0 \/ chain = 0) => answered = last

=============================================================================
