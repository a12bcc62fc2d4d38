-------------------------- MODULE EgressSyncProofs --------------------------
(***************************************************************************)
(* The controller's half of EgressSync: types, what an act under way says  *)
(* of the hub and of desired state (ActInv), and how its maps are numbered *)
(* (VersionInv).  Together they are inductive, and give HubFollowsDesired. *)
(***************************************************************************)
EXTENDS EgressSync, TLAPS

\* The bounds are natural numbers, and the channels hold something.
LEMMA Bounds ==
  /\ MaxPushes \in Nat /\ MaxRepeats \in Nat /\ MaxDrops \in Nat /\ MaxFaults \in Nat /\ MaxRestarts \in Nat
  /\ OutBuffer \in Nat /\ OutBuffer > 0 /\ UpBuffer \in Nat /\ UpBuffer > 0
  BY EgressSyncAssumption

\* An act with one field changed.
LEMMA ActFields ==
  ASSUME NEW a \in Calls
  PROVE  /\ \A x \in Steps : LET b == [a EXCEPT !.at = x] IN
              b \in Calls /\ b.at = x /\ b.kind = a.kind /\ b.m = a.m /\ b.to = a.to
              /\ b.sent = a.sent /\ b.acked = a.acked
         /\ LET b == [a EXCEPT !.acked = TRUE] IN
              b \in Calls /\ b.at = a.at /\ b.kind = a.kind /\ b.m = a.m /\ b.to = a.to
              /\ b.sent = a.sent /\ b.acked
         /\ \A S \in SUBSET Gateways : LET b == [a EXCEPT !.at = "send", !.to = S, !.sent = FALSE] IN
              b \in Calls /\ b.at = "send" /\ b.kind = a.kind /\ b.m = a.m /\ b.to = S
              /\ b.acked = a.acked
  BY Zenon DEF Calls, Steps

\* An act with a gateway less to send to.
LEMMA SentFields ==
  ASSUME act \in Calls, NEW g, NEW x \in BOOLEAN
  PROVE  LET b == Sent(g, x)
         IN  /\ b \in Calls /\ b.at = act.at /\ b.kind = act.kind /\ b.m = act.m
             /\ b.to = act.to \ {g} /\ b.acked = act.acked
  BY Zenon DEF Calls, Sent

\* A broadcast's send has one connection less to go to, whatever it did there.
LEMMA SendToSends == ASSUME NEW g, SendTo(g) PROVE \E q \in BOOLEAN : act' = Sent(g, q)
<1>1. CASE act' = Sent(g, Len(down[g]) < OutBuffer)
  <2>. DEFINE q == Len(down[g]) < OutBuffer
  <2>1. q \in BOOLEAN /\ act' = Sent(g, q)
    BY <1>1
  <2>. HIDE DEF q
  <2>2. QED
    BY <2>1, Zenon
<1>2. QED
  BY <1>1, Zenon DEF SendTo

\* What Begin, BeginPurge and restoreEgress start, and what ends an act.
LEMMA CallFields ==
  ASSUME NEW s \in Steps, NEW k \in Kinds, NEW m \in Maps
  PROVE  /\ Call(s, k, m) \in Calls /\ Call(s, k, m).at = s /\ Call(s, k, m).kind = k
         /\ Call(s, k, m).m = m /\ Call(s, k, m).to = {} /\ ~Call(s, k, m).acked
  BY DEF Calls, Call

\* The map of a sandbox that has none, and the act of a controller that is idle.
LEMMA IdleFields ==
  /\ NoMap \in Maps /\ NoMap.v = 0 /\ NoMap.c = 0
  /\ Idle \in Calls /\ Idle.at = "idle" /\ Idle.kind = "none" /\ Idle.m = NoMap
  /\ Idle.to = {} /\ ~Idle.acked
<1>1. NoMap \in Maps /\ NoMap.v = 0 /\ NoMap.c = 0
  BY Bounds DEF NoMap, NoContent, Maps
<1>2. "idle" \in Steps /\ "none" \in Kinds
  BY DEF Steps, Kinds
<1>3. QED
  BY <1>1, <1>2, CallFields DEF Idle

\* A map of a version and a content.
LEMMA MapFields ==
  ASSUME NEW v \in Nat, NEW c \in 0..MaxPushes
  PROVE  LET m == [v |-> v, c |-> c] IN m \in Maps /\ m.v = v /\ m.c = c
  BY DEF Maps

-----------------------------------------------------------------------------
(* Types. *)

\* A queue with one more frame, and what is left of one whose head is taken.
LEMMA FrameQueue ==
  ASSUME NEW s \in Seq(Frames)
  PROVE  /\ Len(s) \in Nat /\ (s = <<>> <=> Len(s) = 0)
         /\ \A i \in 1..Len(s) : s[i] \in Frames /\ s[i].m \in Maps
         /\ \A f \in Frames :
              /\ Append(s, f) \in Seq(Frames) /\ Append(s, f) # <<>> /\ Len(Append(s, f)) = Len(s) + 1
              /\ Append(s, f)[Len(s) + 1] = f
              /\ \A i \in 1..Len(s) : Append(s, f)[i] = s[i]
         /\ s # <<>> =>
              /\ Head(s) = s[1] /\ Head(s) \in Frames /\ Head(s).m \in Maps
              /\ Tail(s) \in Seq(Frames) /\ Len(Tail(s)) = Len(s) - 1
              /\ \A i \in 1..(Len(s) - 1) : Tail(s)[i] = s[i + 1]
<1>1. Len(s) \in Nat /\ (s = <<>> <=> Len(s) = 0)
  OBVIOUS
<1>2. \A i \in 1..Len(s) : s[i] \in Frames /\ s[i].m \in Maps
  <2>1. \A f \in Frames : f.m \in Maps
    BY DEF Frames
  <2>2. QED
    BY <2>1
<1>3. ASSUME NEW f \in Frames
      PROVE  /\ Append(s, f) \in Seq(Frames) /\ Append(s, f) # <<>> /\ Len(Append(s, f)) = Len(s) + 1
             /\ Append(s, f)[Len(s) + 1] = f
             /\ \A i \in 1..Len(s) : Append(s, f)[i] = s[i]
  OBVIOUS
<1>4. ASSUME s # <<>>
      PROVE  /\ Head(s) = s[1] /\ Head(s) \in Frames /\ Head(s).m \in Maps
             /\ Tail(s) \in Seq(Frames) /\ Len(Tail(s)) = Len(s) - 1
             /\ \A i \in 1..(Len(s) - 1) : Tail(s)[i] = s[i + 1]
  <2>1. /\ Head(s) \in Frames /\ Tail(s) \in Seq(Frames) /\ Len(Tail(s)) = Len(s) - 1
        /\ \A i \in 1..(Len(s) - 1) : Tail(s)[i] = s[i + 1]
    BY <1>4
  <2>2. Head(s) = s[1]
    BY <1>4
  <2>3. Head(s).m \in Maps
    BY <2>1 DEF Frames
  <2>4. QED
    BY <2>1, <2>2, <2>3
<1>5. QED
  BY <1>1, <1>2, <1>3, <1>4

\* The same for the acknowledgments.
LEMMA AckQueue ==
  ASSUME NEW s \in Seq(Nat)
  PROVE  /\ Len(s) \in Nat /\ (s = <<>> <=> Len(s) = 0)
         /\ \A i \in 1..Len(s) : s[i] \in Nat
         /\ \A n \in Nat :
              /\ Append(s, n) \in Seq(Nat) /\ Len(Append(s, n)) = Len(s) + 1
              /\ Append(s, n)[Len(s) + 1] = n
              /\ \A i \in 1..Len(s) : Append(s, n)[i] = s[i]
         /\ s # <<>> =>
              /\ Head(s) = s[1] /\ Head(s) \in Nat
              /\ Tail(s) \in Seq(Nat) /\ Len(Tail(s)) = Len(s) - 1
              /\ \A i \in 1..(Len(s) - 1) : Tail(s)[i] = s[i + 1]
<1>1. Len(s) \in Nat /\ (s = <<>> <=> Len(s) = 0)
  OBVIOUS
<1>2. \A i \in 1..Len(s) : s[i] \in Nat
  OBVIOUS
<1>3. ASSUME NEW n \in Nat
      PROVE  /\ Append(s, n) \in Seq(Nat) /\ Len(Append(s, n)) = Len(s) + 1
             /\ Append(s, n)[Len(s) + 1] = n
             /\ \A i \in 1..Len(s) : Append(s, n)[i] = s[i]
  OBVIOUS
<1>4. ASSUME s # <<>>
      PROVE  /\ Head(s) = s[1] /\ Head(s) \in Nat
             /\ Tail(s) \in Seq(Nat) /\ Len(Tail(s)) = Len(s) - 1
             /\ \A i \in 1..(Len(s) - 1) : Tail(s)[i] = s[i + 1]
  BY <1>4
<1>5. QED
  BY <1>1, <1>2, <1>3, <1>4

\* The frames the hub queues.
LEMMA FrameFields ==
  ASSUME NEW m \in Maps
  PROVE  /\ Put(m) \in Frames /\ Put(m).t = "put" /\ Put(m).m = m
         /\ Snapshot(m) \in Frames /\ Snapshot(m).t = "snapshot" /\ Snapshot(m).m = m
         /\ Purge \in Frames /\ Purge.t = "purge" /\ Purge.m = NoMap
  BY IdleFields DEF Frames, Put, Snapshot, Purge

\* compileEgress: the map of a push is a map.
LEMMA Compiled ==
  ASSUME TypeOK, NEW c \in 0..MaxPushes
  PROVE  compileEgress(c) \in Maps /\ compileEgress(c).v = version + 1 /\ compileEgress(c).c = c
<1>1. version \in Nat /\ version + 1 \in Nat
  BY DEF TypeOK
<1>2. QED
  BY <1>1, MapFields DEF compileEgress

\* The controller's acts keep the types.
LEMMA TypeAct == ASSUME TypeOK, Act PROVE TypeOK'
<1>. USE Bounds, IdleFields
<1>a. /\ "collect" \in Steps /\ {"create", "update", "repush", "recover", "purge", "restore"} \subseteq Kinds
  BY DEF Steps, Kinds
<1>1. ASSUME NEW kind \in {"create", "update", "repush"}, PushNew(kind) PROVE TypeOK'
  <2>1. pushes' \in 0..MaxPushes
    BY <1>1 DEF TypeOK, PushNew
  <2>2. compileEgress(pushes') \in Maps
    BY <2>1, Compiled
  <2>3. act' \in Calls
    BY <1>1, <1>a, <2>2, CallFields DEF PushNew, Begin
  <2>4. reused' \in BOOLEAN /\ want' \in 0..MaxPushes
    BY <1>1, <2>1 DEF TypeOK, PushNew, Begin
  <2>5. QED
    BY <1>1, <2>1, <2>2, <2>3, <2>4 DEF TypeOK, PushNew, Begin, streams
<1>2. CASE PushAgain
  <2>1. compileEgress(want) \in Maps
    BY Compiled DEF TypeOK
  <2>2. act' \in Calls
    BY <1>2, <1>a, <2>1, CallFields DEF PushAgain, Begin
  <2>3. QED
    BY <1>2, <2>1, <2>2 DEF TypeOK, PushAgain, Begin, streams, desired
<1>p. BeginPurge => act' \in Calls /\ hub' \in Maps
  BY <1>a, CallFields DEF BeginPurge
<1>3. CASE Delete
  BY <1>3, <1>p DEF TypeOK, Delete, BeginPurge, streams, NoContent
<1>4. CASE Commit
  <2>1. act.m \in Maps /\ act.m.v \in Nat /\ act.m.c \in 0..MaxPushes
    BY DEF TypeOK, Calls, Maps
  <2>2. QED
    BY <1>4, <2>1 DEF TypeOK, Commit, streams
<1>5. CASE Undo
  <2>0. faults' \in 0..MaxFaults
    BY <1>5 DEF TypeOK, Undo, Undoing
  <2>1. CASE act.kind = "create" /\ BeginPurge /\ UNCHANGED <<desired, pushes>>
    BY <2>0, <2>1, <1>p DEF TypeOK, BeginPurge, desired, streams
  <2>2. CASE act.kind = "update"
    <3>1. [v |-> act.m.v + 1, c |-> want] \in Maps /\ act.m.v + 1 \in Nat
      BY DEF TypeOK, Calls, Maps
    <3>2. act' = Call("collect", "restore", [v |-> act.m.v + 1, c |-> want])
      BY <1>5, <2>2 DEF Undo
    <3>3. act' \in Calls /\ act'.m \in Maps /\ act'.m.v \in Nat
      BY <3>1, <3>2, <1>a, CallFields DEF Maps
    <3>4. /\ hub' \in Maps /\ version' \in Nat /\ last' \in Maps
          /\ UNCHANGED <<want, stored, gone, streams, held, pushes, repeats, drops, restarts, ahead, reused>>
      BY <1>5, <2>2, <3>3 DEF Undo
    <3>5. QED
      BY <2>0, <3>3, <3>4 DEF TypeOK, streams
  <2>3. CASE act.kind \in {"recover", "restore"}
    BY <1>5, <2>0, <2>3 DEF TypeOK, Undo, desired, streams
  <2>4. QED
    BY <1>5, <2>1, <2>2, <2>3 DEF Undo
<1>6. CASE RepushUnwritten
  BY <1>6 DEF TypeOK, RepushUnwritten, desired, streams
<1>7. CASE Restored
  BY <1>7 DEF TypeOK, Restored, desired, streams
<1>8. QED
  BY <1>1, <1>2, <1>3, <1>4, <1>5, <1>6, <1>7 DEF Act

\* broadcast, and what Send does with its answer, keep the types.
LEMMA TypeSend == ASSUME TypeOK, Collect \/ Broadcast \/ Answered PROVE TypeOK'
<1>. USE Bounds, IdleFields
<1>a. /\ [act EXCEPT !.at = "wait"] \in Calls /\ [act EXCEPT !.at = "held"] \in Calls
      /\ [act EXCEPT !.at = "missed"] \in Calls /\ [act EXCEPT !.at = "collect"] \in Calls
      /\ \A S \in SUBSET Gateways : [act EXCEPT !.at = "send", !.to = S, !.sent = FALSE] \in Calls
  BY Zenon, ActFields DEF Steps, TypeOK
<1>1. CASE Collect
  <2>. DEFINE to == {g \in Gateways : conn[g] # "down"}
  <2>1. /\ act' = IF to # {} THEN [act EXCEPT !.at = "send", !.to = to, !.sent = FALSE]
                  ELSE IF act.kind = "purge" THEN Idle ELSE [act EXCEPT !.at = "missed"]
        /\ repeats' = IF act'.at = "send" THEN repeats ELSE 0
        /\ UNCHANGED <<desired, hub, streams, held, bounds, ahead, last, reused>>
    BY <1>1, Zenon DEF Collect
  <2>2. to \in SUBSET Gateways
    OBVIOUS
  <2>. HIDE DEF to
  <2>3. act' \in Calls
    BY Zenon, <2>1, <2>2, <1>a
  <2>4. repeats' \in 0..MaxRepeats
    BY <2>1 DEF TypeOK
  <2>5. QED
    BY <2>1, <2>3, <2>4 DEF TypeOK, desired, streams, bounds
<1>2. CASE Broadcast
  <2>1. act' \in {Idle, [act EXCEPT !.at = "wait"], [act EXCEPT !.at = "missed"]}
    <3>1. CASE act.sent
      BY <1>2, <3>1 DEF Broadcast
    <3>2. CASE ~act.sent
      BY <1>2, <3>2 DEF Broadcast
    <3>3. QED
      BY <3>1, <3>2
  <2>2. act' \in Calls
    BY Zenon, <2>1, <1>a
  <2>3. repeats' \in 0..MaxRepeats
    BY <1>2 DEF Broadcast, TypeOK
  <2>4. QED
    BY <1>2, <2>2, <2>3 DEF TypeOK, Broadcast, desired, streams, bounds
<1>3. CASE Answered
  <2>1. act' \in Calls
    BY Zenon, <1>3, <1>a DEF Answered
  <2>2. repeats' \in 0..MaxRepeats
    BY SMTT(30), <1>3 DEF Answered, TypeOK
  <2>3. QED
    BY SMTT(30), <1>3, <2>1, <2>2 DEF TypeOK, Answered, desired, streams, bounds
<1>4. QED
  BY <1>1, <1>2, <1>3

\* The life of a connection and the gateway keep the types.
LEMMA TypeStream == ASSUME TypeOK, NEW g \in Gateways, Stream(g) PROVE TypeOK'
<1>. USE Bounds, IdleFields
<1>a. /\ down[g] \in Seq(Frames) /\ up[g] \in Seq(Nat) /\ Len(down[g]) \in Nat /\ Len(up[g]) \in Nat
      /\ hub \in Maps /\ act.m \in Maps /\ snap[g] \in Maps /\ held[g] \in Maps /\ act \in Calls
  BY SMTT(30), FrameQueue, AckQueue DEF TypeOK, Calls
<1>b. <<>> \in Seq(Frames) /\ <<>> \in Seq(Nat) /\ Len(<<>>) = 0
  OBVIOUS
<1>c. Shut(g) => /\ conn' \in [Gateways -> {"down", "joined", "ready", "up", "closing", "shut"}]
                 /\ down' \in [Gateways -> Seq(Frames)]
                 /\ \A h \in Gateways : Len(down'[h]) <= OutBuffer
  BY <1>b DEF Shut, TypeOK
<1>d. ASSUME NEW f \in Frames, Len(down[g]) < OutBuffer
      PROVE  LET d == [down EXCEPT ![g] = Append(@, f)]
             IN  d \in [Gateways -> Seq(Frames)] /\ \A h \in Gateways : Len(d[h]) <= OutBuffer
  <2>1. Append(down[g], f) \in Seq(Frames) /\ Len(Append(down[g], f)) <= OutBuffer
    BY <1>a, <1>d, FrameQueue
  <2>2. QED
    BY <2>1 DEF TypeOK
<1>1. CASE SendTo(g)
  <2>1. act' \in Calls /\ ahead' \in BOOLEAN
    <3>1. PICK q \in BOOLEAN : act' = Sent(g, q)
      BY <1>1, SendToSends
    <3>2. act' \in Calls
      BY <3>1, <1>a, SentFields
    <3>3. ahead' \in BOOLEAN
      BY Zenon, <1>1 DEF SendTo, TypeOK
    <3>4. QED
      BY <3>2, <3>3
  <2>2. /\ conn' \in [Gateways -> {"down", "joined", "ready", "up", "closing", "shut"}]
        /\ down' \in [Gateways -> Seq(Frames)]
        /\ \A h \in Gateways : Len(down'[h]) <= OutBuffer
    <3>1. CASE UNCHANGED <<conn, down>>
      BY <3>1 DEF TypeOK
    <3>2. ASSUME Queue(g, IF act.kind = "purge" THEN Purge ELSE Put(act.m))
          PROVE  /\ conn' \in [Gateways -> {"down", "joined", "ready", "up", "closing", "shut"}]
                 /\ down' \in [Gateways -> Seq(Frames)]
                 /\ \A h \in Gateways : Len(down'[h]) <= OutBuffer
      <4>. DEFINE f == IF act.kind = "purge" THEN Purge ELSE Put(act.m)
      <4>1. f \in Frames
        BY <1>a, FrameFields
      <4>2. Queue(g, f)
        BY <3>2
      <4>. HIDE DEF f
      <4>3. CASE Len(down[g]) < OutBuffer
        BY Zenon, <4>1, <4>2, <4>3, <1>d DEF Queue, TypeOK
      <4>4. CASE ~(Len(down[g]) < OutBuffer)
        BY Zenon, <4>2, <4>4, <1>c DEF Queue, TypeOK
      <4>5. QED
        BY <4>3, <4>4
    <3>3. QED
      BY Zenon, <1>1, <3>1, <3>2 DEF SendTo
  <2>3. QED
    BY <1>1, <2>1, <2>2 DEF TypeOK, SendTo, desired, bounds
<1>2. CASE Join(g)
  BY Zenon, <1>2 DEF TypeOK, Join, desired, bounds
<1>3. CASE ReadSnapshot(g)
  BY <1>3 DEF TypeOK, ReadSnapshot, desired, bounds
<1>4. CASE QueueSnapshot(g)
  <2>1. CASE Len(down[g]) < OutBuffer
    <3>1. Snapshot(snap[g]) \in Frames
      BY <1>a, FrameFields
    <3>2. QED
      BY Zenon, <1>4, <2>1, <3>1, <1>d DEF TypeOK, QueueSnapshot, desired, bounds
  <2>2. CASE ~(Len(down[g]) < OutBuffer)
    BY <1>4, <2>2, <1>c DEF TypeOK, QueueSnapshot, desired, bounds
  <2>3. QED
    BY <2>1, <2>2
<1>5. CASE TakeAck(g)
  <2>1. act' \in Calls
    BY Zenon, <1>5, <1>a, ActFields DEF TakeAck
  <2>2. up' \in [Gateways -> Seq(Nat)] /\ \A h \in Gateways : Len(up'[h]) <= UpBuffer
    <3>1. Tail(up[g]) \in Seq(Nat) /\ Len(Tail(up[g])) <= UpBuffer
      BY SMTT(30), <1>5, <1>a, AckQueue DEF TakeAck, TypeOK
    <3>2. QED
      BY Zenon, <1>5, <3>1 DEF TypeOK, TakeAck
  <2>3. QED
    BY Zenon, <1>5, <2>1, <2>2 DEF TypeOK, TakeAck, desired, bounds
<1>6. CASE Drop(g)
  BY <1>6 DEF TypeOK, Drop, desired
<1>7. CASE Leave(g)
  <2>1. act' \in Calls
    <3>1. PICK counted \in BOOLEAN :
            act' = IF g \in act.to THEN Sent(g, counted) ELSE act
      BY Zenon, <1>7 DEF Leave
    <3>2. QED
      BY <3>1, <1>a, SentFields
  <2>2. QED
    BY <1>7, <2>1, <1>b DEF TypeOK, Leave, desired, bounds
<1>8. CASE Receive(g)
  <2>. DEFINE frame == Head(down[g])
              after == CASE frame.t = "put" -> Apply(held[g], frame.m) [] OTHER -> frame.m
  <2>1. /\ down[g] # <<>> /\ Len(up[g]) < UpBuffer
        /\ held' = [held EXCEPT ![g] = after]
        /\ up' = IF frame.t = "snapshot" /\ after = NoMap THEN up ELSE [up EXCEPT ![g] = Append(@, after.v)]
        /\ down' = [down EXCEPT ![g] = Tail(@)]
        /\ UNCHANGED <<desired, hub, act, conn, snap, bounds, repeats, ahead, last, reused>>
    BY <1>8, Zenon DEF Receive
  <2>2. frame.m \in Maps
    BY <2>1, <1>a, FrameQueue
  <2>3. after \in Maps /\ after.v \in Nat
    <3>1. after \in {held[g], frame.m}
      BY DEF Apply
    <3>2. QED
      BY Zenon, <3>1, <2>2, <1>a DEF Maps
  <2>. HIDE DEF frame, after
  <2>4. /\ Tail(down[g]) \in Seq(Frames) /\ Len(Tail(down[g])) <= OutBuffer
        /\ Append(up[g], after.v) \in Seq(Nat) /\ Len(Append(up[g], after.v)) <= UpBuffer
    <3>1. Tail(down[g]) \in Seq(Frames) /\ Len(Tail(down[g])) = Len(down[g]) - 1
      BY <2>1, <1>a, FrameQueue
    <3>2. Append(up[g], after.v) \in Seq(Nat) /\ Len(Append(up[g], after.v)) = Len(up[g]) + 1
      BY <2>3, <1>a, AckQueue
    <3>3. Len(down[g]) <= OutBuffer
      BY DEF TypeOK
    <3>4. QED
      BY <2>1, <3>1, <3>2, <3>3, <1>a
  <2>5. down' \in [Gateways -> Seq(Frames)] /\ \A h \in Gateways : Len(down'[h]) <= OutBuffer
    BY <2>1, <2>4 DEF TypeOK
  <2>6. up' \in [Gateways -> Seq(Nat)] /\ \A h \in Gateways : Len(up'[h]) <= UpBuffer
    BY <2>1, <2>4 DEF TypeOK
  <2>7. held' \in [Gateways -> Maps]
    BY <2>1, <2>3 DEF TypeOK
  <2>8. QED
    BY Zenon, <2>1, <2>5, <2>6, <2>7 DEF TypeOK, desired, bounds
<1>9. QED
  BY <1>1, <1>2, <1>3, <1>4, <1>5, <1>6, <1>7, <1>8 DEF Stream

\* A restart keeps the types.
LEMMA TypeRestart == ASSUME TypeOK, Restart PROVE TypeOK'
<1>1. <<>> \in Seq(Frames) /\ <<>> \in Seq(Nat) /\ Len(<<>>) = 0
  OBVIOUS
<1>2. EgressMaps \subseteq Maps
  <2>1. Awaited \cup {want} \subseteq 0..MaxPushes /\ stored \in Nat
    BY Bounds DEF TypeOK, Awaited
  <2>2. QED
    BY <2>1, MapFields DEF EgressMaps
<1>3. hub' \in Maps
  BY <1>2, IdleFields DEF Restart
<1>4. QED
  BY <1>1, <1>3, Bounds, IdleFields DEF TypeOK, Restart

\* Every step of Next keeps the types.
LEMMA TypeStep == TypeOK /\ [Next]_vars => TypeOK'
<1>. SUFFICES ASSUME TypeOK, [Next]_vars PROVE TypeOK'
  OBVIOUS
<1>1. CASE UNCHANGED vars
  BY <1>1 DEF vars, TypeOK
<1>2. QED
  BY <1>1, TypeAct, TypeSend, TypeStream, TypeRestart DEF Next

-----------------------------------------------------------------------------
(* The controller and the hub. *)

Pushing == act.kind \in {"create", "update", "repush", "recover", "restore"}

\* What the controller has under way, what the hub was given for it and what
\* desired state becomes with it.
ActInv ==
    /\ act.at = "idle" => act = Idle
    /\ act.at # "idle" => Pushing \/ act.kind = "purge"
    /\ act.acked => Pushing
    /\ act.at = "held" => act.acked
    /\ Quiet => hub.c \in Awaited \cup {want}
    /\ Pushing => hub = act.m /\ act.m = last /\ ~gone
    /\ act.kind = "purge" => hub = NoMap /\ want = NoContent
    /\ act.kind \in {"repush", "recover", "restore"} => act.m.c = want
    /\ act.kind \in {"update", "repush", "recover", "restore"} => want # NoContent
    /\ act.kind = "create" => want = NoContent
    /\ gone => want = NoContent

\* compileEgress numbers a map past the row, and the last one sent is at most
\* one past it; contents are numbered by the pushes.
VersionInv ==
    /\ want <= pushes /\ last.c <= pushes
    /\ last.v <= version + 1
    /\ last = NoMap \/ (last.v > 0 /\ last.c > 0)
    /\ Pushing => /\ last # NoMap
                  /\ act.m.v = IF act.kind = "restore" THEN version ELSE version + 1

\* What a step of a stream leaves alone: the act it is a part of, the hub and
\* desired state.
LEMMA StreamKeeps ==
  ASSUME TypeOK, NEW g \in Gateways, Stream(g)
  PROVE  /\ act'.at = act.at /\ act'.kind = act.kind /\ act'.m = act.m
         /\ act'.to \in {act.to, act.to \ {g}}
         /\ act.acked => act'.acked
         /\ ~act.acked /\ act'.acked =>
              TakeAck(g) /\ act.at \in {"collect", "send", "wait"} /\ act.kind # "purge" /\ Head(up[g]) >= act.m.v
         /\ act.at = "idle" /\ act.to = {} => act' = act
         /\ UNCHANGED <<want, version, stored, gone, hub, last, reused, pushes>>
<1>0. act \in Calls
  BY SMTT(30) DEF TypeOK
<1>1. CASE SendTo(g)
  <2>1. PICK q \in BOOLEAN : act' = Sent(g, q)
    BY <1>1, SendToSends
  <2>3. act'.at = act.at /\ act'.kind = act.kind /\ act'.m = act.m /\ act'.to = act.to \ {g} /\ act'.acked = act.acked
    BY <1>0, <2>1, SentFields
  <2>4. QED
    BY <1>1, <2>3 DEF SendTo, desired, bounds
<1>2. CASE Join(g) \/ ReadSnapshot(g) \/ QueueSnapshot(g) \/ Drop(g) \/ Receive(g)
  BY <1>2 DEF Join, ReadSnapshot, QueueSnapshot, Drop, Receive, desired, bounds
<1>3. CASE TakeAck(g)
  BY Zenon, <1>0, <1>3, ActFields DEF TakeAck, desired, bounds
<1>4. CASE Leave(g)
  <2>1. PICK counted \in BOOLEAN :
            act' = IF g \in act.to THEN Sent(g, counted) ELSE act
    BY Zenon, <1>4 DEF Leave
  <2>2. CASE g \in act.to
    <3>1. act'.at = act.at /\ act'.kind = act.kind /\ act'.m = act.m /\ act'.to = act.to \ {g} /\ act'.acked = act.acked
      BY SMTT(30), <1>0, <2>1, <2>2, SentFields
    <3>2. QED
      BY <1>4, <2>2, <3>1 DEF Leave, desired, bounds
  <2>3. CASE g \notin act.to
    BY <1>4, <2>1, <2>3 DEF Leave, desired, bounds
  <2>4. QED
    BY <2>2, <2>3
<1>5. QED
  BY <1>1, <1>2, <1>3, <1>4 DEF Stream

\* The acts of the controller: what they start, and what they end with.
LEMMA Controlled ==
  ASSUME TypeOK, ActInv, VersionInv, Act
  PROVE  ActInv' /\ VersionInv'
<1>. USE Bounds, IdleFields
<1>a. /\ version \in Nat /\ pushes \in Nat /\ want \in Nat /\ last.v \in Nat /\ last.c \in Nat
      /\ act.m.v \in Nat /\ act.m.c \in Nat /\ want \in 0..MaxPushes /\ pushes \in 0..MaxPushes
      /\ act \in Calls /\ act.m \in Maps
  BY DEF TypeOK, Calls, Maps
<1>k. /\ "collect" \in Steps /\ {"create", "update", "repush", "recover", "purge", "restore"} \subseteq Kinds
  BY DEF Steps, Kinds
<1>i. \* What an act that starts is.
      ASSUME NEW kind \in {"create", "update", "repush", "recover", "restore"}, NEW m \in Maps,
             act' = Call("collect", kind, m)
      PROVE  act'.at = "collect" /\ act'.kind = kind /\ act'.m = m /\ ~act'.acked /\ act' # Idle /\ Pushing'
  BY <1>i, <1>k, CallFields DEF Pushing
<1>p. BeginPurge => /\ act'.at = "collect" /\ act'.kind = "purge" /\ ~act'.acked /\ act' # Idle /\ ~Pushing'
                    /\ hub' = NoMap /\ UNCHANGED <<last>>
  BY <1>k, CallFields DEF Pushing, BeginPurge
<1>1. ASSUME NEW kind \in {"create", "update", "repush"}, PushNew(kind) PROVE ActInv' /\ VersionInv'
  <2>1. pushes' = pushes + 1 /\ pushes' \in 0..MaxPushes /\ pushes' > 0
    BY <1>1, <1>a DEF PushNew
  <2>. DEFINE m == compileEgress(pushes')
  <2>2. m \in Maps /\ m.v = version + 1 /\ m.c = pushes'
    BY <2>1, Compiled
  <2>3. act' = Call("collect", kind, m) /\ hub' = m /\ last' = m
    BY <1>1 DEF PushNew, Begin
  <2>. HIDE DEF m
  <2>4. act'.at = "collect" /\ act'.kind = kind /\ act'.m = m /\ ~act'.acked /\ act' # Idle /\ Pushing'
    BY <2>2, <2>3, <1>i
  <2>5. /\ ~gone' /\ version' = version /\ want' = IF kind = "repush" THEN pushes' ELSE want
        /\ (kind = "create") <=> (want = NoContent)
    BY <1>1 DEF PushNew
  <2>6. ActInv'
    BY <2>1, <2>2, <2>3, <2>4, <2>5 DEF ActInv, Quiet, Pushing, NoContent
  <2>7. VersionInv'
    BY <1>a, <2>1, <2>2, <2>3, <2>4, <2>5 DEF VersionInv
  <2>8. QED
    BY <2>6, <2>7
<1>2. CASE PushAgain
  <2>. DEFINE m == compileEgress(want)
  <2>1. m \in Maps /\ m.v = version + 1 /\ m.c = want
    BY <1>a, Compiled
  <2>2. act' = Call("collect", "recover", m) /\ hub' = m /\ last' = m
    BY <1>2 DEF PushAgain, Begin
  <2>. HIDE DEF m
  <2>3. act'.at = "collect" /\ act'.kind = "recover" /\ act'.m = m /\ ~act'.acked /\ act' # Idle /\ Pushing'
    BY <2>1, <2>2, <1>i
  <2>4. ~gone' /\ version' = version /\ want' = want /\ want # NoContent /\ pushes' = pushes + 1
    BY <1>2 DEF PushAgain, desired
  <2>5. ActInv'
    BY <2>1, <2>2, <2>3, <2>4 DEF ActInv, Quiet, Pushing
  <2>6. VersionInv'
    BY <1>a, <2>1, <2>2, <2>3, <2>4 DEF VersionInv, NoContent
  <2>7. QED
    BY <2>5, <2>6
<1>3. CASE Delete
  <2>1. gone' /\ want' = NoContent /\ BeginPurge /\ UNCHANGED <<version, pushes>>
    BY <1>3 DEF Delete
  <2>2. ActInv'
    BY <2>1, <1>p DEF ActInv, Quiet, Pushing
  <2>3. VersionInv'
    BY <1>a, <2>1, <1>p DEF VersionInv, NoContent
  <2>4. QED
    BY <2>2, <2>3
<1>4. CASE Commit
  <2>1. /\ act' = Idle /\ hub' = hub /\ last' = last /\ pushes' = pushes /\ gone' = gone /\ version' = act.m.v
        /\ want' = IF act.kind \in {"create", "update"} THEN act.m.c ELSE want
        /\ act.kind \in {"create", "update", "repush", "recover"}
    BY <1>4 DEF Commit
  <2>2. ~Pushing' /\ Pushing
    BY <2>1 DEF Pushing
  <2>3. hub = act.m /\ act.m = last /\ ~gone
    BY <2>2 DEF ActInv
  <2>4. ActInv'
    BY <2>1, <2>2, <2>3 DEF ActInv, Quiet
  <2>5. VersionInv'
    BY <1>a, <2>1, <2>2, <2>3 DEF VersionInv
  <2>6. QED
    BY <2>4, <2>5
<1>5. CASE Undo
  <2>1. CASE act.kind = "create" /\ BeginPurge /\ UNCHANGED <<desired, pushes>>
    <3>1. ActInv'
      BY <2>1, <1>p DEF ActInv, Quiet, Pushing, desired
    <3>2. VersionInv'
      BY <2>1, <1>a, <1>p DEF VersionInv, desired
    <3>3. QED
      BY <3>1, <3>2
  <2>2. CASE act.kind = "update"
    <3>. DEFINE m == [v |-> act.m.v + 1, c |-> want]
    <3>1. m \in Maps /\ m.v = act.m.v + 1 /\ m.c = want
      BY <1>a, MapFields
    <3>2. act' = Call("collect", "restore", m)
      BY <1>5, <2>2 DEF Undo
    <3>. HIDE DEF m
    <3>3. act'.at = "collect" /\ act'.kind = "restore" /\ act'.m = m /\ ~act'.acked /\ act' # Idle /\ Pushing'
      BY <3>1, <3>2, <1>i
    <3>4. hub' = act'.m /\ version' = act'.m.v /\ last' = act'.m /\ UNCHANGED <<want, gone, pushes>>
      BY <1>5, <2>2 DEF Undo
    <3>5. Pushing
      BY <2>2 DEF Pushing
    <3>6. want # NoContent /\ ~gone
      BY <2>2, <3>5 DEF ActInv
    <3>7. ActInv'
      BY <3>1, <3>3, <3>4, <3>6 DEF ActInv, Quiet, Pushing
    <3>8. VersionInv'
      BY <1>a, <3>1, <3>3, <3>4, <3>6 DEF VersionInv, NoContent
    <3>9. QED
      BY <3>7, <3>8
  <2>3. CASE act.kind \in {"recover", "restore"}
    <3>1. act' = Idle /\ UNCHANGED <<hub, last, pushes, want, version, gone>>
      BY <1>5, <2>3 DEF Undo, desired
    <3>2. ~Pushing' /\ Pushing
      BY <2>3, <3>1 DEF Pushing
    <3>3. ActInv'
      BY <2>3, <3>1, <3>2 DEF ActInv, Quiet
    <3>4. VersionInv'
      BY <3>1, <3>2 DEF VersionInv
    <3>5. QED
      BY <3>3, <3>4
  <2>4. QED
    BY <1>5, <2>1, <2>2, <2>3 DEF Undo
<1>6. CASE RepushUnwritten \/ Restored
  <2>1. act.kind \in {"repush", "restore"} /\ act' = Idle /\ UNCHANGED <<hub, last, pushes, want, version, gone>>
    BY <1>6 DEF RepushUnwritten, Restored, desired
  <2>2. ~Pushing' /\ Pushing
    BY <2>1 DEF Pushing
  <2>3. ActInv'
    BY <2>1, <2>2 DEF ActInv, Quiet
  <2>4. VersionInv'
    BY <2>1, <2>2 DEF VersionInv
  <2>5. QED
    BY <2>3, <2>4
<1>7. QED
  BY <1>1, <1>2, <1>3, <1>4, <1>5, <1>6 DEF Act

\* broadcast and Send's wait change the step of an act, or end a purge.
LEMMA Sending ==
  ASSUME TypeOK, ActInv, Collect \/ Broadcast \/ Answered
  PROVE  /\ UNCHANGED <<desired, hub, streams, held, bounds, ahead, last, reused>>
         /\ act.at \in {"collect", "send", "wait"}
         /\ \/ act' = Idle /\ act.kind = "purge"
            \/ /\ act'.kind = act.kind /\ act'.m = act.m /\ act'.acked = act.acked /\ act'.at \in Steps \ {"idle"}
               /\ act'.at = "held" => act.acked
         /\ act'.at = "send" => act.at = "collect" /\ act'.to = {g \in Gateways : conn[g] # "down"}
         /\ act.at = "collect" /\ act'.at # "send" => \A g \in Gateways : conn[g] = "down"
         /\ act.at = "send" => act.to = {}
         /\ act'.to \in {{}, act.to, {g \in Gateways : conn[g] # "down"}}
<1>0. act \in Calls
  BY DEF TypeOK
<1>t. \A t \in SUBSET Gateways : LET c == [act EXCEPT !.at = "send", !.to = t, !.sent = FALSE] IN
        c.at = "send" /\ c.kind = act.kind /\ c.m = act.m /\ c.to = t /\ c.acked = act.acked
  BY ZenonT(40), <1>0, ActFields
<1>. USE IdleFields
<1>a. /\ \A x \in {"wait", "held", "missed", "collect"} : LET b == [act EXCEPT !.at = x] IN
              b.at = x /\ b.kind = act.kind /\ b.m = act.m /\ b.acked = act.acked /\ b.to = act.to
      /\ {"wait", "held", "missed", "collect", "send"} \subseteq Steps \ {"idle"}
  <2>1. {"wait", "held", "missed", "collect", "send"} \subseteq Steps \ {"idle"}
    BY DEF Steps
  <2>2. ASSUME NEW x \in {"wait", "held", "missed", "collect"}
        PROVE  LET b == [act EXCEPT !.at = x] IN
                 b.at = x /\ b.kind = act.kind /\ b.m = act.m /\ b.acked = act.acked /\ b.to = act.to
    BY <1>0 DEF Calls
  <2>3. QED
    BY <2>1, <2>2
<1>1. CASE Collect
  <2>. DEFINE to == {g \in Gateways : conn[g] # "down"}
              b == [act EXCEPT !.at = "send", !.to = to, !.sent = FALSE]
  <2>1. /\ act.at = "collect"
        /\ act' = IF to # {} THEN b ELSE IF act.kind = "purge" THEN Idle ELSE [act EXCEPT !.at = "missed"]
        /\ UNCHANGED <<desired, hub, streams, held, bounds, ahead, last, reused>>
    BY <1>1, Zenon DEF Collect
  <2>2. to \in SUBSET Gateways
    OBVIOUS
  <2>3. b.at = "send" /\ b.kind = act.kind /\ b.m = act.m /\ b.to = to /\ b.acked = act.acked
    BY Zenon, <2>2, <1>t
  <2>. HIDE DEF to, b
  <2>6. (to = {}) <=> \A g \in Gateways : conn[g] = "down"
    BY DEF to
  <2>4. /\ \/ act' = Idle /\ act.kind = "purge"
           \/ /\ act'.kind = act.kind /\ act'.m = act.m /\ act'.acked = act.acked /\ act'.at \in Steps \ {"idle"}
              /\ act'.at = "held" => act.acked
        /\ act'.at = "send" => act'.to = to
        /\ act'.at # "send" => to = {}
        /\ act'.to \in {{}, act.to, to}
    BY <2>1, <2>3, <1>a
  <2>5. QED
    BY <2>1, <2>4, <2>6 DEF to
<1>2. CASE Broadcast
  <2>1. /\ act.at = "send" /\ act.to = {}
        /\ UNCHANGED <<desired, hub, streams, held, bounds, ahead, last, reused>>
    BY <1>2, Zenon DEF Broadcast
  <2>2. \/ act' = Idle /\ act.kind = "purge"
        \/ act' = [act EXCEPT !.at = "wait"] \/ act' = [act EXCEPT !.at = "missed"]
    <3>1. CASE act.sent
      BY <1>2, <3>1 DEF Broadcast
    <3>2. CASE ~act.sent
      BY <1>2, <3>2 DEF Broadcast
    <3>3. QED
      BY <3>1, <3>2
  <2>3. QED
    BY Zenon, <2>1, <2>2, <1>a
<1>3. CASE Answered
  BY Zenon, <1>3, <1>a DEF Answered
<1>4. QED
  BY <1>1, <1>2, <1>3

\* ActInv and VersionInv are inductive.
LEMMA ControlStep ==
  ASSUME TypeOK, ActInv, VersionInv, [Next]_vars
  PROVE  ActInv' /\ VersionInv'
<1>. USE IdleFields
<1>0. act \in Calls
  BY DEF TypeOK
<1>1. CASE UNCHANGED vars
  <2>1. UNCHANGED <<want, version, gone, hub, last, pushes, act>>
    BY <1>1 DEF vars
  <2>2. Awaited' = Awaited
    BY <2>1 DEF Awaited
  <2>3. ActInv'
    BY <2>1, <2>2 DEF ActInv, Quiet, Pushing
  <2>4. VersionInv'
    BY <2>1 DEF VersionInv, Pushing
  <2>5. QED
    BY <2>3, <2>4
<1>2. CASE Collect \/ Broadcast \/ Answered
  <2>1. UNCHANGED <<want, version, gone, hub, last, pushes>>
    BY <1>2, Sending DEF desired, bounds
  <2>2. CASE act' = Idle /\ act.kind = "purge"
    <3>1. ~Pushing'
      BY <2>2 DEF Pushing
    <3>2. QED
      BY <2>1, <2>2, <3>1 DEF ActInv, VersionInv, Quiet, NoContent
  <2>3. CASE /\ act'.kind = act.kind /\ act'.m = act.m /\ act'.acked = act.acked /\ act'.at # "idle"
             /\ act'.at = "held" => act.acked /\ act.at # "idle"
    <3>1. act.at # "idle" /\ act # Idle /\ act' # Idle
      BY <1>2, Sending, <2>3
    <3>2. QED
      BY <2>1, <2>3, <3>1 DEF ActInv, VersionInv, Quiet, Pushing
  <2>4. QED
    BY <1>2, <2>2, <2>3, Sending
<1>3. ASSUME NEW g \in Gateways, Stream(g) PROVE ActInv' /\ VersionInv'
  <2>1. /\ act'.at = act.at /\ act'.kind = act.kind /\ act'.m = act.m
        /\ act.acked => act'.acked
        /\ ~act.acked /\ act'.acked => act.at \in {"collect", "send", "wait"} /\ act.kind # "purge"
        /\ act.at = "idle" /\ act.to = {} => act' = act
        /\ UNCHANGED <<want, version, gone, hub, last, pushes>>
    BY <1>3, StreamKeeps
  <2>2. Pushing' <=> Pushing
    BY <2>1 DEF Pushing
  <2>3. act.at = "idle" => act' = act
    BY <2>1 DEF ActInv
  <2>4. act' = Idle => act = Idle
    BY <2>1 DEF ActInv
  <2>5. act'.acked => Pushing'
    BY <2>1, <2>2 DEF ActInv
  <2>6. Awaited' = Awaited
    BY <2>1 DEF Awaited
  <2>7. ActInv'
    BY <2>1, <2>2, <2>3, <2>4, <2>5, <2>6 DEF ActInv, Quiet
  <2>8. VersionInv'
    BY <2>1, <2>2 DEF VersionInv
  <2>9. QED
    BY <2>7, <2>8
<1>4. CASE Restart
  <2>1. ~Pushing' /\ act' = Idle /\ last' = NoMap /\ UNCHANGED <<want, gone, pushes>> /\ version' \in Nat
    BY Zenon, <1>4 DEF Restart, Pushing, TypeOK
  <2>2. hub'.c \in Awaited \cup {want}
    <3>1. CASE hub' \in EgressMaps
      <4>1. PICK c \in Awaited \cup {want} : hub' = [v |-> stored, c |-> c]
        BY <3>1 DEF EgressMaps
      <4>2. QED
        BY <4>1
    <3>2. CASE want = NoContent /\ hub' = NoMap
      BY <3>2, MapFields DEF NoContent
    <3>3. QED
      BY <1>4, <3>1, <3>2 DEF Restart
  <2>3. ActInv'
    <3>1. Awaited' = Awaited
      BY <2>1 DEF Awaited
    <3>2. QED
      BY <2>1, <2>2, <3>1 DEF ActInv, Quiet
  <2>4. pushes \in Nat
    BY Bounds DEF TypeOK
  <2>5. VersionInv'
    BY <2>1, <2>4 DEF VersionInv
  <2>6. QED
    BY SMTT(30), <2>3, <2>5
<1>5. QED
  BY <1>1, <1>2, <1>3, <1>4, Controlled DEF Next

\* The first state.
LEMMA ControlInit == Init => TypeOK /\ ActInv /\ VersionInv
<1>. SUFFICES ASSUME Init PROVE TypeOK /\ ActInv /\ VersionInv
  OBVIOUS
<1>. USE Bounds, IdleFields
<1>1. TypeOK
  <2>1. <<>> \in Seq(Frames) /\ <<>> \in Seq(Nat) /\ Len(<<>>) = 0
    OBVIOUS
  <2>2. /\ conn \in [Gateways -> {"down", "joined", "ready", "up", "closing", "shut"}]
        /\ snap \in [Gateways -> Maps] /\ held \in [Gateways -> Maps]
    BY DEF Init
  <2>3. /\ down \in [Gateways -> Seq(Frames)] /\ up \in [Gateways -> Seq(Nat)]
        /\ \A g \in Gateways : Len(down[g]) <= OutBuffer /\ Len(up[g]) <= UpBuffer
    BY <2>1 DEF Init
  <2>4. gone \in BOOLEAN /\ ahead \in BOOLEAN /\ reused \in BOOLEAN
    BY Zenon DEF Init
  <2>8. want \in 0..MaxPushes /\ {version, stored} \subseteq Nat
    BY DEF Init, NoContent
  <2>5. /\ pushes \in 0..MaxPushes /\ repeats \in 0..MaxRepeats /\ drops \in 0..MaxDrops
        /\ faults \in 0..MaxFaults /\ restarts \in 0..MaxRestarts
    BY DEF Init
  <2>6. hub \in Maps /\ last \in Maps /\ act \in Calls
    BY DEF Init
  <2>7. QED
    BY <2>2, <2>3, <2>4, <2>5, <2>6, <2>8 DEF TypeOK
<1>2. ActInv /\ VersionInv
  BY DEF Init, ActInv, VersionInv, Quiet, Pushing, NoContent
<1>3. QED
  BY <1>1, <1>2

\* Types and the controller's part: what the gateways' invariants rest on.
Control == TypeOK /\ ActInv /\ VersionInv

\* It is an invariant.
LEMMA Controls == Spec => []Control
<1>1. Control /\ [Next]_vars => Control'
  BY TypeStep, ControlStep DEF Control
<1>2. Init => Control
  BY ControlInit DEF Control
<1>3. QED
  BY <1>1, <1>2, PTL DEF Spec

\* Between two acts the hub holds the boundary desired state has.
THEOREM HubKept == Spec => []HubFollowsDesired
<1>1. Control => HubFollowsDesired
  BY DEF Control, ActInv, HubFollowsDesired
<1>2. QED
  BY <1>1, Controls, PTL
=============================================================================
