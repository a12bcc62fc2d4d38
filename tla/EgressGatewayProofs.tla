------------------------ MODULE EgressGatewayProofs ------------------------
(***************************************************************************)
(* The steps of one gateway's stream keep GatewayInv of EgressLineProofs,  *)
(* so it is inductive, and gives GatewaysFollow.                           *)
(***************************************************************************)
EXTENDS EgressLineProofs

\* A step of one gateway's stream leaves the others alone.
LEMMA Others ==
  ASSUME Control, NEW g \in Gateways, Stream(g), NEW h \in Gateways, h # g
  PROVE  /\ conn'[h] = conn[h] /\ snap'[h] = snap[h] /\ down'[h] = down[h] /\ up'[h] = up[h] /\ held'[h] = held[h]
         /\ h \in act'.to <=> h \in act.to
<1>1. act'.to \in {act.to, act.to \ {g}}
  BY StreamKeeps DEF Control
<1>2. h \in act'.to <=> h \in act.to
  BY <1>1
<1>3. /\ conn'[h] = conn[h] /\ snap'[h] = snap[h] /\ down'[h] = down[h] /\ up'[h] = up[h] /\ held'[h] = held[h]
  <2>1. CASE SendTo(g)
    BY Zenon, <2>1 DEF SendTo, Queue, Shut, Control, TypeOK
  <2>2. CASE Join(g) \/ ReadSnapshot(g) \/ QueueSnapshot(g) \/ Drop(g) \/ Leave(g) \/ TakeAck(g)
    BY Zenon, <2>2 DEF Join, ReadSnapshot, QueueSnapshot, Shut, Drop, Leave, TakeAck, Control, TypeOK
  <2>3. CASE Receive(g)
    BY <2>3 DEF Receive, Control, TypeOK
  <2>4. QED
    BY <2>1, <2>2, <2>3 DEF Stream
<1>4. QED
  BY <1>2, <1>3

\* What a step of a stream cannot change.
LEMMA StreamEnv ==
  ASSUME Control, NEW g \in Gateways, Stream(g)
  PROVE  /\ UNCHANGED <<want, version, gone, hub, last, reused>>
         /\ act'.at = act.at /\ act'.kind = act.kind /\ act'.m = act.m
         /\ Wiped' <=> Wiped
         /\ ahead => ahead'
         /\ Clean' => Clean
<1>1. /\ UNCHANGED <<want, version, gone, hub, last, reused>>
      /\ act'.at = act.at /\ act'.kind = act.kind /\ act'.m = act.m
  BY StreamKeeps DEF Control
<1>2. Wiped' <=> Wiped
  BY <1>1 DEF Wiped, Pushing
<1>3. ahead => ahead'
  BY Zenon DEF Stream, SendTo, Join, ReadSnapshot, QueueSnapshot, TakeAck, Drop, Leave, Receive
<1>4. Clean' => Clean
  BY <1>1, <1>3 DEF Clean
<1>5. QED
  BY <1>1, <1>2, <1>3, <1>4

\* A step of a stream keeps the invariants, if it does those of its gateway.
LEMMA StreamRest ==
  ASSUME Control, GatewayInv, NEW g \in Gateways, Stream(g),
         QueueInv(g)',
         ~reused => PurgeInv(g)',
         Clean' => StreamInv(g)' /\ AckInv(g)',
         Clean' /\ act.acked /\ Keeping(g) => Keeping(g)',
         Clean' /\ ~act.acked /\ act'.acked => Keeping(g)'
  PROVE  GatewayInv'
<1>1. /\ UNCHANGED <<want, version, gone, hub, last, reused>>
      /\ act'.at = act.at /\ act'.kind = act.kind /\ act'.m = act.m
      /\ Wiped' <=> Wiped
      /\ ahead => ahead'
      /\ Clean' => Clean
  BY Zenon, StreamEnv
<1>2. ASSUME NEW h \in Gateways, h # g
      PROVE  /\ conn'[h] = conn[h] /\ snap'[h] = snap[h] /\ down'[h] = down[h] /\ up'[h] = up[h] /\ held'[h] = held[h]
             /\ h \in act'.to <=> h \in act.to
  BY <1>2, Others
<1>3. ASSUME NEW h \in Gateways, h # g
      PROVE  /\ PurgeInv(h) => PurgeInv(h)'
             /\ StreamInv(h) => StreamInv(h)'
             /\ AckInv(h) => AckInv(h)'
             /\ Keeping(h) => Keeping(h)'
  <2>1. Pending(h)' <=> Pending(h)
    BY <1>1, <1>2, <1>3 DEF Pending
  <2>2. /\ PurgeInv(h) => PurgeInv(h)'
        /\ StreamInv(h) => StreamInv(h)'
        /\ AckInv(h) => AckInv(h)'
        /\ Holding(h) => Holding(h)'
    BY <1>1, <1>2, <1>3, <2>1, Untouched DEF Control
  <2>3. QED
    BY <2>2, <1>1, <1>2, <1>3 DEF Keeping
<1>4. ASSUME NEW h \in Gateways PROVE QueueInv(h)'
  <2>1. CASE h # g
    BY <1>1, <1>2, <2>1 DEF GatewayInv, QueueInv
  <2>2. QED
    BY <2>1
<1>5. ~reused' => (act'.kind = "purge" => Wiped') /\ \A h \in Gateways : PurgeInv(h)'
  BY Zenon, <1>1, <1>3 DEF GatewayInv
<1>6. Clean' => Known(hub)' /\ \A h \in Gateways : StreamInv(h)'
  <2>1. Known(hub) => Known(hub)'
    BY Zenon, <1>1 DEF Known
  <2>2. QED
    BY <1>1, <1>3, <2>1 DEF GatewayInv
<1>7. ASSUME Clean', act'.acked PROVE \E h \in Gateways : Keeping(h)'
  <2>1. CASE act.acked
    <3>1. PICK h \in Gateways : Keeping(h)
      BY <1>1, <1>7, <2>1 DEF GatewayInv, AckedInv
    <3>2. QED
      BY <3>1, <1>3, <1>7, <2>1
  <2>2. QED
    BY <1>7, <2>1
<1>8. Clean' => \A h \in Gateways : AckInv(h)'
  BY <1>1, <1>3 DEF GatewayInv
<1>9. QED
  BY <1>4, <1>5, <1>6, <1>7, <1>8 DEF GatewayInv, AckedInv

\* What a step of g's stream has to keep of g.
Kept(g) ==
    /\ QueueInv(g)'
    /\ ~reused => PurgeInv(g)'
    /\ Clean' => StreamInv(g)' /\ AckInv(g)'
    /\ Clean' /\ act.acked /\ Keeping(g) => Keeping(g)'
    /\ Clean' /\ ~act.acked /\ act'.acked => Keeping(g)'

\* A connection's life but its snapshot: joining, reading it, dropping, leaving.
LEMMA ConnectionKept ==
  ASSUME Control, Control', GatewayInv, NEW g \in Gateways, Join(g) \/ ReadSnapshot(g) \/ Drop(g) \/ Leave(g)
  PROVE  Kept(g)
<1>a. Stream(g)
  BY DEF Stream
<1>1. /\ UNCHANGED <<want, version, gone, hub, last, reused>>
      /\ act'.at = act.at /\ act'.kind = act.kind /\ act'.m = act.m
      /\ Wiped' <=> Wiped
      /\ Clean' => Clean
  BY <1>a, StreamEnv
<1>4. /\ QueueInv(g)
      /\ ~reused => PurgeInv(g)
      /\ Clean => StreamInv(g) /\ AckInv(g) /\ Known(hub)
  BY DEF GatewayInv
<1>5. TypeOK /\ act.to \subseteq Gateways
  BY Zenon DEF Control, TypeOK, Calls
<1>6. CASE Join(g) \/ ReadSnapshot(g) \/ Drop(g)
  <2>1. /\ down'[g] = down[g] /\ up'[g] = up[g] /\ held'[g] = held[g] /\ act' = act /\ ahead' = ahead
        /\ \/ conn[g] = "down" /\ conn'[g] = "joined"
           \/ conn[g] = "joined" /\ conn'[g] = "ready" /\ snap'[g] = hub
           \/ conn[g] = "up" /\ conn'[g] = "closing"
    BY Zenon, <1>6, <1>5 DEF Join, ReadSnapshot, Drop, TypeOK
  <2>2. /\ PurgeInv(g) => PurgeInv(g)'
        /\ ChainInv(g) => ChainInv(g)'
        /\ Holding(g)' <=> Holding(g)
        /\ AckInv(g) => AckInv(g)'
    BY Zenon, <1>1, <1>5, <2>1, SameLine
  <2>3. QueueInv(g)'
    BY Zenon, <1>4, <2>1 DEF QueueInv
  <2>4. Clean' => StreamInv(g)'
    <3>1. Clean' => Known(hub)'
      BY Zenon, <1>1, <1>4 DEF Known
    <3>2. QED
      BY <1>1, <1>4, <2>1, <2>2, <3>1 DEF StreamInv, Known
  <2>5. act.acked /\ Keeping(g) => Keeping(g)'
    BY Zenon, <1>1, <2>1, <2>2 DEF Keeping, Control, ActInv
  <2>6. QED
    BY Zenon, <1>1, <1>4, <2>1, <2>2, <2>3, <2>4, <2>5 DEF Kept
<1>7. CASE Leave(g)
  <2>1. conn'[g] = "down" /\ down'[g] = <<>> /\ up'[g] = <<>> /\ held'[g] = held[g] /\ ahead' = ahead
    BY Zenon, <1>7, <1>5 DEF Leave, TypeOK
  <2>2. g \notin act'.to /\ (act'.acked => act.acked)
    <3>1. PICK counted \in BOOLEAN : act' = IF g \in act.to THEN Sent(g, counted) ELSE act
      BY Zenon, <1>7 DEF Leave
    <3>2. QED
      BY Zenon, <3>1, <1>5, SentFields, Numbers
  <2>3. Len(down'[g]) = 0 /\ Len(up'[g]) = 0
    BY Zenon, <2>1
  <2>4. QueueInv(g)'
    BY Zenon, <2>1, <2>2 DEF QueueInv
  <2>5. PurgeInv(g)' /\ StreamInv(g)' /\ AckInv(g)'
    BY <2>1, <2>3 DEF PurgeInv, StreamInv, AckInv
  <2>6. Keeping(g) => Keeping(g)'
    BY <1>1, <2>1, <2>3 DEF Keeping, Holding
  <2>7. QED
    BY Zenon, <2>2, <2>4, <2>5, <2>6 DEF Kept
<1>8. QED
  BY <1>6, <1>7

\* onAck: the acknowledgment that satisfies a Send is from a gateway that holds
\* its map.
LEMMA AckKept ==
  ASSUME Control, Control', GatewayInv, NEW g \in Gateways, TakeAck(g)
  PROVE  Kept(g)
<1>a. Stream(g)
  BY DEF Stream
<1>1. /\ UNCHANGED <<want, version, gone, hub, last, reused>>
      /\ act'.at = act.at /\ act'.kind = act.kind /\ act'.m = act.m
      /\ Wiped' <=> Wiped
      /\ Clean' => Clean
  BY <1>a, StreamEnv
<1>4. /\ QueueInv(g)
      /\ ~reused => PurgeInv(g)
      /\ Clean => StreamInv(g) /\ AckInv(g) /\ Known(hub)
  BY DEF GatewayInv
<1>5. TypeOK /\ act.to \subseteq Gateways /\ up[g] \in Seq(Nat) /\ act \in Calls
  BY Zenon, Numbers DEF Control, TypeOK, Calls
<1>6. /\ down'[g] = down[g] /\ held'[g] = held[g] /\ ahead' = ahead /\ conn' = conn /\ snap' = snap
      /\ conn[g] \in {"up", "closing"} /\ up[g] # <<>> /\ up'[g] = Tail(up[g])
  BY <1>5 DEF TakeAck, TypeOK
<1>7. act'.to = act.to
  BY Zenon, <1>5, ActFields DEF TakeAck
<1>8. /\ PurgeInv(g) => PurgeInv(g)'
      /\ ChainInv(g) => ChainInv(g)'
      /\ Holding(g)' <=> Holding(g)
      /\ Tip(g)' = Tip(g)
  BY Zenon, <1>1, <1>5, <1>6, SameLine
<1>9. QueueInv(g)'
  BY Zenon, <1>4, <1>6, <1>7 DEF QueueInv
<1>10. Clean' => StreamInv(g)'
  <2>1. Pending(g)' <=> Pending(g)
    BY <1>1, <1>7 DEF Pending
  <2>2. QED
    BY <1>1, <1>4, <1>6, <1>8, <2>1 DEF StreamInv
<1>11. AckInv(g) => AckInv(g)'
  <2>1. /\ Len(up[g]) \in Nat /\ Len(Tail(up[g])) = Len(up[g]) - 1
        /\ \A k \in 1..(Len(up[g]) - 1) : Tail(up[g])[k] = up[g][k + 1]
    BY <1>5, <1>6, AckQueue
  <2>3. \A k \in 1..Len(up'[g]) : k + 1 \in 1..Len(up[g]) /\ up'[g][k] = up[g][k + 1]
    BY <1>6, <2>1
  <2>4. ASSUME AckInv(g), NEW k \in 1..Len(up'[g])
        PROVE  Heard(up[g][k + 1]) /\ (Current(up[g][k + 1]) => Holding(g))
    BY <2>3, <2>4 DEF AckInv
  <2>5. ASSUME AckInv(g), NEW k \in 1..Len(up'[g])
        PROVE  Heard(up[g][k])' /\ (Current(up[g][k])' => Holding(g)')
    BY Zenon, <2>3, <2>4, <2>5, <1>8, <1>1 DEF Heard, Current
  <2>6. QED
    BY Zenon, <2>5 DEF AckInv
<1>12. ASSUME Clean', ~act.acked, act'.acked PROVE Keeping(g)'
  <2>1. act.at \in {"collect", "send", "wait"} /\ act.kind # "purge" /\ Head(up[g]) >= act.m.v
    BY Zenon, <1>a, <1>12, StreamKeeps DEF Control
  <2>2. Pushing
    BY <2>1 DEF Control, ActInv
  <2>3. act.m = last /\ last # NoMap /\ ~Wiped
    BY <2>2 DEF Control, ActInv, VersionInv, Wiped
  <2>4. Head(up[g]) = up[g][1] /\ Len(up[g]) >= 1 /\ Len(up[g]) \in Nat
    BY <1>5, <1>6, AckQueue
  <2>5. Holding(g)
    BY <1>1, <1>4, <1>12, <2>1, <2>3, <2>4 DEF AckInv, Current
  <2>6. QED
    BY <2>5, <1>6, <1>8 DEF Keeping
<1>13. Keeping(g) => Keeping(g)'
  BY <1>1, <1>6, <1>8 DEF Keeping
<1>14. QED
  BY <1>1, <1>4, <1>8, <1>9, <1>10, <1>11, <1>12, <1>13 DEF Kept

\* A connection that was shut before its pumps ran has nothing to keep.
LEMMA ShutKept ==
  ASSUME TypeOK, NEW g \in Gateways, Shut(g), held'[g] = held[g], UNCHANGED last
  PROVE  /\ conn'[g] = "shut" /\ down'[g] = <<>>
         /\ PurgeInv(g)' /\ StreamInv(g)' /\ (Keeping(g) => Keeping(g)')
<1>1. conn'[g] = "shut" /\ down'[g] = <<>> /\ Len(down'[g]) = 0
  BY DEF Shut, TypeOK
<1>2. QED
  BY <1>1 DEF PurgeInv, StreamInv, Keeping, Holding

\* ServeGateway: the snapshot is the first frame of a stream that comes up.
LEMMA SnapshotKept ==
  ASSUME Control, Control', GatewayInv, NEW g \in Gateways, QueueSnapshot(g)
  PROVE  Kept(g)
<1>a. Stream(g)
  BY DEF Stream
<1>1. /\ UNCHANGED <<want, version, gone, hub, last, reused>>
      /\ Wiped' <=> Wiped
      /\ Clean' => Clean
  BY <1>a, StreamEnv
<1>2. /\ QueueInv(g)
      /\ ~reused => PurgeInv(g)
      /\ Clean => StreamInv(g) /\ AckInv(g) /\ Known(hub)
  BY DEF GatewayInv
<1>3. TypeOK /\ snap[g] \in Maps /\ down[g] \in Seq(Frames)
  BY Numbers DEF Control
<1>4. conn[g] = "ready" /\ act' = act /\ up' = up /\ held' = held /\ ahead' = ahead /\ up[g] = <<>> /\ Len(up'[g]) = 0
  BY <1>2 DEF QueueSnapshot, QueueInv
<1>5. AckInv(g)'
  BY <1>4 DEF AckInv
<1>6. CASE Len(down[g]) < OutBuffer
  <2>. DEFINE f == Snapshot(snap[g])
  <2>1. f \in Frames /\ f.t = "snapshot" /\ f.m = snap[g]
    BY <1>3, FrameFields
  <2>2. down'[g] = Append(down[g], f) /\ conn'[g] = "up"
    BY <1>3, <1>6 DEF QueueSnapshot, TypeOK
  <2>3. PICK x \in Frames : x = f
    BY <2>1
  <2>. HIDE DEF f
  <2>4. /\ Tip(g)' = x.m
        /\ PurgeInv(g) /\ (x.t = "purge" => Wiped) => PurgeInv(g)'
        /\ Holding(g) /\ x.m.c = last.c => Holding(g)'
    BY <1>1, <1>3, <1>4, <2>2, <2>3, LineGrows
  <2>5. QueueInv(g)'
    BY Zenon, <1>2, <1>4, <2>2 DEF QueueInv
  <2>6. ASSUME Clean' PROVE StreamInv(g)'
    <3>1. down[g] = <<>> /\ Known(x.m) /\ (~Pending(g) => x.m.c = hub.c)
      <4>1. Clean /\ ~ahead /\ StreamInv(g)
        BY <1>1, <1>2, <2>6 DEF Clean
      <4>2. down[g] = <<>> /\ Known(snap[g]) /\ (~Pending(g) => snap[g].c = hub.c)
        BY Zenon, <1>2, <1>4, <4>1 DEF QueueInv, StreamInv
      <4>3. QED
        BY Zenon, <2>1, <2>3, <4>2
    <3>2. Len(down'[g]) = 1 /\ down'[g][1] = x /\ down'[g] # <<>>
      BY <1>3, <2>2, <2>3, <3>1, FrameQueue
    <3>3. First(g)' = 1 /\ Line(g, 1)' = x.m
      BY <3>2, <2>1, <2>3 DEF First, Fresh, Line
    <3>4. Known(Line(g, 1))'
      BY Zenon, <3>1, <3>3, <1>1 DEF Known
    <3>5. ChainInv(g)'
      BY <3>2, <3>3, <3>4, <2>1, <2>3 DEF ChainInv
    <3>6. Pending(g)' <=> Pending(g)
      BY <1>4 DEF Pending
    <3>7. QED
      BY SMTT(30), <1>1, <2>2, <2>4, <3>1, <3>5, <3>6 DEF StreamInv
  <2>7. Keeping(g) => Keeping(g)'
    BY <1>1, <1>4, <2>1, <2>2, <2>3, <2>4 DEF Keeping
  <2>8. x.t # "purge"
    BY <2>1, <2>3
  <2>9. QED
    BY <1>1, <1>2, <1>4, <1>5, <2>4, <2>5, <2>6, <2>7, <2>8 DEF Kept
<1>7. CASE ~(Len(down[g]) < OutBuffer)
  <2>1. Shut(g)
    BY <1>7 DEF QueueSnapshot
  <2>2. /\ conn'[g] = "shut" /\ down'[g] = <<>>
        /\ PurgeInv(g)' /\ StreamInv(g)' /\ (Keeping(g) => Keeping(g)')
    BY Zenon, <2>1, <1>1, <1>3, <1>4, ShutKept
  <2>3. QueueInv(g)'
    BY Zenon, <1>4, <2>2 DEF QueueInv
  <2>4. QED
    BY Zenon, <1>4, <1>5, <2>2, <2>3 DEF Kept
<1>8. QED
  BY <1>6, <1>7

\* gatewayConn.send: what is queued is what the hub holds.
LEMMA SendKept ==
  ASSUME Control, Control', GatewayInv, NEW g \in Gateways, SendTo(g)
  PROVE  Kept(g)
<1>. USE IdleFields
<1>a. Stream(g)
  BY DEF Stream
<1>1. /\ UNCHANGED <<want, version, gone, hub, last, reused>>
      /\ act'.at = act.at /\ act'.kind = act.kind /\ act'.m = act.m
      /\ Wiped' <=> Wiped
      /\ Clean' => Clean
  BY <1>a, StreamEnv
<1>2. /\ QueueInv(g)
      /\ ~reused => PurgeInv(g) /\ (act.kind = "purge" => Wiped)
      /\ Clean => StreamInv(g) /\ AckInv(g) /\ Known(hub)
  BY DEF GatewayInv
<1>3. TypeOK /\ act \in Calls /\ act.m \in Maps /\ hub \in Maps /\ down[g] \in Seq(Frames)
  BY Numbers DEF Control
<1>4. PICK q \in BOOLEAN : act' = Sent(g, q)
  BY SendToSends
<1>5. g \in act.to /\ act.at = "send" /\ conn[g] # "down" /\ up' = up /\ held' = held /\ snap' = snap
  BY <1>2 DEF SendTo, QueueInv
<1>6. g \notin act'.to /\ act'.acked = act.acked /\ ~Pending(g)'
  BY <1>1, <1>3, <1>4, <1>5, SentFields DEF Pending
<1>7. PICK f \in Frames : f = IF act.kind = "purge" THEN Purge ELSE Put(act.m)
  BY <1>3, FrameFields
<1>8. /\ f.t = "purge" <=> act.kind = "purge"
      /\ f.t \in {"purge", "put"} /\ f.m = hub
      /\ act.kind # "purge" => Pushing /\ f.m = last /\ f.m = act.m
  <2>1. Pushing \/ act.kind = "purge"
    BY <1>5 DEF Control, ActInv
  <2>2. CASE act.kind = "purge"
    BY <2>2, <1>3, <1>7, FrameFields DEF Control, ActInv
  <2>3. CASE act.kind # "purge"
    BY <2>1, <2>3, <1>3, <1>7, FrameFields DEF Control, ActInv
  <2>4. QED
    BY <2>2, <2>3
<1>9. CASE conn'[g] = conn[g] /\ down'[g] = Append(down[g], f) /\ (conn[g] \in {"joined", "ready"} => ahead') /\ conn[g] # "shut"
  <2>1. /\ Tip(g)' = f.m
        /\ PurgeInv(g) /\ (f.t = "purge" => Wiped) => PurgeInv(g)'
        /\ Holding(g) /\ f.m.c = last.c => Holding(g)'
        /\ ChainInv(g) /\ Known(f.m) /\ (f.t = "snapshot" => down[g] = <<>>)
              /\ (f.t = "put" => \A m \in Maps : Known(m) => Yields(m, f.m)) => ChainInv(g)'
    BY Zenon, <1>1, <1>3, <1>5, <1>9, LineGrows
  <2>2. QueueInv(g)'
    BY <1>2, <1>6, <1>5, <1>9 DEF QueueInv
  <2>3. ASSUME Clean' PROVE StreamInv(g)'
    <3>1. conn[g] \in {"up", "closing"}
      BY <1>5, <1>9, <2>3 DEF Clean, Control, TypeOK
    <3>2. f.t = "put" => \A m \in Maps : Known(m) => Yields(m, f.m)
      BY <1>8, LastYields
    <3>3. ChainInv(g)'
      BY Zenon, <1>1, <1>2, <1>8, <2>1, <2>3, <3>1, <3>2 DEF StreamInv
    <3>4. QED
      BY Zenon, <1>1, <1>8, <1>9, <2>1, <3>1, <3>3 DEF StreamInv
  <2>4. ASSUME Clean' PROVE AckInv(g)'
    <3>1. AckInv(g) /\ (~Wiped => act.kind # "purge")
      BY <1>1, <1>2, <2>4 DEF Clean
    <3>2. Holding(g) /\ ~Wiped => Holding(g)'
      BY Zenon, <1>8, <2>1, <3>1
    <3>3. QED
      BY SMTT(30), <1>1, <1>5, <3>1, <3>2 DEF AckInv, Heard, Current
  <2>5. act.acked /\ Keeping(g) => Keeping(g)'
    <3>1. act.acked => act.kind # "purge"
      BY Zenon DEF Control, ActInv, Pushing
    <3>2. QED
      BY Zenon, <1>1, <1>5, <1>8, <1>9, <2>1, <3>1 DEF Keeping
  <2>6. ~reused => PurgeInv(g)'
    BY Zenon, <1>2, <1>8, <2>1
  <2>7. QED
    BY Zenon, <1>6, <2>2, <2>3, <2>4, <2>5, <2>6 DEF Kept
<1>10. CASE Shut(g) /\ ahead' /\ conn[g] \in {"joined", "ready"}
  <2>1. conn'[g] = "shut" /\ down'[g] = <<>> /\ PurgeInv(g)'
    BY <1>1, <1>3, <1>5, <1>10, ShutKept
  <2>2. QueueInv(g)'
    BY <1>2, <1>6, <1>5, <1>10, <2>1 DEF QueueInv
  <2>3. ~Clean'
    BY <1>10 DEF Clean
  <2>4. QED
    BY <2>1, <2>2, <2>3 DEF Kept
<1>11. CASE /\ down'[g] = down[g]
            /\ \/ conn[g] \in {"up", "closing"} /\ conn'[g] = "closing"
               \/ conn[g] = "shut" /\ conn'[g] = "shut"
  <2>1. /\ PurgeInv(g) => PurgeInv(g)'
        /\ ChainInv(g) => ChainInv(g)'
        /\ Holding(g)' <=> Holding(g)
        /\ AckInv(g) => AckInv(g)'
    BY Zenon, <1>1, <1>3, <1>5, <1>11, SameLine
  <2>2. QueueInv(g)'
    BY Zenon, <1>2, <1>6, <1>5, <1>11 DEF QueueInv
  <2>3. Clean' => StreamInv(g)'
    BY Zenon, <1>1, <1>2, <1>11, <2>1 DEF StreamInv
  <2>4. Keeping(g) => Keeping(g)'
    BY Zenon, <1>11, <2>1 DEF Keeping
  <2>5. QED
    BY Zenon, <1>1, <1>2, <1>6, <2>1, <2>2, <2>3, <2>4 DEF Kept
<1>12. QED
  <2>1. CASE conn[g] # "shut" /\ Queue(g, f) /\ ahead' = (ahead \/ conn[g] \in {"joined", "ready"})
    <3>1. CASE Len(down[g]) < OutBuffer
      BY Zenon, <2>1, <3>1, <1>3, <1>9 DEF Queue, TypeOK
    <3>2. CASE ~(Len(down[g]) < OutBuffer) /\ conn[g] \in {"joined", "ready"}
      BY Zenon, <2>1, <3>2, <1>10 DEF Queue
    <3>3. CASE ~(Len(down[g]) < OutBuffer) /\ conn[g] \notin {"joined", "ready"}
      <4>1. conn[g] \in {"up", "closing"}
        BY <2>1, <3>3, <1>3, <1>5 DEF TypeOK
      <4>2. QED
        BY <2>1, <3>3, <4>1, <1>3, <1>11 DEF Queue, TypeOK
    <3>4. QED
      BY <3>1, <3>2, <3>3
  <2>2. CASE conn[g] \in {"closing", "shut"} /\ UNCHANGED <<conn, down>>
    BY <2>2, <1>11
  <2>3. QED
    BY Zenon, <1>7, <2>1, <2>2 DEF SendTo

\* syncClient.readLoop: what a gateway acknowledges is what it then holds, and
\* no frame behind it changes that unless another map was sent since.
LEMMA ReceiveKept ==
  ASSUME Control, Control', GatewayInv, NEW g \in Gateways, Receive(g)
  PROVE  Kept(g)
<1>a. Stream(g)
  BY DEF Stream
<1>1. /\ UNCHANGED <<want, version, gone, hub, last, reused>>
      /\ Wiped' <=> Wiped
      /\ Clean' => Clean
  BY <1>a, StreamEnv
<1>2. /\ QueueInv(g)
      /\ ~reused => PurgeInv(g)
      /\ Clean => StreamInv(g) /\ AckInv(g)
  BY DEF GatewayInv
<1>3. TypeOK /\ down[g] \in Seq(Frames) /\ up[g] \in Seq(Nat) /\ held'[g] \in Maps /\ last \in Maps /\ version \in Nat
  BY Zenon, Numbers DEF Control, TypeOK
<1>4. /\ act' = act /\ conn' = conn /\ snap' = snap /\ ahead' = ahead
      /\ conn[g] \in {"up", "closing"} /\ down[g] # <<>> /\ down'[g] = Tail(down[g])
  BY <1>3 DEF Receive, TypeOK
<1>5. Head(down[g]) = down[g][1] /\ down[g][1] \in Frames
  BY Zenon, <1>3, <1>4, FrameQueue
<1>6. \/ held'[g] = down[g][1].m
      \/ down[g][1].t = "put" /\ held'[g] = held[g] /\ held[g].v >= down[g][1].m.v
  BY <1>3, <1>5 DEF Receive, Apply, TypeOK
<1>7. up'[g] \in {up[g], Append(up[g], held'[g].v)}
  BY <1>3 DEF Receive, TypeOK
<1>8. /\ PurgeInv(g) => PurgeInv(g)'
      /\ Holding(g) => Holding(g)'
      /\ ChainInv(g) => ChainInv(g)' /\ First(g)' = 0 /\ Tip(g)'.c = Tip(g).c
  BY Zenon, <1>1, <1>3, <1>4, <1>6, LineMoves
<1>9. QueueInv(g)'
  BY Zenon, <1>2, <1>4 DEF QueueInv
<1>10. Clean' => StreamInv(g)'
  <2>1. Pending(g)' <=> Pending(g)
    BY <1>4 DEF Pending
  <2>2. QED
    BY Zenon, <1>1, <1>2, <1>4, <1>8, <2>1 DEF StreamInv
<1>11. ASSUME Clean' PROVE Heard(held'[g].v) /\ (Current(held'[g].v) => Holding(g)')
  <2>1. ChainInv(g)' /\ First(g)' = 0 /\ PurgeInv(g)'
    BY Zenon, <1>1, <1>2, <1>4, <1>8, <1>11 DEF StreamInv, Clean
  <2>2. PICK n \in Nat : n = Len(down'[g])
    BY Zenon, Numbers, <1>3, <1>4, FrameQueue
  <2>3. \A i \in 0..n : Known(Line(g, i))'
    BY <2>1, <2>2 DEF ChainInv
  <2>4. Line(g, 0)' = held'[g] /\ \A i \in 1..n : Line(g, i)' = down'[g][i].m
    BY DEF Line
  <2>5. Known(held'[g])
    <3>1. Known(Line(g, 0))'
      BY <2>3
    <3>2. QED
      BY <3>1, <2>4, <1>1 DEF Known
  <2>6. Heard(held'[g].v)
    BY <2>5, <1>3, MapFields DEF Known, Heard, Maps
  <2>7. ASSUME Current(held'[g].v) PROVE Holding(g)'
    <3>1. held'[g].v = last.v /\ held'[g].c = last.c /\ ~Wiped /\ last # NoMap
      BY <2>5, <2>7, <1>3 DEF Known, Current, Maps
    <3>2. ASSUME NEW i \in 1..n PROVE down'[g][i].m.c = last.c
      <4>1. down'[g][i] \in Frames /\ down'[g][i].m \in Maps
        BY Zenon, <1>3, <1>4, <2>2, FrameQueue
      <4>2. down'[g][i].t # "purge"
        BY Zenon, <2>1, <2>2, <3>1, <1>1 DEF PurgeInv
      <4>3. down'[g][i].t # "snapshot"
        <5>1. CASE i = 1
          <6>1. down'[g] \in Seq(Frames) /\ Len(down'[g]) # 0
            BY <1>3, <1>4, <2>2, <3>2, FrameQueue
          <6>2. down'[g] # <<>>
            BY <6>1, FrameQueue
          <6>3. ~Fresh(g)'
            BY <2>1 DEF First
          <6>4. QED
            BY <5>1, <6>2, <6>3 DEF Fresh
        <5>2. CASE i # 1
          <6>1. i \in 2..n
            BY <5>2
          <6>2. QED
            BY <6>1, <2>1, <2>2 DEF ChainInv
        <5>3. QED
          BY <5>1, <5>2
      <4>4. down'[g][i].t = "put"
        BY <4>1, <4>2, <4>3 DEF Frames
      <4>5. Yields(Line(g, 0), Line(g, i))'
        BY <4>4, <2>1, <2>2 DEF ChainInv
      <4>6. Known(Line(g, i))'
        BY <2>3
      <4>7. Known(down'[g][i].m)
        BY <4>6, <2>4, <1>1 DEF Known
      <4>8. held'[g].v >= down'[g][i].m.v => held'[g].c = down'[g][i].m.c
        BY <4>5, <2>4 DEF Yields
      <4>9. QED
        BY <4>1, <4>7, <4>8, <3>1, <1>3 DEF Known, Maps
    <3>3. QED
      BY <1>1, <2>2, <3>1, <3>2 DEF Holding
  <2>8. QED
    BY <2>6, <2>7
<1>12. ASSUME Clean' PROVE AckInv(g)'
  <2>1. AckInv(g)
    BY <1>1, <1>2, <1>12
  <2>2. \A v \in Nat : (Heard(v)' <=> Heard(v)) /\ (Current(v)' <=> Current(v))
    BY <1>1 DEF Heard, Current
  <2>3. PICK k0 \in Nat : k0 = Len(up[g])
    BY Zenon, <1>3, AckQueue
  <2>4. \A k \in 1..k0 : up[g][k] \in Nat /\ Heard(up[g][k]) /\ (Current(up[g][k]) => Holding(g)')
    BY Zenon, <1>3, <1>8, <2>1, <2>3, AckQueue DEF AckInv
  <2>5. held'[g].v \in Nat
    BY Zenon, <1>3 DEF Maps
  <2>6. ASSUME NEW k \in 1..Len(up'[g])
        PROVE  up'[g][k] \in Nat /\ Heard(up'[g][k]) /\ (Current(up'[g][k]) => Holding(g)')
    <3>1. CASE up'[g] = up[g]
      BY <2>3, <2>4, <2>6, <3>1
    <3>2. CASE up'[g] = Append(up[g], held'[g].v)
      <4>1. /\ Len(up'[g]) = k0 + 1 /\ up'[g][k0 + 1] = held'[g].v
            /\ \A i \in 1..k0 : up'[g][i] = up[g][i]
        BY <1>3, <2>3, <2>5, <3>2, AckQueue
      <4>2. CASE k = k0 + 1
        BY <1>11, <1>12, <2>5, <4>1, <4>2
      <4>3. CASE k # k0 + 1
        <5>1. k \in 1..k0
          BY <4>1, <4>3, <2>6
        <5>2. QED
          BY <5>1, <4>1, <2>4
      <4>4. QED
        BY <4>2, <4>3
    <3>3. QED
      BY <1>7, <3>1, <3>2
  <2>7. QED
    BY <2>2, <2>6 DEF AckInv, Heard, Current
<1>13. Keeping(g) => Keeping(g)'
  BY Zenon, <1>1, <1>4, <1>8 DEF Keeping
<1>14. QED
  BY Zenon, <1>1, <1>2, <1>4, <1>8, <1>9, <1>10, <1>12, <1>13 DEF Kept

\* GatewayInv is inductive, given the controller's part.
LEMMA GatewayStep ==
  ASSUME Control, Control', GatewayInv, [Next]_vars
  PROVE  GatewayInv'
<1>1. CASE UNCHANGED vars
  <2>1. /\ UNCHANGED <<want, version, gone, hub, last, reused, act, ahead>>
        /\ UNCHANGED <<conn, snap, down, up, held>>
    BY <1>1 DEF vars
  <2>2. Wiped' <=> Wiped
    BY <2>1 DEF Wiped, Pushing
  <2>3. ASSUME NEW h \in Gateways
        PROVE  /\ PurgeInv(h) => PurgeInv(h)'
               /\ StreamInv(h) => StreamInv(h)'
               /\ AckInv(h) => AckInv(h)'
               /\ Keeping(h) => Keeping(h)'
               /\ QueueInv(h) => QueueInv(h)'
    <3>1. Pending(h)' <=> Pending(h)
      BY <2>1 DEF Pending
    <3>2. /\ PurgeInv(h) => PurgeInv(h)'
          /\ StreamInv(h) => StreamInv(h)'
          /\ AckInv(h) => AckInv(h)'
          /\ Holding(h) => Holding(h)'
      BY Zenon, <2>1, <2>2, <3>1, Untouched DEF Control
    <3>3. QED
      BY Zenon, <2>1, <3>2 DEF Keeping, QueueInv
  <2>4. (Clean' <=> Clean) /\ (Known(hub) => Known(hub)') /\ (AckedInv => AckedInv')
    BY Zenon, <2>1, <2>3 DEF Clean, Known, AckedInv
  <2>5. QED
    BY <2>1, <2>2, <2>3, <2>4 DEF GatewayInv
<1>2. ASSUME NEW g \in Gateways, Stream(g) PROVE GatewayInv'
  <2>1. Kept(g)
    BY <1>2, ConnectionKept, AckKept, SnapshotKept, SendKept, ReceiveKept DEF Stream
  <2>2. QED
    BY <1>2, <2>1, StreamRest DEF Kept
<1>3. QED
  BY <1>1, <1>2, ActKeeps, SendingKeeps, RestartKeeps DEF Next

\* Send and ServeGateway: a Send that was acknowledged means a gateway holds its
\* boundary, and a gateway with nothing under way holds the one desired state
\* has, for any number of gateways, queue lengths, pushes, faults and restarts.
THEOREM GatewaysKept == Spec => []GatewaysFollow
<1>1. Control /\ GatewayInv => GatewaysFollow
  <2>. SUFFICES ASSUME Control, GatewayInv PROVE GatewaysFollow
    OBVIOUS
  <2>. USE IdleFields
  <2>1. ASSUME Clean, act.at = "held" PROVE \E g \in Gateways : held[g].c = act.m.c
    <3>1. act.acked /\ Pushing /\ act.m = last
      BY <2>1 DEF Control, ActInv
    <3>2. PICK g \in Gateways : Keeping(g)
      BY <2>1, <3>1 DEF GatewayInv, AckedInv
    <3>3. QED
      BY <3>1, <3>2 DEF Keeping, Holding
  <2>2. ASSUME NEW g \in Gateways, Clean, Quiet, Whole(g) PROVE held[g].c \in Awaited \cup {want}
    <3>1. ~Pending(g) /\ hub.c \in Awaited \cup {want}
      BY <2>2 DEF Pending, Quiet, Control, ActInv
    <3>2. Tip(g).c = hub.c
      BY <2>2, <3>1 DEF GatewayInv, StreamInv, Whole
    <3>3. Tip(g) = held[g]
      BY <2>2 DEF Whole, Tip, Line
    <3>4. QED
      BY <3>1, <3>2, <3>3
  <2>3. TypeOK
    BY DEF Control
  <2>4. QED
    BY <2>1, <2>2, <2>3 DEF GatewaysFollow, SendMeansHeld, GatewayFollows
<1>2. Init => Control /\ GatewayInv
  BY ControlInit, GatewayInit DEF Control
<1>3. Control /\ Control' /\ GatewayInv /\ [Next]_vars => GatewayInv'
  BY GatewayStep
<1>4. QED
  BY <1>1, <1>2, <1>3, Controls, PTL DEF Spec
=============================================================================
