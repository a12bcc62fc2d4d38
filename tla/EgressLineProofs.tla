-------------------------- MODULE EgressLineProofs -------------------------
(***************************************************************************)
(* The gateways' half of EgressSync.  What a gateway holds and the frames  *)
(* under way to it are one line of maps: each was sent before the last one *)
(* or is it (ChainInv), a stream that is up ends its line with what the    *)
(* hub holds (StreamInv), and an acknowledgment of the last version comes  *)
(* from a gateway that will hold its content whatever it receives          *)
(* (AckInv).  GatewayInv is inductive given Control, and gives             *)
(* GatewaysFollow.                                                         *)
(***************************************************************************)
EXTENDS EgressSyncProofs

\* Whether the act under way has still to reach a gateway.
Pending(g) == act.at = "collect" \/ (act.at = "send" /\ g \in act.to)

\* A map this process sent, or one from before it started.
Known(m) == \/ m.v < last.v
            \/ m.v = last.v /\ m.c = last.c
            \/ last = NoMap /\ m.v <= version

\* A gateway that holds m and skips n, as Apply does, has n's content anyway.
Yields(m, n) == m.v >= n.v => m.c = n.c

\* What a gateway holds, then what it will receive, as one line; a snapshot
\* that has yet to arrive starts it.
Fresh(g) == down[g] # <<>> /\ down[g][1].t = "snapshot"
Line(g, i) == IF i = 0 THEN held[g] ELSE down[g][i].m
First(g) == IF Fresh(g) THEN 1 ELSE 0
Tip(g) == Line(g, Len(down[g]))

\* Nothing is queued where no pump runs.
QueueInv(g) ==
    /\ conn[g] \in {"down", "joined", "ready", "shut"} => up[g] = <<>>
    /\ conn[g] \in {"down", "shut"} => down[g] = <<>>
    /\ ~ahead /\ conn[g] \in {"joined", "ready"} => down[g] = <<>>
    /\ g \in act.to => conn[g] # "down"

\* Every map of the line was sent before or is the last one, and one that Apply
\* skips is the one it has.
ChainInv(g) ==
    /\ \A i \in 2..Len(down[g]) : down[g][i].t # "snapshot"
    /\ \A i \in First(g)..Len(down[g]) : Known(Line(g, i))
    /\ \A j \in 1..Len(down[g]) : down[g][j].t = "put" =>
         \A i \in First(g)..(j - 1) : Yields(Line(g, i), Line(g, j))

\* The line of a stream that is up ends with what the hub holds.
StreamInv(g) ==
    /\ conn[g] = "ready" => Known(snap[g]) /\ (~Pending(g) => snap[g].c = hub.c)
    /\ conn[g] \in {"up", "closing"} => ChainInv(g)
    /\ conn[g] = "up" /\ ~Pending(g) => Tip(g).c = hub.c

\* A create was purged and nothing pushed since, or the sandbox is deleted.
Wiped == gone \/ (~Pushing /\ want = NoContent /\ last.v = version + 1)

\* A purge is under way only then.
PurgeInv(g) == \A i \in 1..Len(down[g]) : down[g][i].t = "purge" => Wiped

\* A gateway that holds the last content, and will whatever it receives.
Holding(g) == held[g].c = last.c /\ \A i \in 1..Len(down[g]) : down[g][i].m.c = last.c

\* An acknowledgment at the version of the last map is from such a gateway.
Heard(n) == n <= last.v \/ (last = NoMap /\ n <= version)
Current(n) == last # NoMap /\ ~Wiped /\ n >= last.v
AckInv(g) == \A k \in 1..Len(up[g]) : Heard(up[g][k]) /\ (Current(up[g][k]) => Holding(g))

\* While a Send that was acknowledged is under way there is one, and it stays one.
Keeping(g) == Holding(g) /\ (conn[g] = "ready" => snap[g].c = last.c)
AckedInv == act.acked => \E g \in Gateways : Keeping(g)

GatewayInv ==
    /\ \A g \in Gateways : QueueInv(g)
    /\ ~reused => (act.kind = "purge" => Wiped) /\ \A g \in Gateways : PurgeInv(g)
    /\ Clean => Known(hub) /\ \A g \in Gateways : StreamInv(g)
    /\ Clean => AckedInv /\ \A g \in Gateways : AckInv(g)

-----------------------------------------------------------------------------

\* The numbers the arguments are about.
LEMMA Numbers ==
  ASSUME TypeOK
  PROVE  /\ version \in Nat /\ last \in Maps /\ hub \in Maps /\ act.m \in Maps /\ act \in Calls
         /\ pushes \in Nat /\ want \in Nat
         /\ \A m \in Maps : m.v \in Nat /\ m.c \in Nat
         /\ \A g \in Gateways : held[g] \in Maps /\ snap[g] \in Maps
         /\ \A g \in Gateways : down[g] \in Seq(Frames) /\ up[g] \in Seq(Nat)
         /\ \A g \in Gateways : Len(down[g]) \in Nat /\ Len(up[g]) \in Nat
  BY Bounds, FrameQueue, AckQueue DEF TypeOK, Calls, Maps

\* The maps of a line are maps.
LEMMA LineMaps ==
  ASSUME TypeOK, NEW g \in Gateways
  PROVE  \A i \in 0..Len(down[g]) : Line(g, i) \in Maps
<1>1. down[g] \in Seq(Frames) /\ held[g] \in Maps
  BY Numbers
<1>2. QED
  BY <1>1, FrameQueue DEF Line

\* No map is older than every other.
LEMMA KnownNone == ASSUME Control PROVE Known(NoMap)
  BY Numbers, IdleFields DEF Control, VersionInv, Known

\* What the act sends is what the hub holds, and is Known to yield.
LEMMA LastYields ==
  ASSUME Control, Pushing
  PROVE  \A m \in Maps : Known(m) => Yields(m, act.m) /\ m.v <= last.v
  BY Numbers, IdleFields DEF Control, ActInv, VersionInv, Known, Yields

\* A line nothing was put on or taken from keeps what is known of it.
LEMMA SameLine ==
  ASSUME TypeOK, NEW h \in Gateways, down'[h] = down[h], held'[h] = held[h],
         UNCHANGED <<version, last>>, Wiped' <=> Wiped
  PROVE  /\ PurgeInv(h) => PurgeInv(h)'
         /\ ChainInv(h) => ChainInv(h)'
         /\ Holding(h)' <=> Holding(h)
         /\ Tip(h)' = Tip(h)
         /\ up'[h] = up[h] /\ AckInv(h) => AckInv(h)'
<1>1. PurgeInv(h) => PurgeInv(h)'
  BY DEF PurgeInv
<1>2. Holding(h)' <=> Holding(h)
  BY DEF Holding
<1>3. up'[h] = up[h] /\ AckInv(h) => AckInv(h)'
  BY <1>2 DEF AckInv, Heard, Current
<1>4. Tip(h)' = Tip(h)
  BY DEF Tip, Line
<1>5. ASSUME ChainInv(h) PROVE ChainInv(h)'
  <2>1. First(h)' = First(h) /\ First(h) \in {0, 1} /\ Len(down[h]) \in Nat
    BY Numbers DEF First, Fresh
  <2>2. \A i \in 0..Len(down[h]) : Line(h, i)' = Line(h, i)
    BY DEF Line
  <2>3. ASSUME NEW i \in First(h)..Len(down[h]) PROVE Known(Line(h, i))'
    <3>1. Known(Line(h, i)) /\ Line(h, i)' = Line(h, i)
      BY <1>5, <2>1, <2>2, <2>3 DEF ChainInv
    <3>2. QED
      BY <3>1 DEF Known
  <2>4. QED
    BY <1>5, <2>1, <2>2, <2>3 DEF ChainInv, Yields
<1>6. QED
  BY <1>1, <1>2, <1>3, <1>4, <1>5

\* A gateway nothing happens to keeps its invariants, if what is last, wiped and
\* held by the hub stays, and what was pending for it may be.
LEMMA Untouched ==
  ASSUME TypeOK, NEW h \in Gateways,
         conn'[h] = conn[h], snap'[h] = snap[h], down'[h] = down[h], up'[h] = up[h], held'[h] = held[h],
         UNCHANGED <<version, hub, last>>, Wiped' <=> Wiped
  PROVE  /\ PurgeInv(h) => PurgeInv(h)'
         /\ StreamInv(h) /\ (conn[h] # "down" /\ ~Pending(h)' => ~Pending(h)) => StreamInv(h)'
         /\ AckInv(h) => AckInv(h)'
         /\ Holding(h) => Holding(h)'
<1>1. /\ PurgeInv(h) => PurgeInv(h)'
      /\ ChainInv(h) => ChainInv(h)'
      /\ Holding(h)' <=> Holding(h)
      /\ Tip(h)' = Tip(h)
      /\ AckInv(h) => AckInv(h)'
  BY SameLine
<1>2. ASSUME StreamInv(h), conn[h] # "down" /\ ~Pending(h)' => ~Pending(h) PROVE StreamInv(h)'
  <2>1. conn[h] = "ready" => Known(snap[h])'
    BY <1>2 DEF StreamInv, Known
  <2>2. QED
    BY <1>1, <1>2, <2>1 DEF StreamInv
<1>3. QED
  BY <1>1, <1>2

\* A line with one frame more.
LEMMA LineGrows ==
  ASSUME TypeOK, NEW g \in Gateways, NEW f \in Frames, down'[g] = Append(down[g], f), held'[g] = held[g],
         UNCHANGED <<version, last>>, Wiped' <=> Wiped
  PROVE  /\ Tip(g)' = f.m
         /\ PurgeInv(g) /\ (f.t = "purge" => Wiped) => PurgeInv(g)'
         /\ Holding(g) /\ f.m.c = last.c => Holding(g)'
         /\ ChainInv(g) /\ Known(f.m) /\ (f.t = "snapshot" => down[g] = <<>>)
              /\ (f.t = "put" => \A m \in Maps : Known(m) => Yields(m, f.m)) => ChainInv(g)'
<1>0. PICK n \in Nat : n = Len(down[g])
  BY Zenon, Numbers
<1>1. /\ Len(down'[g]) = n + 1 /\ down'[g][n + 1] = f
      /\ \A i \in 1..n : down'[g][i] = down[g][i]
      /\ down[g] = <<>> <=> n = 0
      /\ down'[g] # <<>>
  <2>1. down[g] \in Seq(Frames)
    BY Numbers
  <2>2. QED
    BY <1>0, <2>1, FrameQueue
<1>2. ASSUME NEW i \in 0..n PROVE Line(g, i)' = Line(g, i) /\ Line(g, i) \in Maps
  <2>1. Line(g, i) \in Maps
    BY <1>0, LineMaps
  <2>2. Line(g, i)' = Line(g, i)
    BY <1>1, <1>2 DEF Line
  <2>3. QED
    BY <2>1, <2>2
<1>3. Line(g, n + 1)' = f.m /\ Tip(g)' = f.m
  <2>1. n + 1 # 0
    BY <1>1
  <2>2. QED
    BY <1>1, <2>1 DEF Line, Tip
<1>5. PurgeInv(g) /\ (f.t = "purge" => Wiped) => PurgeInv(g)'
  BY <1>0, <1>1 DEF PurgeInv
<1>6. Holding(g) /\ f.m.c = last.c => Holding(g)'
  BY <1>0, <1>1 DEF Holding
<1>7. ASSUME ChainInv(g), Known(f.m), f.t = "snapshot" => n = 0,
             f.t = "put" => \A m \in Maps : Known(m) => Yields(m, f.m)
      PROVE  ChainInv(g)'
  <2>1. /\ First(g)' = IF n = 0 THEN IF f.t = "snapshot" THEN 1 ELSE 0 ELSE First(g)
        /\ First(g) \in {0, 1} /\ (n = 0 => First(g) = 0)
    BY <1>0, <1>1 DEF First, Fresh
  <2>2. ASSUME NEW i \in First(g)'..(n + 1) PROVE Known(Line(g, i))'
    <3>1. CASE i = n + 1
      <4>1. Line(g, i)' = f.m
        BY <3>1, <1>3
      <4>2. QED
        BY <4>1, <1>7 DEF Known
    <3>2. CASE i \in First(g)..n
      <4>1. Known(Line(g, i)) /\ Line(g, i)' = Line(g, i)
        BY <3>2, <1>1, <1>2, <1>7, <2>1, <1>0 DEF ChainInv
      <4>2. QED
        BY <4>1 DEF Known
    <3>3. QED
      BY <2>1, <2>2, <3>1, <3>2, <1>1
  <2>3. ASSUME NEW j \in 1..(n + 1), down'[g][j].t = "put", NEW i \in First(g)'..(j - 1)
        PROVE  Yields(Line(g, i), Line(g, j))'
    <3>0. i \in First(g)..n /\ i \in First(g)..(j - 1) /\ i \in 0..n
      BY <1>1, <1>7, <2>1, <2>3
    <3>1. CASE j = n + 1
      <4>1. Known(Line(g, i)) /\ Line(g, i) \in Maps /\ Line(g, i)' = Line(g, i) /\ f.t = "put"
        BY <3>0, <3>1, <1>1, <1>2, <1>7, <2>3, <1>0 DEF ChainInv
      <4>2. Line(g, j)' = f.m /\ Yields(Line(g, i), f.m)
        BY <4>1, <3>1, <1>3, <1>7
      <4>3. QED
        BY <4>1, <4>2 DEF Yields
    <3>2. CASE j \in 1..n
      <4>1. Yields(Line(g, i), Line(g, j)) /\ Line(g, i)' = Line(g, i) /\ Line(g, j)' = Line(g, j)
        BY <3>0, <3>2, <1>1, <1>2, <1>7, <2>3, <1>0 DEF ChainInv
      <4>2. QED
        BY <4>1 DEF Yields
    <3>3. QED
      BY <2>3, <3>1, <3>2, <1>1
  <2>4. ASSUME NEW i \in 2..(n + 1) PROVE down'[g][i].t # "snapshot"
    BY <1>0, <1>1, <1>7, <2>4 DEF ChainInv
  <2>5. QED
    BY SMTT(30), <1>1, <2>2, <2>3, <2>4 DEF ChainInv
<1>8. QED
  BY <1>0, <1>1, <1>3, <1>5, <1>6, <1>7

\* A line whose first frame was received: taken, or skipped by Apply.
LEMMA LineMoves ==
  ASSUME TypeOK, NEW g \in Gateways, down[g] # <<>>, down'[g] = Tail(down[g]),
         \/ held'[g] = down[g][1].m
         \/ down[g][1].t = "put" /\ held'[g] = held[g] /\ held[g].v >= down[g][1].m.v,
         UNCHANGED <<version, last>>, Wiped' <=> Wiped
  PROVE  /\ PurgeInv(g) => PurgeInv(g)'
         /\ Holding(g) => Holding(g)'
         /\ ChainInv(g) => ChainInv(g)' /\ First(g)' = 0 /\ Tip(g)'.c = Tip(g).c
<1>0. PICK n \in Nat : n = Len(down[g])
  BY Zenon, Numbers
<1>1. /\ n >= 1 /\ Len(down'[g]) = n - 1 /\ n - 1 \in Nat
      /\ \A i \in 1..(n - 1) : down'[g][i] = down[g][i + 1]
  <2>1. down[g] \in Seq(Frames)
    BY Numbers
  <2>2. QED
    BY <1>0, <2>1, FrameQueue
<1>2. PurgeInv(g) => PurgeInv(g)'
  BY <1>0, <1>1 DEF PurgeInv
<1>3. Holding(g) => Holding(g)'
  BY <1>0, <1>1 DEF Holding
<1>4. ASSUME NEW i \in 1..(n - 1) PROVE Line(g, i)' = Line(g, i + 1)
  BY <1>0, <1>1, <1>4 DEF Line
<1>5. Line(g, 0)' = held'[g] /\ Line(g, 0) = held[g] /\ Line(g, 1) = down[g][1].m
  BY DEF Line
<1>6. ASSUME ChainInv(g) PROVE ChainInv(g)' /\ First(g)' = 0 /\ Tip(g)'.c = Tip(g).c
  <2>1. First(g)' = 0 /\ First(g) \in {0, 1} /\ (down[g][1].t = "put" => First(g) = 0)
    <3>1. ~Fresh(g)'
      <4>1. CASE n - 1 = 0
        <5>1. down[g] \in Seq(Frames) /\ Tail(down[g]) \in Seq(Frames)
          BY Numbers, FrameQueue
        <5>2. down'[g] = <<>>
          BY SMTT(30), <1>1, <4>1, <5>1, FrameQueue
        <5>3. QED
          BY Zenon, <5>2 DEF Fresh
      <4>2. CASE n - 1 # 0
        <5>0. 1 \in 1..(n - 1) /\ 1 + 1 = 2 /\ 2 \in 2..n
          BY <1>1, <4>2
        <5>1. down'[g][1] = down[g][2] /\ 2 \in 2..n
          BY <1>1, <5>0
        <5>2. QED
          BY <5>1, <1>0, <1>6 DEF ChainInv, Fresh
      <4>3. QED
        BY <4>1, <4>2
    <3>2. QED
      BY <3>1 DEF First, Fresh
  <2>2. \A i \in First(g)..n : Known(Line(g, i))
    BY <1>0, <1>6 DEF ChainInv
  <2>3. \A j \in 1..n : down[g][j].t = "put" => \A i \in First(g)..(j - 1) : Yields(Line(g, i), Line(g, j))
    BY <1>0, <1>6 DEF ChainInv
  <2>4. PICK a \in First(g)..1 : held'[g] = Line(g, a)
    BY <1>5, <2>1
  <2>5. a \in First(g)..n /\ Known(Line(g, a)) /\ Line(g, 0)' = Line(g, a)
    BY <1>1, <1>5, <2>1, <2>2, <2>4
  <2>6. ASSUME NEW i \in 0..(n - 1) PROVE Known(Line(g, i))'
    <3>1. CASE i = 0
      BY <2>5, <3>1 DEF Known
    <3>2. CASE i # 0
      <4>1. Line(g, i)' = Line(g, i + 1) /\ Known(Line(g, i + 1))
        BY <1>1, <1>4, <2>1, <2>2, <2>6, <3>2
      <4>2. QED
        BY <4>1 DEF Known
    <3>3. QED
      BY <3>1, <3>2
  <2>7. ASSUME NEW j \in 1..(n - 1), down'[g][j].t = "put", NEW i \in 0..(j - 1)
        PROVE  Yields(Line(g, i), Line(g, j))'
    <3>1. down[g][j + 1].t = "put" /\ j + 1 \in 1..n /\ Line(g, j)' = Line(g, j + 1)
      BY <1>1, <1>4, <2>7
    <3>2. CASE i = 0
      <4>1. Yields(Line(g, a), Line(g, j + 1))
        BY <1>1, <2>1, <2>3, <2>4, <3>1
      <4>2. QED
        BY <2>5, <3>1, <3>2, <4>1 DEF Yields
    <3>3. CASE i # 0
      <4>0. i \in 1..(n - 1)
        BY <1>1, <2>7, <3>3
      <4>1. Line(g, i)' = Line(g, i + 1)
        BY <1>4, <4>0
      <4>2. Yields(Line(g, i + 1), Line(g, j + 1))
        BY SMTT(30), <1>1, <2>1, <2>3, <2>7, <3>1, <3>3
      <4>3. QED
        BY <3>1, <4>1, <4>2 DEF Yields
    <3>4. QED
      BY <3>2, <3>3
  <2>8. ASSUME NEW i \in 2..(n - 1) PROVE down'[g][i].t # "snapshot"
    BY <1>0, <1>1, <1>6, <2>8 DEF ChainInv
  <2>9. Tip(g)'.c = Tip(g).c
    <3>1. CASE n = 1
      <4>1. Tip(g) = Line(g, 1) /\ Tip(g)' = held'[g]
        BY <1>0, <1>1, <1>5, <3>1 DEF Tip, Line
      <4>2. Line(g, 0).v >= Line(g, 1).v /\ down[g][1].t = "put" => Line(g, 0).c = Line(g, 1).c
        BY <1>1, <2>1, <2>3 DEF Yields
      <4>3. QED
        BY <1>5, <4>1, <4>2
    <3>2. CASE n # 1
      <4>1. n - 1 \in 1..(n - 1) /\ n - 1 + 1 = n
        BY <1>1, <3>2
      <4>2. Line(g, n - 1)' = Line(g, n)
        BY <4>1, <1>4
      <4>3. Tip(g) = Line(g, n) /\ Tip(g)' = Line(g, n - 1)'
        BY Zenon, <1>0, <1>1 DEF Tip, Line
      <4>4. QED
        BY <4>2, <4>3
    <3>3. QED
      BY <3>1, <3>2
  <2>10. QED
    BY Zenon, <1>1, <2>1, <2>6, <2>7, <2>8, <2>9 DEF ChainInv
<1>7. QED
  BY Zenon, <1>2, <1>3, <1>6

\* The acts do not touch a stream; each starts a Send or a purge, or ends one.
LEMMA ActShape ==
  ASSUME Control, Act
  PROVE  /\ UNCHANGED <<conn, snap, down, up, held, ahead>>
         /\ ~act'.acked /\ act'.to = {}
         /\ act'.at = "collect" \/ (act' = Idle /\ act.at \in {"held", "missed"} /\ hub' = hub)
         /\ act'.kind = "purge" => gone' \/ (act.kind = "create" /\ UNCHANGED <<version, last>>)
<1>. USE Bounds, IdleFields
<1>a. /\ "collect" \in Steps /\ {"create", "update", "repush", "recover", "purge", "restore"} \subseteq Kinds
  BY DEF Steps, Kinds
<1>i. ASSUME NEW kind \in Kinds, NEW m \in Maps, act' = Call("collect", kind, m)
      PROVE  act'.at = "collect" /\ ~act'.acked /\ act'.to = {} /\ act'.kind = kind
  BY <1>i, <1>a, CallFields
<1>n. TypeOK /\ pushes \in 0..MaxPushes /\ want \in 0..MaxPushes /\ act.m \in Maps
  BY Numbers DEF Control, TypeOK
<1>1. ASSUME NEW kind \in {"create", "update", "repush"}, PushNew(kind) PROVE 
         /\ UNCHANGED <<conn, snap, down, up, held, ahead>>
         /\ ~act'.acked /\ act'.to = {} /\ act'.at = "collect" /\ act'.kind # "purge"
  <2>1. pushes' \in 0..MaxPushes
    BY <1>1, <1>n DEF PushNew
  <2>2. compileEgress(pushes') \in Maps
    BY <1>n, <2>1, Compiled
  <2>3. act' = Call("collect", kind, compileEgress(pushes')) /\ UNCHANGED <<conn, snap, down, up, held, ahead>>
    BY <1>1 DEF PushNew, Begin, streams
  <2>4. kind \in Kinds
    BY <1>a
  <2>5. QED
    BY <2>2, <2>3, <2>4, <1>i
<1>2. CASE PushAgain
  <2>2. compileEgress(want) \in Maps
    BY <1>n, Compiled
  <2>3. act' = Call("collect", "recover", compileEgress(want)) /\ UNCHANGED <<conn, snap, down, up, held, ahead>>
    BY <1>2 DEF PushAgain, Begin, streams
  <2>5. QED
    BY <2>2, <2>3, <1>a, <1>i
<1>p. ASSUME BeginPurge
      PROVE  ~act'.acked /\ act'.to = {} /\ act'.at = "collect" /\ UNCHANGED <<conn, snap, down, up, held, ahead>>
  BY <1>p, <1>a, <1>i DEF BeginPurge, streams
<1>3. CASE Delete
  BY <1>3, <1>p DEF Delete
<1>4. CASE Commit \/ RepushUnwritten \/ Restored
  BY <1>4 DEF Commit, RepushUnwritten, Restored, streams
<1>5. CASE Undo
  <2>1. CASE act.kind = "create" /\ BeginPurge /\ UNCHANGED desired
    BY <2>1, <1>p DEF BeginPurge, desired
  <2>2. CASE act.kind = "update"
    <3>. DEFINE m == [v |-> act.m.v + 1, c |-> want]
    <3>1. m \in Maps
      BY <1>n, MapFields DEF Maps
    <3>2. act' = Call("collect", "restore", m) /\ UNCHANGED <<conn, snap, down, up, held, ahead>>
      BY <1>5, <2>2 DEF Undo, streams
    <3>. HIDE DEF m
    <3>3. QED
      BY <3>1, <3>2, <1>a, <1>i
  <2>3. CASE act.kind \in {"recover", "restore"}
    BY <1>5, <2>3 DEF Undo, Undoing, streams
  <2>4. QED
    BY <1>5, <2>1, <2>2, <2>3 DEF Undo
<1>6. QED
  BY <1>1, <1>2, <1>3, <1>4, <1>5 DEF Act

\* compileEgress's numbering: what was sent before stays behind what is sent
\* next, and what a purge ended is not taken for it, unless a version is reused.
LEMMA Numbering ==
  ASSUME Control, Act
  PROVE  /\ reused => reused'
         /\ ~reused' => /\ \A m \in Maps : Known(m) => Known(m)'
                        /\ Wiped => Wiped'
                        /\ \A n \in Nat : Heard(n) => Heard(n)' /\ (Current(n)' => Current(n) /\ last'.c = last.c)
<1>. USE IdleFields
<1>n. /\ version \in Nat /\ last.v \in Nat /\ last.c \in Nat /\ pushes \in Nat /\ want \in Nat
      /\ last.v <= version + 1 /\ last.c <= pushes /\ last \in Maps
      /\ last = NoMap \/ last.v > 0
      /\ \A m \in Maps : m.v \in Nat /\ m.c \in Nat
  BY Numbers DEF Control, VersionInv
<1>. DEFINE Goal == /\ \A m \in Maps : Known(m) => Known(m)'
                    /\ Wiped => Wiped'
                    /\ \A n \in Nat : Heard(n) => Heard(n)' /\ (Current(n)' => Current(n) /\ last'.c = last.c)
<1>b. \* A Send at the next version, of another content than the last if it was wiped.
      ASSUME NEW m \in Maps, last' = m, m.v = version + 1, m.v > last.v \/ m.c = last.c,
             ~gone, want = NoContent => m.c > last.c
      PROVE  Goal
  <2>1. ~Wiped \/ m.v > last.v
    BY <1>b, <1>n DEF Wiped
  <2>2. m.v \in Nat /\ m.c \in Nat /\ m # NoMap
    BY <1>b, <1>n
  <2>3. \A x \in Maps : Known(x) => Known(x)'
    BY <1>b, <1>n, <2>2 DEF Known
  <2>4. ~Wiped
    BY <1>b, <1>n, <2>1 DEF Wiped
  <2>5. \A n \in Nat : Heard(n) => Heard(n)' /\ (Current(n)' => Current(n) /\ last'.c = last.c)
    BY <1>b, <1>n, <2>2, <2>4 DEF Heard, Current
  <2>6. QED
    BY <2>3, <2>4, <2>5
<1>e. \* The last map stays, and what was wiped stays so.
      ASSUME last' = last, Wiped => Wiped', version' = version \/ last # NoMap
      PROVE  Goal
  <2>1. \A x \in Maps : Known(x) => Known(x)'
    BY <1>e, <1>n DEF Known
  <2>2. \A n \in Nat : Heard(n) => Heard(n)' /\ (Current(n)' => Current(n) /\ last'.c = last.c)
    BY <1>e, <1>n DEF Heard, Current
  <2>3. QED
    BY <1>e, <2>1, <2>2
<1>. SUFFICES (reused => reused') /\ (~reused' => Goal)
  OBVIOUS
<1>. HIDE DEF Goal
<1>w. Pushing => ~Wiped /\ last # NoMap /\ act.m = last
  BY DEF Control, ActInv, VersionInv, Wiped
<1>1. ASSUME NEW kind \in {"create", "update", "repush"}, PushNew(kind)
      PROVE  (reused => reused') /\ (~reused' => Goal)
  <2>1. pushes' = pushes + 1 /\ pushes' \in 0..MaxPushes /\ ~gone
    BY <1>1, <1>n, Bounds DEF PushNew
  <2>. DEFINE m == compileEgress(pushes')
  <2>2. m \in Maps /\ m.v = version + 1 /\ m.c = pushes'
    BY <2>1, Compiled DEF Control
  <2>3. last' = m /\ reused' = (reused \/ (m.v <= last.v /\ m.c # last.c))
    BY <1>1 DEF PushNew, Begin
  <2>. HIDE DEF m
  <2>9. ~reused' => ~(m.v <= last.v /\ m.c # last.c)
    BY <2>3, Zenon
  <2>4. ~reused' => m.v > last.v \/ m.c = last.c
    BY <2>2, <2>9, <1>n
  <2>5. m.c > last.c
    BY <2>1, <2>2, <1>n
  <2>6. ~reused' => Goal
    BY <2>1, <2>2, <2>3, <2>4, <2>5, <1>b
  <2>7. QED
    BY <2>3, <2>6, Zenon
<1>2. CASE PushAgain
  <2>. DEFINE m == compileEgress(want)
  <2>2. m \in Maps /\ m.v = version + 1 /\ m.c = want
    BY Compiled DEF Control, TypeOK
  <2>3. last' = m /\ reused' = (reused \/ (m.v <= last.v /\ m.c # last.c)) /\ ~gone /\ want # NoContent
    BY <1>2 DEF PushAgain, Begin
  <2>. HIDE DEF m
  <2>9. ~reused' => ~(m.v <= last.v /\ m.c # last.c)
    BY <2>3, Zenon
  <2>4. ~reused' => m.v > last.v \/ m.c = last.c
    BY <2>2, <2>9, <1>n
  <2>6. ~reused' => Goal
    BY <2>2, <2>3, <2>4, <1>b
  <2>7. QED
    BY <2>3, <2>6, Zenon
<1>3. CASE Delete
  <2>1. last' = last /\ reused' = reused /\ version' = version /\ gone'
    BY <1>3 DEF Delete, BeginPurge
  <2>2. QED
    BY <2>1, <1>e DEF Wiped
<1>4. CASE Commit \/ RepushUnwritten \/ Restored
  <2>1. last' = last /\ reused' = reused /\ Pushing
    BY <1>4 DEF Commit, RepushUnwritten, Restored, Pushing
  <2>2. QED
    BY <2>1, <1>e, <1>w
<1>5. CASE Undo
  <2>1. CASE act.kind = "create" /\ BeginPurge
    <3>1. last' = last /\ reused' = reused /\ Pushing
      BY <2>1 DEF BeginPurge, Pushing
    <3>2. QED
      BY <3>1, <1>e, <1>w
  <2>2. CASE act.kind = "update"
    <3>. DEFINE m == [v |-> act.m.v + 1, c |-> want]
    <3>0. act.m.v \in Nat /\ act.m.v + 1 \in Nat /\ want \in 0..MaxPushes
      BY Numbers DEF Control, TypeOK
    <3>1. m \in Maps /\ m.v = act.m.v + 1 /\ act.m.v \in Nat
      BY <3>0, MapFields
    <3>2. Pushing
      BY <2>2 DEF Pushing
    <3>3. "collect" \in Steps /\ "restore" \in Kinds
      BY DEF Steps, Kinds
    <3>4. act' = Call("collect", "restore", m) /\ last' = act'.m /\ reused' = reused /\ UNCHANGED <<want, gone>>
      BY <1>5, <2>2 DEF Undo
    <3>. HIDE DEF m
    <3>5. last' = m /\ m.v = last.v + 1
      BY <3>1, <3>2, <3>3, <3>4, CallFields, <1>w
    <3>6. last # NoMap /\ ~Wiped /\ m.v \in Nat
      BY <3>1, <3>2, <1>n, <1>w
    <3>7. \A x \in Maps : Known(x) => Known(x)'
      BY <3>5, <3>6, <1>n DEF Known
    <3>8. \A n \in Nat : Heard(n) => Heard(n)' /\ (Current(n)' => Current(n) /\ last'.c = last.c)
      BY <3>5, <3>6, <1>n DEF Heard, Current
    <3>9. QED
      BY <3>4, <3>6, <3>7, <3>8 DEF Goal
  <2>3. CASE act.kind \in {"recover", "restore"}
    <3>1. last' = last /\ reused' = reused /\ Pushing
      BY <1>5, <2>3 DEF Undo, Pushing
    <3>2. QED
      BY <3>1, <1>e, <1>w
  <2>4. QED
    BY <1>5, <2>1, <2>2, <2>3 DEF Undo
<1>6. QED
  BY <1>1, <1>2, <1>3, <1>4, <1>5 DEF Act

\* The acts keep what is known of the gateways.
LEMMA ActKeeps ==
  ASSUME Control, Control', GatewayInv, Act
  PROVE  GatewayInv'
<1>i. act' = Idle => act'.at = "idle" /\ act'.to = {} /\ act'.kind = "none"
  BY IdleFields
<1>1. /\ UNCHANGED <<conn, snap, down, up, held, ahead>>
      /\ ~act'.acked /\ act'.to = {}
      /\ act'.at = "collect" \/ (act' = Idle /\ act.at \in {"held", "missed"} /\ hub' = hub)
      /\ act'.kind = "purge" => gone' \/ (act.kind = "create" /\ UNCHANGED <<version, last>>)
  BY ActShape
<1>2. (reused => reused') /\ (Clean' => Clean)
  BY <1>1, Numbering DEF Clean
<1>3. ~reused' => /\ \A m \in Maps : Known(m) => Known(m)'
                  /\ Wiped => Wiped'
                  /\ \A n \in Nat : Heard(n) => Heard(n)' /\ (Current(n)' => Current(n) /\ last'.c = last.c)
  BY Numbering
<1>4. TypeOK /\ TypeOK'
  BY SMTT(30) DEF Control
<1>5. ASSUME NEW g \in Gateways PROVE QueueInv(g)'
  BY <1>1, <1>5, <1>i DEF GatewayInv, QueueInv
<1>6. act'.kind = "purge" => Wiped'
  BY SMTT(30), <1>1, <1>i, Numbers, IdleFields DEF Control, ActInv, VersionInv, Wiped, Pushing
<1>7. ASSUME ~reused', NEW g \in Gateways PROVE PurgeInv(g)'
  BY <1>1, <1>2, <1>3, <1>7 DEF GatewayInv, PurgeInv
<1>8. Clean' => Known(hub)'
  <2>1. CASE act'.at = "collect"
    <3>1. act'.kind = "purge" \/ (hub' = last')
      BY <2>1 DEF Control, ActInv
    <3>2. hub' = NoMap => Known(hub)'
      <4>1. VersionInv' /\ version' \in Nat /\ last' \in Maps /\ last'.v \in Nat
        BY <1>4 DEF Control, TypeOK, Maps
      <4>2. QED
        BY SMTT(30), <4>1, IdleFields DEF VersionInv, Known
    <3>3. hub' = last' => Known(hub)'
      BY DEF Known
    <3>4. QED
      BY <3>1, <3>2, <3>3 DEF Control, ActInv
  <2>2. CASE hub' = hub
    <3>1. hub \in Maps
      BY <1>4, Numbers
    <3>2. Clean' => ~reused' /\ Known(hub)
      BY SMTT(30), <1>2 DEF Clean, GatewayInv
    <3>3. QED
      BY <2>2, <3>1, <3>2, <1>3 DEF Known
  <2>3. QED
    BY <1>1, <2>1, <2>2
<1>9. ASSUME Clean', NEW g \in Gateways PROVE StreamInv(g)'
  <2>1. StreamInv(g) /\ \A m \in Maps : Known(m) => Known(m)'
    BY Zenon, <1>2, <1>3, <1>9 DEF Clean, GatewayInv
  <2>2. ~Pending(g)' => ~Pending(g) /\ hub' = hub
    BY <1>1, <1>i DEF Pending
  <2>3. snap[g] \in Maps /\ Len(down[g]) \in Nat /\ \A i \in 0..Len(down[g]) : Line(g, i) \in Maps
    BY <1>4, Numbers, LineMaps
  <2>4. /\ conn'[g] = conn[g] /\ snap'[g] = snap[g] /\ down'[g] = down[g]
        /\ (First(g))' = First(g) /\ First(g) \in {0, 1}
        /\ \A i \in 0..Len(down[g]) : Line(g, i)' = Line(g, i)
        /\ Tip(g)' = Tip(g)
    BY <1>1 DEF First, Fresh, Line, Tip
  <2>5. conn[g] \in {"up", "closing"} => \A i \in First(g)..Len(down[g]) : Known(Line(g, i))'
    <3>1. ASSUME conn[g] \in {"up", "closing"}, NEW i \in First(g)..Len(down[g]) PROVE Known(Line(g, i))'
      <4>1. Known(Line(g, i)) /\ Line(g, i) \in Maps /\ Line(g, i)' = Line(g, i)
        BY SMTT(30), <3>1, <2>1, <2>3, <2>4 DEF StreamInv, ChainInv
      <4>2. QED
        BY <4>1, <2>1 DEF Known
    <3>2. QED
      BY <3>1
  <2>7. conn[g] = "ready" => Known(snap[g])'
    BY <2>1, <2>3, <2>4 DEF StreamInv, Known
  <2>8. conn[g] \in {"up", "closing"} => ChainInv(g)'
    <3>1. ASSUME ChainInv(g), NEW j \in 1..Len(down[g]), down[g][j].t = "put", NEW i \in First(g)..(j - 1)
          PROVE  Yields(Line(g, i), Line(g, j))'
      <4>1. Yields(Line(g, i), Line(g, j)) /\ i \in 0..Len(down[g]) /\ j \in 0..Len(down[g])
        BY SMTT(30), <2>3, <2>4, <3>1 DEF ChainInv
      <4>2. QED
        BY <2>4, <4>1 DEF Yields
    <3>2. QED
      BY SMTT(30), <2>1, <2>4, <2>5, <3>1 DEF StreamInv, ChainInv
  <2>6. QED
    BY <2>1, <2>2, <2>4, <2>7, <2>8 DEF StreamInv
<1>10. ASSUME Clean', NEW g \in Gateways PROVE AckInv(g)'
  <2>1. AckInv(g) /\ up'[g] = up[g] /\ up[g] \in Seq(Nat)
    <3>1. up'[g] = up[g] /\ up[g] \in Seq(Nat)
      BY <1>1, <1>4, Numbers
    <3>2. QED
      BY <1>2, <1>10, <3>1 DEF GatewayInv
  <2>2. \A k \in 1..Len(up[g]) : up[g][k] \in Nat
    BY SMTT(30), <2>1, AckQueue
  <2>3. Holding(g) /\ last'.c = last.c => Holding(g)'
    BY Zenon, <1>1 DEF Holding
  <2>4. QED
    <3>1. ~reused'
      BY <1>10 DEF Clean
    <3>2. ASSUME NEW k \in 1..Len(up[g]) PROVE Heard(up[g][k])' /\ (Current(up[g][k])' => Holding(g)')
      <4>1. up[g][k] \in Nat /\ Heard(up[g][k]) /\ (Current(up[g][k]) => Holding(g))
        BY <2>1, <2>2 DEF AckInv
      <4>2. PICK v \in Nat : v = up[g][k]
        BY <4>1
      <4>3. Heard(v)' /\ (Current(v)' => Holding(g)')
        BY Zenon, <1>3, <2>3, <3>1, <4>1, <4>2
      <4>4. QED
        BY <2>1, <4>2, <4>3 DEF Heard, Current
    <3>3. QED
      BY <2>1, <3>2 DEF AckInv
<1>11. QED
  BY <1>1, <1>5, <1>6, <1>7, <1>8, <1>9, <1>10 DEF GatewayInv, AckedInv

\* Reading the connections, and Send's wait, keep them.
LEMMA SendingKeeps ==
  ASSUME Control, Control', GatewayInv, Collect \/ Broadcast \/ Answered
  PROVE  GatewayInv'
<1>. USE IdleFields
<1>1. /\ UNCHANGED <<conn, snap, down, up, held, ahead, reused, version, hub, last, want, gone>>
      /\ act.at \in {"collect", "send", "wait"}
      /\ \/ act' = Idle /\ act.kind = "purge"
         \/ act'.kind = act.kind /\ act'.m = act.m /\ act'.acked = act.acked
      /\ act'.at = "send" => act.at = "collect" /\ act'.to = {g \in Gateways : conn[g] # "down"}
      /\ act.at = "collect" /\ act'.at # "send" => \A g \in Gateways : conn[g] = "down"
      /\ act.at = "send" => act.to = {}
      /\ act'.to \in {{}, act.to, {g \in Gateways : conn[g] # "down"}}
  BY Zenon, Sending DEF Control, desired, streams
<1>2. Wiped' <=> Wiped
  BY <1>1 DEF Wiped, Pushing
<1>3. ASSUME NEW g \in Gateways PROVE conn[g] # "down" /\ ~Pending(g)' => ~Pending(g)
  <2>1. ASSUME conn[g] # "down", ~Pending(g)', act.at = "collect" PROVE FALSE
    BY <1>1, <2>1 DEF Pending
  <2>2. ASSUME act.at = "send" /\ g \in act.to PROVE FALSE
    BY <1>1, <2>2
  <2>3. QED
    BY <2>1, <2>2 DEF Pending
<1>4. ASSUME NEW g \in Gateways PROVE QueueInv(g)'
  <2>1. QueueInv(g)
    BY DEF GatewayInv
  <2>2. g \in act'.to => g \in act.to \/ conn[g] # "down"
    BY SMTT(30), <1>1
  <2>3. QED
    BY <2>1, <2>2, <1>1 DEF QueueInv
<1>5. ASSUME NEW g \in Gateways
      PROVE  /\ PurgeInv(g) => PurgeInv(g)'
             /\ StreamInv(g) => StreamInv(g)'
             /\ AckInv(g) => AckInv(g)'
             /\ Holding(g) => Holding(g)'
  BY Zenon, <1>1, <1>2, <1>3, Untouched DEF Control
<1>6. act'.kind = "purge" => act.kind = "purge"
  BY <1>1
<1>7. AckedInv => AckedInv'
  BY Zenon, <1>1, <1>5 DEF AckedInv, Keeping
<1>8. (Clean' <=> Clean) /\ (Known(hub) => Known(hub)')
  BY <1>1 DEF Clean, Known
<1>9. QED
  BY Zenon, <1>1, <1>2, <1>4, <1>5, <1>6, <1>7, <1>8 DEF GatewayInv

\* A restart empties the streams, and the seeded hub is from before it.
LEMMA RestartKeeps ==
  ASSUME Control, Restart
  PROVE  GatewayInv'
<1>. USE IdleFields
<1>1. /\ act' = Idle /\ last' = NoMap
      /\ \A g \in Gateways : conn'[g] = "down" /\ down'[g] = <<>> /\ up'[g] = <<>>
  BY DEF Restart
<1>2. hub'.v <= version'
  <2>1. stored \in Nat /\ version' = stored
    BY DEF Control, TypeOK, Restart
  <2>2. CASE hub' \in EgressMaps
    <3>1. PICK c : hub' = [v |-> stored, c |-> c]
      BY <2>2 DEF EgressMaps
    <3>2. QED
      BY <2>1, <3>1
  <2>3. CASE hub' = NoMap
    BY <2>1, <2>3, MapFields
  <2>4. QED
    BY <2>2, <2>3 DEF Restart
<1>3. Known(hub)'
  BY <1>1, <1>2 DEF Known
<1>4. ASSUME NEW g \in Gateways PROVE QueueInv(g)' /\ PurgeInv(g)' /\ StreamInv(g)' /\ AckInv(g)'
  <2>1. Len(down'[g]) = 0 /\ Len(up'[g]) = 0
    BY SMTT(30), <1>1
  <2>2. QED
    BY <1>1, <2>1 DEF QueueInv, PurgeInv, StreamInv, AckInv
<1>5. QED
  BY <1>1, <1>3, <1>4 DEF GatewayInv, AckedInv

\* The first state: no stream is up and nothing was sent.
LEMMA GatewayInit == ASSUME Init PROVE GatewayInv
<1>1. act = Idle /\ hub = NoMap /\ last = NoMap /\ version = 0
  BY DEF Init
<1>2. ASSUME NEW g \in Gateways
      PROVE  conn[g] = "down" /\ Len(down[g]) = 0 /\ Len(up[g]) = 0 /\ down[g] = <<>> /\ up[g] = <<>>
  BY SMTT(30) DEF Init
<1>3. ASSUME NEW g \in Gateways PROVE QueueInv(g) /\ PurgeInv(g) /\ StreamInv(g) /\ AckInv(g)
  <2>1. QueueInv(g)
    BY <1>1, <1>2, IdleFields DEF QueueInv
  <2>2. StreamInv(g)
    BY <1>2 DEF StreamInv
  <2>3. 1..Len(down[g]) = {} /\ 1..Len(up[g]) = {}
    BY <1>2
  <2>4. QED
    BY <2>1, <2>2, <2>3 DEF PurgeInv, AckInv
<1>4. Known(hub) /\ AckedInv /\ act.kind # "purge"
  BY <1>1, IdleFields DEF Known, AckedInv
<1>5. QED
  BY <1>3, <1>4 DEF GatewayInv
=============================================================================
