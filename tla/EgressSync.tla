----------------------------- MODULE EgressSync -----------------------------
(***************************************************************************)
(* One sandbox's egress map on its way from desired state to the           *)
(* environment's gateways: the controller's pushes and purges              *)
(* (controller/egress.go pushEgress, restoreEgress; secret.go              *)
(* repushMounts), the hub (internal/api/egress.go) and the gateway's sync  *)
(* stream (internal/egressd/sync.go and store.go).                         *)
(*                                                                         *)
(* A map is its version and its content; a content is a number, a new one  *)
(* for every boundary desired state has had.  The controller pushes and    *)
(* purges under its lock, so `act` is the one under way.  The hub's queue  *)
(* to a gateway and the socket behind it are one sequence, `down`, and     *)
(* acknowledgments return in `up`.                                         *)
(***************************************************************************)
EXTENDS Integers, Sequences, FiniteSets

CONSTANTS
    Gateways,
    OutBuffer,     \* frames that may wait for one gateway
    UpBuffer,      \* acknowledgments that may wait for the hub
    MaxPushes,     \* bound: maps pushed, a restore not counted
    MaxRepeats,    \* bound: times Send broadcasts one map again
    MaxDrops,      \* bound: connections lost
    MaxFaults,     \* bound: writes the store refuses
    MaxRestarts    \* bound: times the control plane restarts

ASSUME EgressSyncAssumption ==
    /\ IsFiniteSet(Gateways) /\ Gateways # {}
    /\ {OutBuffer, UpBuffer} \subseteq Nat \ {0}
    /\ {MaxPushes, MaxRepeats, MaxDrops, MaxFaults, MaxRestarts} \subseteq Nat

VARIABLES
    want,      \* the content desired state has, NoContent before it and after
    version,   \* EgressState.Version of the row in memory
    stored,    \* and of the row in the store
    gone,      \* the sandbox was deleted
    hub,       \* EgressHub.maps: the map handed to whoever connects
    act,       \* the push or purge under way
    conn, snap,   \* a gateway's connection, and the snapshot computed for it
    down, up,     \* frames under way to it, acknowledgments under way from it
    held,      \* egressd store: the map the gateway enforces
    pushes, repeats, drops, faults, restarts,   \* how much of each bound is used
    ahead,     \* history: a frame was queued ahead of a connection's snapshot
    last,      \* history: the last map this process sent
    reused     \* history: it was followed by another content at its version

vars == <<want, version, stored, gone, hub, act, conn, snap, down, up, held,
          pushes, repeats, drops, faults, restarts, ahead, last, reused>>
desired == <<want, version, stored, gone>>
streams == <<conn, snap, down, up>>
bounds == <<pushes, drops, faults, restarts>>

NoContent == 0
NoMap == [v |-> 0, c |-> NoContent]
Maps == [v : Nat, c : 0..MaxPushes]
Call(at, kind, m) == [at |-> at, kind |-> kind, m |-> m, to |-> {}, sent |-> FALSE, acked |-> FALSE]
Idle == Call("idle", "none", NoMap)
Kinds == {"none", "create", "update", "repush", "recover", "restore", "purge"}
Steps == {"idle", "collect", "send", "wait", "held", "missed"}
Calls == [at : Steps, kind : Kinds, m : Maps, to : SUBSET Gateways, sent : BOOLEAN, acked : BOOLEAN]

Put(m) == [t |-> "put", m |-> m]
Snapshot(m) == [t |-> "snapshot", m |-> m]
Frames == [t : {"put", "snapshot", "purge"}, m : Maps]
Purge == [t |-> "purge", m |-> NoMap]

Init ==
    /\ want = NoContent /\ version = 0 /\ stored = 0 /\ gone = FALSE
    /\ hub = NoMap /\ act = Idle
    /\ conn = [g \in Gateways |-> "down"] /\ snap = [g \in Gateways |-> NoMap]
    /\ down = [g \in Gateways |-> <<>>] /\ up = [g \in Gateways |-> <<>>]
    /\ held = [g \in Gateways |-> NoMap]
    /\ pushes = 0 /\ repeats = 0 /\ drops = 0 /\ faults = 0 /\ restarts = 0
    /\ ahead = FALSE /\ last = NoMap /\ reused = FALSE

-----------------------------------------------------------------------------
(* The controller. *)

\* compileEgress numbers the map past the row's version.
compileEgress(c) == [v |-> version + 1, c |-> c]

\* Send keeps the map at the hub whatever happens and registers the waiter.
Begin(kind, m) ==
    /\ act' = Call("collect", kind, m)
    /\ hub' = m
    /\ reused' = (reused \/ (m.v <= last.v /\ m.c # last.c)) /\ last' = m
    /\ UNCHANGED <<streams, held, repeats, drops, faults, restarts, ahead>>

\* A new content: a create, an update, or a secret it mounts that changed,
\* which is desired before the push.
PushNew(kind) ==
    /\ act.at = "idle" /\ ~gone /\ pushes < MaxPushes
    /\ (kind = "create") <=> (want = NoContent)
    /\ pushes' = pushes + 1
    /\ want' = IF kind = "repush" THEN pushes' ELSE want
    /\ Begin(kind, compileEgress(pushes'))
    /\ UNCHANGED <<version, stored, gone>>

\* recoverLocked: the content it had, at the next version.
PushAgain ==
    /\ act.at = "idle" /\ ~gone /\ want # NoContent /\ pushes < MaxPushes
    /\ pushes' = pushes + 1
    /\ Begin("recover", compileEgress(want))
    /\ UNCHANGED desired

\* Purge drops the map from the hub, then from every gateway connected.
BeginPurge ==
    /\ act' = Call("collect", "purge", NoMap)
    /\ hub' = NoMap
    /\ UNCHANGED <<streams, held, repeats, drops, restarts, ahead, last, reused>>

\* A row is deleted before its create has run too.
Delete ==
    /\ act.at = "idle" /\ ~gone
    /\ gone' = TRUE /\ want' = NoContent
    /\ BeginPurge
    /\ UNCHANGED <<version, stored, pushes, faults>>

\* What follows a Send.  A boundary that needs no gateway is kept whether or not
\* one acknowledged it, and a repush always is.  Of the others, a create is
\* purged, an update is restored past the version that failed, and a recovery
\* is tried again later.
Commit ==
    /\ act.at \in {"held", "missed"} /\ act.kind \in {"create", "update", "repush", "recover"}
    /\ want' = IF act.kind \in {"create", "update"} THEN act.m.c ELSE want
    /\ version' = act.m.v /\ stored' = act.m.v /\ act' = Idle
    /\ UNCHANGED <<gone, hub, streams, held, pushes, repeats, drops, faults, restarts, ahead, last, reused>>

\* The push, or the write or driver call after it, failed.
Undoing == act.at = "missed" \/ (act.at = "held" /\ faults < MaxFaults)

Undo ==
    /\ Undoing /\ act.kind \notin {"none", "purge"}
    /\ faults' = IF act.at = "held" THEN faults + 1 ELSE faults
    /\ \/ act.kind = "create" /\ BeginPurge /\ UNCHANGED <<desired, pushes>>
       \/ /\ act.kind = "update"
          /\ act' = Call("collect", "restore", [v |-> act.m.v + 1, c |-> want])
          /\ hub' = act'.m /\ version' = act'.m.v /\ last' = act'.m
          /\ UNCHANGED <<want, stored, gone, streams, held, pushes, repeats, drops, restarts, ahead, reused>>
       \/ /\ act.kind \in {"recover", "restore"} /\ act' = Idle
          /\ UNCHANGED <<desired, hub, streams, held, pushes, repeats, drops, restarts, ahead, last, reused>>

\* repushMounts logs a write the store refused and leaves the row's version.
RepushUnwritten ==
    /\ act.at \in {"held", "missed"} /\ act.kind = "repush" /\ faults < MaxFaults
    /\ faults' = faults + 1 /\ act' = Idle
    /\ UNCHANGED <<desired, hub, streams, held, pushes, repeats, drops, restarts, ahead, last, reused>>

Restored ==
    /\ act.at = "held" /\ act.kind = "restore" /\ act' = Idle
    /\ UNCHANGED <<desired, hub, streams, held, pushes, repeats, drops, faults, restarts, ahead, last, reused>>

-----------------------------------------------------------------------------
(* The hub: Send and Purge to every connection, and a connection's life. *)

\* broadcast reads the connections under the lock; with none a Send fails.
Collect ==
    /\ act.at = "collect"
    /\ LET to == {g \in Gateways : conn[g] # "down"}
       IN  act' = IF to # {} THEN [act EXCEPT !.at = "send", !.to = to, !.sent = FALSE]
                  ELSE IF act.kind = "purge" THEN Idle ELSE [act EXCEPT !.at = "missed"]
    /\ repeats' = IF act'.at = "send" THEN repeats ELSE 0
    /\ UNCHANGED <<desired, hub, streams, held, bounds, ahead, last, reused>>

\* A connection closed before its pumps ran: nothing in its queue is written.
Shut(g) == conn' = [conn EXCEPT ![g] = "shut"] /\ down' = [down EXCEPT ![g] = <<>>]

\* gatewayConn.send: queued, or the connection is closed because its queue is
\* full.  One whose pumps have not begun never begins them.
Queue(g, frame) ==
    IF Len(down[g]) < OutBuffer
    THEN down' = [down EXCEPT ![g] = Append(@, frame)] /\ UNCHANGED conn
    ELSE IF conn[g] \in {"joined", "ready"} THEN Shut(g)
    ELSE conn' = [conn EXCEPT ![g] = "closing"] /\ UNCHANGED down

\* One connection less to send to, and whether its queue took the frame.
Sent(g, queued) == [act EXCEPT !.to = @ \ {g}, !.sent = @ \/ queued]

\* A connection already closing may take the frame and lose it.
SendTo(g) ==
    /\ act.at = "send" /\ g \in act.to
    /\ \/ /\ conn[g] # "shut"
          /\ Queue(g, IF act.kind = "purge" THEN Purge ELSE Put(act.m))
          /\ act' = Sent(g, Len(down[g]) < OutBuffer)
          /\ ahead' = (ahead \/ conn[g] \in {"joined", "ready"})
       \/ /\ conn[g] \in {"closing", "shut"}
          /\ act' = Sent(g, FALSE)
          /\ UNCHANGED <<conn, down, ahead>>
    /\ UNCHANGED <<desired, hub, snap, up, held, bounds, repeats, last, reused>>

Broadcast ==
    /\ act.at = "send" /\ act.to = {}
    /\ act' = IF act.kind = "purge" THEN Idle
              ELSE [act EXCEPT !.at = IF act.sent THEN "wait" ELSE "missed"]
    /\ repeats' = IF act'.at = "wait" THEN repeats ELSE 0
    /\ UNCHANGED <<desired, hub, streams, held, bounds, ahead, last, reused>>

\* Send's wait: acknowledged, out of time, or broadcast again.
Answered ==
    /\ act.at = "wait"
    /\ \/ act.acked /\ act' = [act EXCEPT !.at = "held"] /\ repeats' = 0
       \/ act' = [act EXCEPT !.at = "missed"] /\ repeats' = 0
       \/ repeats < MaxRepeats /\ repeats' = repeats + 1 /\ act' = [act EXCEPT !.at = "collect"]
    /\ UNCHANGED <<desired, hub, streams, held, bounds, ahead, last, reused>>

\* ServeGateway: join, then the snapshot is read, then it is queued.
Join(g) ==
    /\ conn[g] = "down" /\ conn' = [conn EXCEPT ![g] = "joined"]
    /\ UNCHANGED <<desired, hub, act, snap, down, up, held, bounds, repeats, ahead, last, reused>>

ReadSnapshot(g) ==
    /\ conn[g] = "joined" /\ conn' = [conn EXCEPT ![g] = "ready"]
    /\ snap' = [snap EXCEPT ![g] = hub]
    /\ UNCHANGED <<desired, hub, act, down, up, held, bounds, repeats, ahead, last, reused>>

QueueSnapshot(g) ==
    /\ conn[g] = "ready"
    /\ IF Len(down[g]) < OutBuffer
       THEN /\ down' = [down EXCEPT ![g] = Append(@, Snapshot(snap[g]))]
            /\ conn' = [conn EXCEPT ![g] = "up"]
       ELSE Shut(g)
    /\ UNCHANGED <<desired, hub, act, snap, up, held, bounds, repeats, ahead, last, reused>>

\* Bug: an acknowledgment satisfies the waiter whatever its version.
TakeAckAny(g) ==
    /\ conn[g] \in {"up", "closing"} /\ up[g] # <<>>
    /\ up' = [up EXCEPT ![g] = Tail(@)]
    /\ act' = IF act.at \in {"collect", "send", "wait"} THEN [act EXCEPT !.acked = TRUE] ELSE act
    /\ UNCHANGED <<desired, hub, conn, snap, down, held, bounds, repeats, ahead, last, reused>>

\* onAck satisfies the waiter at or below the acknowledged version.
TakeAck(g) ==
    /\ conn[g] \in {"up", "closing"} /\ up[g] # <<>>
    /\ up' = [up EXCEPT ![g] = Tail(@)]
    /\ act' = IF act.at \in {"collect", "send", "wait"} /\ act.kind # "purge" /\ Head(up[g]) >= act.m.v
              THEN [act EXCEPT !.acked = TRUE] ELSE act
    /\ UNCHANGED <<desired, hub, conn, snap, down, held, bounds, repeats, ahead, last, reused>>

\* The stream is lost, or closed by the hub; then leave forgets it.  A
\* broadcast that collected it may still count the frame it queues there.
Drop(g) ==
    /\ conn[g] = "up" /\ drops < MaxDrops /\ drops' = drops + 1
    /\ conn' = [conn EXCEPT ![g] = "closing"]
    /\ UNCHANGED <<desired, hub, act, snap, down, up, held, pushes, repeats, faults, restarts, ahead, last, reused>>

Leave(g) ==
    /\ conn[g] \in {"closing", "shut"} /\ conn' = [conn EXCEPT ![g] = "down"]
    /\ snap' = [snap EXCEPT ![g] = NoMap]
    /\ down' = [down EXCEPT ![g] = <<>>] /\ up' = [up EXCEPT ![g] = <<>>]
    /\ \E counted \in {FALSE, conn[g] = "closing"} :
          act' = IF g \in act.to THEN Sent(g, counted) ELSE act
    /\ UNCHANGED <<desired, hub, held, bounds, repeats, ahead, last, reused>>

-----------------------------------------------------------------------------
(* The gateway. *)

\* store.Apply: a map at or below the held version is not applied.
Apply(have, m) == IF have # NoMap /\ have.v >= m.v THEN have ELSE m

\* Bug: a snapshot is merged into what is held.
ReceiveMerging(g) ==
    /\ conn[g] \in {"up", "closing"} /\ down[g] # <<>> /\ Len(up[g]) < UpBuffer
    /\ LET frame == Head(down[g])
           after == IF frame.t = "purge" THEN NoMap ELSE Apply(held[g], frame.m)
       IN  held' = [held EXCEPT ![g] = after] /\ up' = [up EXCEPT ![g] = Append(@, after.v)]
    /\ down' = [down EXCEPT ![g] = Tail(@)]
    /\ UNCHANGED <<desired, hub, act, conn, snap, bounds, repeats, ahead, last, reused>>

\* syncClient.readLoop: a snapshot replaces what is held, a put is applied, a
\* purge removes; each is acknowledged with the version then held.
Receive(g) ==
    /\ conn[g] \in {"up", "closing"} /\ down[g] # <<>> /\ Len(up[g]) < UpBuffer
    /\ LET frame == Head(down[g])
           after == CASE frame.t = "put" -> Apply(held[g], frame.m) [] OTHER -> frame.m
       IN  /\ held' = [held EXCEPT ![g] = after]
           /\ up' = IF frame.t = "snapshot" /\ after = NoMap THEN up
                    ELSE [up EXCEPT ![g] = Append(@, after.v)]
    /\ down' = [down EXCEPT ![g] = Tail(@)]
    /\ UNCHANGED <<desired, hub, act, conn, snap, bounds, repeats, ahead, last, reused>>

\* Bug: the hub is not seeded.
RestartUnseeded ==
    /\ restarts < MaxRestarts /\ restarts' = restarts + 1
    /\ version' = stored /\ act' = Idle /\ repeats' = 0 /\ last' = NoMap /\ hub' = NoMap
    /\ conn' = [g \in Gateways |-> "down"] /\ snap' = [g \in Gateways |-> NoMap]
    /\ down' = [g \in Gateways |-> <<>>] /\ up' = [g \in Gateways |-> <<>>]
    /\ UNCHANGED <<want, stored, gone, held, pushes, drops, faults, ahead, reused>>

\* The boundary of a row whose create has not run, or failed: what a create
\* pushes next.
Awaited == IF want = NoContent /\ ~gone /\ pushes < MaxPushes THEN {pushes + 1} ELSE {}

\* EgressMaps: what the row in the store compiles to, whatever its phase but
\* Deleting; before the create there may be no row.
EgressMaps ==
    {[v |-> stored, c |-> c] : c \in Awaited \cup {want}} \ {[v |-> stored, c |-> NoContent]}

\* The control plane restarts: the rows of the store, and the hub seeded.
Restart ==
    /\ restarts < MaxRestarts /\ restarts' = restarts + 1
    /\ version' = stored /\ act' = Idle /\ repeats' = 0 /\ last' = NoMap
    /\ \/ hub' \in EgressMaps
       \/ want = NoContent /\ hub' = NoMap
    /\ conn' = [g \in Gateways |-> "down"] /\ snap' = [g \in Gateways |-> NoMap]
    /\ down' = [g \in Gateways |-> <<>>] /\ up' = [g \in Gateways |-> <<>>]
    /\ UNCHANGED <<want, stored, gone, held, pushes, drops, faults, ahead, reused>>

Act == \/ \E kind \in {"create", "update", "repush"} : PushNew(kind)
       \/ PushAgain \/ Delete \/ Commit \/ Undo \/ RepushUnwritten \/ Restored
Stream(g) == SendTo(g) \/ Join(g) \/ ReadSnapshot(g) \/ QueueSnapshot(g) \/ TakeAck(g)
             \/ Drop(g) \/ Leave(g) \/ Receive(g)
Next == Act \/ Collect \/ Broadcast \/ Answered \/ Restart \/ \E g \in Gateways : Stream(g)

Spec == Init /\ [][Next]_vars

\* A handler runs on once it began, both pumps of a stream run, and a gateway
\* dials again; nothing makes a client push, or a stream or a write fail.
Controller == Commit \/ Undo \/ RepushUnwritten \/ Restored
              \/ Collect \/ (\E g \in Gateways : SendTo(g)) \/ Broadcast \/ Answered
Connect(g) == Join(g) \/ ReadSnapshot(g) \/ QueueSnapshot(g) \/ Leave(g)

Fairness ==
    /\ WF_vars(Controller)
    /\ \A g \in Gateways : WF_vars(Connect(g)) /\ WF_vars(TakeAck(g)) /\ WF_vars(Receive(g))

FairSpec == Spec /\ Fairness

-----------------------------------------------------------------------------
(* Properties. *)

\* The rows, maps, connections and queues of pushEgress, EgressHub and the
\* gateway's store have their types, and no queue is longer than its channel.
TypeOK ==
    /\ want \in 0..MaxPushes /\ {version, stored} \subseteq Nat /\ gone \in BOOLEAN
    /\ hub \in Maps /\ last \in Maps /\ act \in Calls
    /\ conn \in [Gateways -> {"down", "joined", "ready", "up", "closing", "shut"}]
    /\ snap \in [Gateways -> Maps] /\ held \in [Gateways -> Maps]
    /\ down \in [Gateways -> Seq(Frames)] /\ up \in [Gateways -> Seq(Nat)]
    /\ \A g \in Gateways : Len(down[g]) <= OutBuffer /\ Len(up[g]) <= UpBuffer
    /\ pushes \in 0..MaxPushes /\ repeats \in 0..MaxRepeats /\ drops \in 0..MaxDrops
    /\ faults \in 0..MaxFaults /\ restarts \in 0..MaxRestarts
    /\ ahead \in BOOLEAN /\ reused \in BOOLEAN

Whole(g) == conn[g] = "up" /\ down[g] = <<>>
Quiet == act = Idle
Clean == ~ahead /\ ~reused

\* Between two acts the hub holds the boundary desired state has, whatever was
\* acknowledged, written, undone, restored or restarted; a hub a restart seeded
\* may hold that of a row whose create has not run, and none of a deleted one.
HubFollowsDesired == Quiet => hub.c \in Awaited \cup {want}

\* pushEgress: a Send that was acknowledged means a gateway holds that boundary,
\* where no frame ever overtook a snapshot and no version was numbered twice.
SendMeansHeld == Clean /\ act.at = "held" => \E g \in Gateways : held[g].c = act.m.c

\* A gateway with nothing under way holds exactly the boundary the hub follows,
\* and none once the sandbox is deleted, under the same two conditions.
GatewayFollows == \A g \in Gateways : Clean /\ Quiet /\ Whole(g) => held[g].c \in Awaited \cup {want}

\* Send and ServeGateway: what the hub reports and what a gateway enforces are
\* what desired state has.  AckedIsHeld and PurgedStaysPurged below are what the
\* comments of the code say without the two conditions.
GatewaysFollow == TypeOK /\ SendMeansHeld /\ GatewayFollows

\* Purge: a deleted sandbox's map is gone from every gateway in the end, from
\* one that was not connected when it was purged too, whatever was numbered
\* twice, but where a frame was queued ahead of the snapshot of a connection
\* that was joining: that snapshot may bring the map back (PurgedStaysPurged).
PurgeLands == gone ~> (ahead \/ \A g \in Gateways : held[g] = NoMap)

\* What EgressHub.Purge says of a gateway that is connected and up to date after
\* it: the snapshot is authoritative, so the purge landed.  A connection that
\* joined and read its snapshot before the purge takes the purge first and the
\* snapshot, which still has the map, after it.
PurgedStaysPurged == gone /\ Quiet => \A g \in Gateways : Whole(g) => held[g] = NoMap

\* A gateway acknowledges a version at or below the one it holds because it
\* holds that map.  A version the controller numbers twice, since the write of
\* the first push was refused, is acknowledged for a boundary it does not hold.
AckedIsHeld == ~ahead /\ act.at = "held" => \E g \in Gateways : held[g].c = act.m.c

=============================================================================
