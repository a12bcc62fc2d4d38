------------------------------- MODULE Gateway -------------------------------
(***************************************************************************)
(* The egress role (internal/egressd): one gateway's store of boundaries,  *)
(* the stream that fills it, and the two doors that read it.  A request is *)
(* authenticated, held to its boundary and looked up for something to      *)
(* substitute under three separate read locks, and the substitution reads  *)
(* the store again, while the stream replaces what the store holds.  The   *)
(* uses of a secret are reported back at most once in a resolution.        *)
(*                                                                         *)
(* What the control plane queues on the stream, and when, is EgressSync's; *)
(* here it sends the snapshot first and then each change, in order.  The   *)
(* substitution engine and the token endpoint are external.  The records   *)
(* the doors file of each connection decide nothing and are left out.      *)
(***************************************************************************)
EXTENDS Naturals, Sequences, FiniteSets

CONSTANTS
    Principals,   \* the sandboxes with a map
    Prints,       \* the inputs a minted token depends on (fingerprintOf)
    UseBuffer,    \* useBuffer: the uses that wait for the stream
    MaxVersion,   \* bound: versions of one principal's map
    MaxRequests,  \* bound: requests the doors take, those in a terminated tunnel included
    MaxLosses     \* bound: streams lost, and resolutions that pass

None == "none"
NoMap == [version |-> 0, cred |-> 0, print |-> None]
Maps == [version : 1..MaxVersion, cred : 1..2, print : Prints \cup {None}]

VARIABLES
    want,         \* the control plane's maps, by principal
    down,       \* the frames on the stream to the gateway
    stream,     \* "closed", "opened" (hello sent), "whole" (snapshot taken)
    maps,       \* store.maps
    byCredential, \* store.byCredential, as pairs of a credential and a principal
    resolvers,  \* store.resolvers: the inputs of the token source held, or None
    reported,   \* store.reported: the principals with a use inside the resolution
    uses,       \* syncClient.uses
    up,         \* the uses written on the stream and not yet taken
    stamped,    \* the principals whose use this control plane has taken in the resolution
    req,        \* the connection at the doors
    role,       \* "serving", "draining", "down": Gateway.Run
    past,       \* history: buffer dropped a use, uses lost with a stream
    requests,
    losses

sync == <<want, down, stream, losses>>
store == <<maps, byCredential, resolvers>>
reports == <<reported, uses, up, stamped, past>>
vars == <<want, down, stream, maps, byCredential, resolvers, reported, uses, up, stamped, req, role, past,
          requests, losses>>

\* A connection: its door, who the gate took its credential for, the token
\* source the request on it was given, what was written into that request, and,
\* for the properties, the token inputs the store has held since it was read.
NoRequest == [at |-> "idle", door |-> None, who |-> None, source |-> None, value |-> None, since |-> {}]

Init ==
    /\ want = [p \in Principals |-> NoMap]
    /\ down = <<>>
    /\ stream = "closed"
    /\ maps = [p \in Principals |-> NoMap]
    /\ byCredential = {}
    /\ resolvers = [p \in Principals |-> None]
    /\ reported = {}
    /\ uses = <<>>
    /\ up = {}
    /\ stamped = {}
    /\ req = NoRequest
    /\ role = "serving"
    /\ past = [dropped |-> {}, lost |-> {}]
    /\ requests = 0
    /\ losses = 0

--------------------------------------------------------------------------
(* The control plane (external): it numbers a principal's maps upwards,    *)
(* sends each change on an open stream, and opens with a snapshot.         *)

Tell(frame) == down' = IF stream = "closed" THEN down ELSE Append(down, frame)

Push(p) ==
    /\ want[p].version < MaxVersion
    /\ \E m \in Maps :
          /\ m.version = want[p].version + 1
          /\ want' = [want EXCEPT ![p] = m]
          /\ Tell([kind |-> "put", of |-> p, map |-> m])
    /\ UNCHANGED <<stream, losses, req, role, requests>> /\ UNCHANGED store /\ UNCHANGED reports

\* A purge keeps the number: the next map of the principal is above it.
PurgeOne(p) ==
    /\ want[p].version > 0 /\ want[p].cred # 0
    /\ want' = [want EXCEPT ![p] = [NoMap EXCEPT !.version = want[p].version]]
    /\ Tell([kind |-> "purge", of |-> p, map |-> NoMap])
    /\ UNCHANGED <<stream, losses, req, role, requests>> /\ UNCHANGED store /\ UNCHANGED reports

--------------------------------------------------------------------------
(* The store.                                                              *)

\* store.resolverFor: the token source of a map's entry, kept where its inputs
\* are the same; setLocked drops the source of an entry that is gone.
resolverFor(p, m) == IF m.print = None THEN None ELSE m.print

\* setLocked: one map, its credential indexed and the one it replaces dropped.
Credentials(p, m) == (byCredential \ {<<maps[p].cred, p>>}) \cup {<<m.cred, p>>}

setLocked(p, m) ==
    /\ maps' = [maps EXCEPT ![p] = m]
    /\ byCredential' = Credentials(p, m)
    /\ resolvers' = [resolvers EXCEPT ![p] = resolverFor(p, m)]

\* store.Apply refuses a version at or below the one it holds.
Apply(p, m) ==
    IF maps[p].version >= m.version THEN UNCHANGED store ELSE setLocked(p, m)

\* store.Remove drops a principal and what was reported of it.
Remove(p) ==
    /\ maps' = [maps EXCEPT ![p] = NoMap]
    /\ byCredential' = {x \in byCredential : x[2] # p}
    /\ resolvers' = [resolvers EXCEPT ![p] = None]
    /\ reported' = reported \ {p}

\* store.Replace: exactly the snapshot's maps, and nothing reported.
Repeated == {}

Replace(all) ==
    /\ maps' = all
    /\ byCredential' = {<<all[p].cred, p>> : p \in {x \in Principals : all[x].cred # 0}}
    /\ resolvers' = [p \in Principals |-> all[p].print]
    /\ reported' = Repeated

--------------------------------------------------------------------------
(* The stream.                                                             *)

\* Run dials, connect sends the hello, and the control plane answers with its
\* snapshot first.
Dials == stream = "closed"

Dial ==
    /\ role = "serving"
    /\ Dials
    /\ stream' = "opened"
    /\ down' = <<[kind |-> "snapshot", of |-> None,
                  map |-> [p \in Principals |-> IF want[p].cred = 0 THEN NoMap ELSE want[p]]]>>
    /\ UNCHANGED <<want, losses, req, role, requests>> /\ UNCHANGED store /\ UNCHANGED reports

\* A request in flight remembers the token inputs the store has come to hold.
Note == req' = IF req.who = None THEN req
               ELSE [req EXCEPT !.since = @ \cup {maps'[req.who].print}]

\* readLoop applies one frame.
readLoop ==
    /\ down # <<>>
    /\ down' = Tail(down)
    /\ LET f == Head(down)
       IN \/ /\ f.kind = "snapshot"
             /\ Replace(f.map)
             /\ stream' = "whole"
             /\ past' = [past EXCEPT !.lost = {}]
             /\ UNCHANGED <<uses, up, stamped>>
          \/ /\ f.kind = "put"
             /\ Apply(f.of, f.map)
             /\ UNCHANGED stream /\ UNCHANGED reports
          \/ /\ f.kind = "purge"
             /\ Remove(f.of)
             /\ UNCHANGED <<stream, uses, up, stamped, past>>
    /\ Note
    /\ UNCHANGED <<want, losses, role, requests>>

\* writeLoop writes the oldest use that waits; the control plane takes it.
writeLoop ==
    /\ stream # "closed"
    /\ uses # <<>>
    /\ up' = up \cup {Head(uses)}
    /\ uses' = Tail(uses)
    /\ UNCHANGED <<reported, stamped, past, req, role, requests>> /\ UNCHANGED sync /\ UNCHANGED store

TakeUse ==
    /\ up # {}
    /\ stamped' = stamped \cup up
    /\ up' = {}
    /\ UNCHANGED <<reported, uses, past, req, role, requests>> /\ UNCHANGED sync /\ UNCHANGED store

\* The stream ends: what was on it is lost, and the control plane that answers
\* next has taken none of this gateway's uses.
Lose ==
    /\ stream # "closed"
    /\ losses < MaxLosses
    /\ losses' = losses + 1
    /\ stream' = "closed"
    /\ down' = <<>>
    /\ past' = [past EXCEPT !.lost = @ \cup up \cup stamped]
    /\ up' = {} /\ stamped' = {}
    /\ UNCHANGED <<want, reported, uses, req, role, requests>> /\ UNCHANGED store

\* SecretLastUsedResolution passes: a use of any pair is reported again.
Resolution ==
    /\ losses < MaxLosses
    /\ reported # {}
    /\ losses' = losses + 1
    /\ reported' = {}
    /\ stamped' = {}
    /\ UNCHANGED <<want, down, stream, uses, up, past, req, role, requests>> /\ UNCHANGED store

--------------------------------------------------------------------------
(* The doors.                                                              *)

At(s) == req.at = s

\* A request arrives at a door with a credential and is authenticated: the
\* store's Principal.  One with no principal is answered 407 or 401, and one
\* whose path names no destination 400.
Principal(c) == {p \in Principals : <<c, p>> \in byCredential}

Answer == req' = NoRequest

Quiet == UNCHANGED <<role, requests>> /\ UNCHANGED sync /\ UNCHANGED store
Reads(p) == [req EXCEPT !.who = p, !.source = None, !.value = None, !.since = {maps[p].print}]

Arrive ==
    /\ role = "serving"
    /\ At("idle")
    /\ requests < MaxRequests
    /\ requests' = requests + 1
    /\ \E c \in 1..2, d \in {"proxy", "reverse"} :
          \/ Principal(c) = {} /\ Answer
          \/ d = "reverse" /\ Answer
          \/ \E p \in Principal(c) : req' = [Reads(p) EXCEPT !.at = "known", !.door = d]
    /\ UNCHANGED role /\ UNCHANGED sync /\ UNCHANGED store /\ UNCHANGED reports

\* decide: the boundary, under its own read of the store.  What the boundary
\* says of the destination is the map's; here either may be.
decide ==
    /\ At("known")
    /\ \/ /\ maps[req.who] # NoMap
          /\ req' = [req EXCEPT !.at = "admitted"]
       \/ Answer
    /\ Quiet /\ UNCHANGED reports

\* store.placed and the engine's registry: what the store would write now.
placed(p) == resolvers[p]

\* An admitted connection of the proxy door is terminated where something is
\* substituted and tunneled elsewhere; the reverse door rebuilds every request.
ServeProxy == IF placed(req.who) # None THEN "terminated" ELSE "dialing"
ServeReverse == "rewriting"

\* HasSecretFor, under a third read of the store.
HasSecretFor ==
    /\ At("admitted")
    /\ req' = [req EXCEPT !.at = IF req.door = "proxy" THEN ServeProxy ELSE ServeReverse]
    /\ Quiet /\ UNCHANGED reports

\* The engine (external): a terminated tunnel carries request after request, each
\* rewritten on its own, for as long as either side holds it open.
Terminated ==
    /\ At("terminated")
    /\ \/ /\ requests < MaxRequests
          /\ requests' = requests + 1
          /\ req' = [Reads(req.who) EXCEPT !.at = "rewriting"]
       \/ Answer /\ UNCHANGED requests
    /\ UNCHANGED role /\ UNCHANGED sync /\ UNCHANGED store /\ UNCHANGED reports

\* substitutePlaced and the engine's pass: the entry is read from the store
\* again.  A map that has gone leaves the request as it is.
substitutePlaced(p) == IF placed(p) = None THEN "sending" ELSE "resolving"

upstreamRequest ==
    /\ At("rewriting")
    /\ req' = [req EXCEPT !.at = substitutePlaced(req.who), !.source = placed(req.who)]
    /\ Quiet /\ UNCHANGED reports

\* store.used and syncClient.Use: the first use in a resolution is queued, and a
\* full buffer loses its oldest.
Queued(p) == Append(IF Len(uses) < UseBuffer THEN uses ELSE Tail(uses), p)

used(p) ==
    IF p \in reported THEN UNCHANGED reports
    ELSE /\ reported' = reported \cup {p}
         /\ uses' = Queued(p)
         /\ past' = [past EXCEPT !.dropped = IF Len(uses) < UseBuffer THEN @ ELSE @ \cup {Head(uses)}]
         /\ UNCHANGED <<up, stamped>>

\* reporting: the source that was read gives its value, and the use is reported,
\* or it fails the request, however the store moved meanwhile.
Over == IF req.door = "proxy" THEN [req EXCEPT !.at = "terminated"] ELSE NoRequest

reporting ==
    /\ At("resolving")
    /\ \/ req' = Over /\ UNCHANGED reports
       \/ req' = [req EXCEPT !.at = "sending", !.value = req.source] /\ used(req.who)
    /\ Quiet

\* A rebuilt request is sent: refused by the address the name led to, failed, or
\* answered to its end.
RoundTrip ==
    /\ At("sending")
    /\ req' = Over
    /\ Quiet /\ UNCHANGED reports

\* An untouched connection is dialed, which is refused, fails, or is made; the
\* tunnel then takes it over from the server.
tunnel ==
    /\ At("dialing")
    /\ Answer \/ req' = [req EXCEPT !.at = "tunnel"]
    /\ Quiet /\ UNCHANGED reports

\* The tunnel's two copies come to an end, or it breaks before they begin.
Finish ==
    /\ At("tunnel")
    /\ Answer
    /\ Quiet /\ UNCHANGED reports

--------------------------------------------------------------------------
(* Gateway.Run and Close.                                                  *)

Stop ==
    /\ role = "serving"
    /\ role' = "draining"
    /\ UNCHANGED <<req, requests>> /\ UNCHANGED sync /\ UNCHANGED store /\ UNCHANGED reports

\* Shutdown waits for the requests the servers still know, up to the drain
\* period; a connection that was taken over is not one of them.
TakenOver == req.at = "tunnel" \/ (req.door = "proxy" /\ req.at \in {"terminated", "rewriting", "resolving", "sending"})
InFlight == ~At("idle") /\ ~TakenOver

\* The role ends with nothing in flight, or once the drain period has passed:
\* what is still open is cut.
Close ==
    /\ role = "draining"
    /\ \/ ~InFlight /\ UNCHANGED losses
       \/ InFlight /\ losses < MaxLosses /\ losses' = losses + 1
    /\ role' = "down"
    /\ Answer
    /\ UNCHANGED <<want, down, stream, requests>> /\ UNCHANGED store /\ UNCHANGED reports

Doors == decide \/ HasSecretFor \/ Terminated \/ upstreamRequest \/ reporting \/ RoundTrip \/ tunnel

Next ==
    \/ \E p \in Principals : Push(p) \/ PurgeOne(p)
    \/ Dial \/ readLoop \/ writeLoop \/ TakeUse \/ Lose \/ Resolution
    \/ Arrive \/ Doors \/ Finish \/ Stop \/ Close

\* The stream's loops, the doors' handlers and Run take their steps; a
\* destination answers or its connection ends.
Fairness ==
  /\ WF_vars(Dial) /\ WF_vars(readLoop) /\ WF_vars(writeLoop) /\ WF_vars(TakeUse)
  /\ WF_vars(Doors) /\ WF_vars(Finish) /\ WF_vars(Close)

Spec == Init /\ [][Next]_vars /\ Fairness

--------------------------------------------------------------------------
\* The store's shape, and its index agrees: a credential leads to a
\* principal exactly while the principal's map carries it, through any order
\* of Apply, Remove and Replace.
TypeOK ==
    /\ \A p \in Principals : maps[p] \in Maps \cup {NoMap}
    /\ byCredential = {<<maps[p].cred, p>> : p \in {x \in Principals : maps[x] # NoMap}}
    /\ Len(uses) <= UseBuffer

\* What is written into a request comes from a token source the store held
\* after the request was read: however the map is replaced or purged between
\* the gate's reads, the substitution's and the mint, and however long a
\* terminated tunnel stays open, no value older than the request goes out
\* (store.resolverFor, store.placed, the engine's registry).
ValueIsCurrent == req.value # None => req.value \in req.since

\* A use that is held back because one was reported inside the resolution
\* really is known or on its way: it waits, is on the stream, was taken by the
\* control plane of this stream, fell out of a full buffer, or went with a
\* stream whose successor's snapshot has not arrived yet (store.Replace).
HeldBackIsKnown ==
    \A p \in reported : \/ p \in up \cup stamped \cup past.dropped \cup past.lost
                        \/ \E i \in 1..Len(uses) : uses[i] = p

\* A gateway that lost its stream is whole again in the end, and holds exactly
\* the maps the control plane has, unless it is stopped (syncClient.Run).
HoldsWanted == \A p \in Principals : maps[p] = IF want[p].cred = 0 THEN NoMap ELSE want[p]
BecomesWhole == (stream = "closed") ~> (role # "serving" \/ (stream = "whole" /\ HoldsWanted))

=============================================================================
