------------------------------ MODULE Boundary ------------------------------
\* Applying sandbox manifests: the resolver that turns what a caller sent into
\* the desired state, and the requests that run it against one owner's tree.
EXTENDS Naturals, FiniteSets, Sequences

-----------------------------------------------------------------------------
(***************************************************************************)
(* The sandbox manifest's resolver (package manifest): the stages that     *)
(* turn what a caller sent into the desired state the controller stores.   *)
(* A manifest is a record of the fields a rule tells apart; a field left   *)
(* out is Unset, a quantity and a duration are small numbers, and Never is *)
(* the duration that never ends.  A stage answers the code of its refusal, *)
(* or Ok.  o is the options of one apply: the environment, the operator's  *)
(* defaults and ceilings, the sandbox the update is against (existing) or  *)
(* the one spawning (parent), who asks, and the clock.                     *)
(***************************************************************************)

CONSTANTS
  Names,        \* the host names
  Below,        \* <<a, b>> in Below: a is a name under the domain b
  Never         \* a duration past every other

Unset == 0

None == [none |-> TRUE]

Ok == "ok"

Given(x) == x # None

HostPatternCovers(outer, inner) ==
  CASE ~outer.wild /\ ~inner.wild -> outer.name = inner.name
    [] outer.wild /\ ~inner.wild  -> <<inner.name, outer.name>> \in Below
    [] outer.wild /\ inner.wild   -> inner.name = outer.name
                                       \/ <<inner.name, outer.name>> \in Below
    [] OTHER                      -> FALSE

HostCovers(patterns, inner) == \E p \in patterns : HostPatternCovers(p, inner)

hostsOverlap(a, b) == HostPatternCovers(a, b) \/ HostPatternCovers(b, a)

EgressModeRank(m) == CASE m = "open" -> 0 [] m = "allowlist" -> 1 [] m = "none" -> 2

Egress(mode, allow, deny) == [mode |-> mode, allow |-> allow, deny |-> deny]

(* A host blocked below a wildcard drops the whole wildcard.               *)
unblocked(patterns, blocked) == {p \in patterns : \A b \in blocked : ~hostsOverlap(b, p)}

Listed(kept) == IF kept = {} THEN Egress("none", {}, {}) ELSE Egress("allowlist", kept, {})

narrowToList(asked, host) ==
  CASE asked.mode = "allowlist" -> Listed({p \in asked.allow : HostCovers(host.hosts, p)})
    [] asked.mode = "open"      -> Listed({h \in host.hosts : ~HostCovers(asked.deny, h)})
    [] OTHER                    -> Egress("none", {}, {})

narrowToOpen(asked, host) ==
  CASE asked.mode = "allowlist" -> Listed(unblocked(asked.allow, host.blocked))
    [] asked.mode = "open"      -> Egress("open", {}, asked.deny \cup host.blocked)
    [] OTHER                    -> Egress("none", {}, {})

NarrowEgress(asked, host) ==
  CASE host.mode = "allowlist" -> narrowToList(asked, host)
    [] host.mode = "open"      -> narrowToOpen(asked, host)
    [] OTHER                   -> Egress("none", {}, {})

(* What every live worker's host allows; a host of mode "" reports none.   *)
HostNetworkOf(hosts) ==
  LET told   == {h \in hosts : h.mode # ""}
      lists  == {h \in told : h.mode = "allowlist"}
      opens  == {h \in told : h.mode = "open"}
      all(S) == {x \in UNION {h.hosts : h \in S} : \A h \in S : x \in h.hosts}
      blocks == UNION {h.blocked : h \in opens}
  IN CASE told = {}                              -> None
       [] \E h \in told : h.mode = "none"        -> [mode |-> "none", hosts |-> {}, blocked |-> {}]
       [] lists # {} -> [mode |-> "allowlist", hosts |-> unblocked(all(lists), blocks), blocked |-> {}]
       [] OTHER      -> [mode |-> "open", hosts |-> all(opens), blocked |-> blocks]

-----------------------------------------------------------------------------
(* Stage 1: structure.                                                     *)

validateNetwork(e) ==
  CASE e.mode = "allowlist" /\ e.deny # {}                 -> "exclusive_fields"
    [] e.mode = "open" /\ e.allow # {}                     -> "exclusive_fields"
    [] e.mode = "none" /\ (e.allow # {} \/ e.deny # {})    -> "exclusive_fields"
    [] e.mode = "" /\ e.allow # {} /\ e.deny # {}          -> "exclusive_fields"
    [] OTHER                                               -> Ok

(* Stage 2: what a field left out becomes.                                 *)

Least(a, b) == IF a < b THEN a ELSE b

lowerQuantity(a, b) ==
  CASE b = Unset -> a
    [] a = Unset -> b
    [] OTHER     -> Least(a, b)

ceilingOf(max, amount) == IF max # Unset THEN max ELSE amount

Grown(b, o) ==
  LET bound   == IF Given(o.parent) THEN ceilingOf(o.parent.spec.max, o.parent.spec.mem) ELSE Unset
      ceiling == IF b.max # Unset THEN b.max ELSE lowerQuantity(o.defaults.ceiling, bound)
  IN [b EXCEPT !.mem = lowerQuantity(o.defaults.start, ceiling), !.max = ceiling]

sizeMemory(b, o) ==
  CASE b.mem # Unset \/ ~o.env.autosize -> b
    [] Given(o.existing) ->
         IF o.existing.spec.max = Unset THEN b
         ELSE [b EXCEPT !.mem = o.existing.spec.mem,
                        !.max = IF @ = Unset THEN o.existing.spec.max ELSE @]
    [] o.defaults.start = Unset \/ o.defaults.ceiling = Unset -> b
    [] OTHER -> Grown(b, o)

defaultQuantity(b, o) == [b EXCEPT !.mem = IF @ = Unset THEN o.defaults.mem ELSE @]

defaultDuration(b, o) ==
  [b EXCEPT !.ttl = IF @ = Unset THEN o.defaults.ttl ELSE @,
            !.stop = IF @ = Unset THEN o.defaults.stop ELSE @]

(* b is as the caller sent it, d with the operator's durations filled in.  *)
defaultChildTTL(b, d, o) ==
  LET left == IF Given(o.parent) /\ o.parent.st.expires # Never /\ o.parent.st.expires > o.now
              THEN o.parent.st.expires - o.now ELSE Unset
  IN IF b.ttl # Unset \/ left = Unset \/ (d.ttl # Unset /\ d.ttl <= left) THEN d
     ELSE [d EXCEPT !.ttl = left,
                    !.stop = IF b.stop # Unset \/ (@ # Unset /\ @ <= left) THEN @ ELSE left]

defaultQueue(b, o) ==
  [b EXCEPT !.queue = IF o.env.queues = {} \/ @ # "" THEN @ ELSE o.env.queue]

Declared(e) == e.mode # "" \/ e.allow # {} \/ e.deny # {}

inheritEgress(b, o) ==
  IF Given(o.parent) /\ ~Declared(b.egress) /\ b.secrets = {}
  THEN [b EXCEPT !.egress = o.parent.spec.egress] ELSE b

inferEgressMode(b) ==
  [b EXCEPT !.egress.mode =
     CASE @ # ""               -> @
       [] b.egress.allow # {}  -> "allowlist"
       [] b.egress.deny # {}   -> "open"
       [] b.secrets # {}       -> "allowlist"
       [] OTHER                -> "open"]

defaulting(b, o) ==
  LET named == [b EXCEPT !.env = IF @ = "" THEN o.env.name ELSE @]
      sized == defaultQuantity(sizeMemory(named, o), o)
      lived == defaultChildTTL(b, defaultDuration(sized, o), o)
      image == [lived EXCEPT !.image = IF @ = "" /\ o.env.images THEN o.defaults.image ELSE @]
  IN inferEgressMode(inheritEgress(defaultQueue(image, o), o))

imageRule(d, o) ==
  CASE ~o.env.images /\ d.image # "" -> "capability_unsupported"
    [] o.env.images /\ d.image = ""  -> "missing_field"
    [] OTHER                         -> Ok

(* Stage 4: the objects a manifest names.                                  *)

refuseSharedScopes(secrets, scope) ==
  \E s, t \in secrets : s # t /\ \E a \in scope[s], b \in scope[t] : hostsOverlap(a, b)

references(d, o) ==
  CASE d.secrets \ o.secrets # {}                -> "not_found"
    [] refuseSharedScopes(d.secrets, o.scope)    -> "secret_host_conflict"
    [] OTHER                                     -> Ok

(* The mounts of a sandbox that exists are not looked up again.            *)
volumeReferences(d, o) ==
  CASE d.vols = {} \/ (Given(o.existing) /\ o.existing.spec.vols = d.vols) -> Ok
    [] ~o.env.volumes                                         -> "capability_unsupported"
    [] \E m \in d.vols : m.vol \notin o.volumes               -> "not_found"
    [] \E m \in d.vols : m.vol \in o.shared /\ ~m.ro          -> "volume_busy"
    [] OTHER                                                  -> Ok

(* Stage 5: the rules over the defaulted manifest.                         *)

ceilingFloor(d) == d.max # Unset /\ d.mem # Unset /\ d.max < d.mem

ttlCeiling(d, o) == d.ttl # Unset /\ o.ceilings.ttl # Unset /\ d.ttl > o.ceilings.ttl

priorityCeiling(d, o) == o.ceilings.priority > 0 /\ d.priority > o.ceilings.priority

ceilings(d, o) ==
  \/ o.ceilings.mem # Unset /\ (d.mem > o.ceilings.mem \/ d.max > o.ceilings.mem)
  \/ ttlCeiling(d, o)
  \/ priorityCeiling(d, o)

schedulingChanges(was, now) == was.queue # now.queue \/ was.priority # now.priority

immutable(was, now) ==
  \/ was.image # now.image
  \/ was.env # now.env
  \/ was.mesh # now.mesh
  \/ schedulingChanges(was, now)

ceilingHeld(existing, d) ==
  LET bound == ceilingOf(d.max, d.mem)
  IN existing.st.held # Unset /\ bound # Unset /\ bound < existing.st.held

narrowingSecrets(was, now) == now.secrets \ was.secrets # {}

meshNarrowing(was, now) == now.budget > was.budget \/ now.depth > was.depth

(* Each list is compared where both sides are of the mode that reads it.   *)

narrowing(was, now) ==
  LET w == was.egress n == now.egress
  IN \/ EgressModeRank(n.mode) < EgressModeRank(w.mode)
     \/ w.mode = "allowlist" /\ n.mode = "allowlist" /\ \E p \in n.allow : ~HostCovers(w.allow, p)
     \/ w.mode = "open" /\ n.mode = "open" /\ \E p \in w.deny : ~HostCovers(n.deny, p)
     \/ narrowingSecrets(was, now)
     \/ meshNarrowing(was, now)

autoStopWithinTTL(d) == d.stop = Unset \/ d.ttl = Unset \/ d.stop = Never \/ d.stop <= d.ttl

semantic(d, o) ==
  LET was == IF Given(o.existing) THEN o.existing.spec ELSE d
  IN CASE ceilingFloor(d)                                   -> "invalid_field"
       [] ceilings(d, o)                                    -> "ceiling_exceeded"
       [] immutable(was, d)                                 -> "immutable_field"
       [] Given(o.existing) /\ ceilingHeld(o.existing, d)   -> "ceiling_exceeded"
       [] Given(o.existing) /\ o.workload /\ narrowing(was, d) -> "boundary_widened"
       [] ~autoStopWithinTTL(d)                             -> "invalid_field"
       [] OTHER                                             -> Ok

(* Stage 6: a child against its parent's spec and status.                  *)

volumeBoundary(d, p) ==
  \E m \in d.vols : ~ \E h \in p.vols : h.vol = m.vol /\ (m.ro \/ ~h.ro)

ttlOutlivesParent(ttl, expires, now) ==
  expires # Never /\ ttl # Unset /\ (ttl = Never \/ now + ttl > expires)

EgressOutside(c, p) ==
  \/ EgressModeRank(c.mode) < EgressModeRank(p.mode)
  \/ c.mode = "allowlist" /\ p.mode = "allowlist" /\ \E x \in c.allow : ~HostCovers(p.allow, x)
  \/ c.mode = "allowlist" /\ p.mode = "open" /\ \E x \in c.allow : HostCovers(p.deny, x)
  \/ c.mode = "open" /\ p.mode = "open" /\ \E x \in p.deny : ~HostCovers(c.deny, x)

SizeOutside(d, p) ==
  LET above == ceilingOf(p.max, p.mem) IN above # Unset /\ (d.mem > above \/ d.max > above)

SpawnOutside(d, st) ==
  \/ st.depth = 0 \/ d.depth > st.depth - 1
  \/ st.budget > st.used /\ d.budget > st.budget - st.used - 1

boundary(d, parent, now) ==
  \/ EgressOutside(d.egress, parent.spec.egress)
  \/ d.secrets \ parent.spec.secrets # {}
  \/ volumeBoundary(d, parent.spec)
  \/ SizeOutside(d, parent.spec)
  \/ ttlOutlivesParent(d.ttl, parent.st.expires, now)
  \/ SpawnOutside(d, parent.st)
  \/ d.env # parent.spec.env
  \/ d.mesh

(* Stage 7: what the environment can serve.                                *)

ceilingCapability(d, o) == d.max # Unset /\ ~o.env.autosize

meshCapability(d, o) == d.mesh /\ ~o.env.mesh

volumeCapabilities(d, o) == Given(o.existing) /\ o.existing.spec.vols # d.vols

schedulingCapability(d, o) ==
  IF o.env.queues = {} THEN d.queue # "" \/ d.priority # 0 ELSE d.queue \notin o.env.queues

egressCapability(d, o) == o.env.modes # {} /\ d.egress.mode \notin o.env.modes

capabilities(d, o) ==
  \/ Given(o.existing) /\ d.mem # o.existing.spec.mem /\ ~o.env.resize
  \/ ceilingCapability(d, o)
  \/ meshCapability(d, o)
  \/ volumeCapabilities(d, o)
  \/ schedulingCapability(d, o)
  \/ HostNetworkOf(o.env.hosts) = None /\ egressCapability(d, o)

(* A host network narrows the egress, after the boundary was compared.     *)
egressOnHost(d, o) ==
  LET host == HostNetworkOf(o.env.hosts)
  IN IF host = None THEN d ELSE [d EXCEPT !.egress = NarrowEgress(@, host)]

Refusals(b, d, o) ==
  << validateNetwork(b.egress),
     IF b.env \in {"", o.env.name} THEN Ok ELSE "not_found",
     imageRule(d, o), references(d, o), volumeReferences(d, o), semantic(d, o),
     IF Given(o.parent) /\ boundary(d, o.parent, o.now) THEN "boundary_exceeded" ELSE Ok,
     IF capabilities(d, o) THEN "capability_unsupported" ELSE Ok >>

Outcome(b, d, o) ==
  LET refused == SelectSeq(Refusals(b, d, o), LAMBDA code : code # Ok)
  IN [code |-> IF refused = <<>> THEN Ok ELSE Head(refused), spec |-> egressOnHost(d, o)]

Resolve(b, o) == CHOOSE out \in {Outcome(b, d, o) : d \in {defaulting(b, o)}} : TRUE

-----------------------------------------------------------------------------
(***************************************************************************)
(* Applying sandbox manifests to one owner's tree: PUT /v1/sandboxes/name  *)
(* and POST /v1/sandboxes (internal/api), the resolver they run (Manifest) *)
(* and the controller's Create, Spawn and Update that store what it        *)
(* answers.  A request looks the name up, resolves the body against what   *)
(* it read, and writes under the controller's lock: other requests, the    *)
(* clock and the sandboxes themselves move between those steps.            *)
(*                                                                         *)
(* who is the caller: the owner, or the workload of a sandbox, named by    *)
(* its id.  past records which sandboxes were last written from a read     *)
(* something overtook, or by a person, which the properties except.        *)
(***************************************************************************)

CONSTANTS
  Ids, Clients, Owner,
  Worlds,       \* the environments, defaults and bodies looked at
  MaxRequests   \* requests made in all

VARIABLES world, objs, req, now, past

vars == <<world, objs, req, now, past>>

W == Worlds[world]

Live == {i \in Ids : objs[i] # None}

Children(i) == {k \in Live : objs[k].st.parent = i}

Idle == [at |-> "idle"]

Options(existing, parent, who, t) ==
  [env |-> W.env, defaults |-> W.defaults, ceilings |-> W.ceilings, secrets |-> W.secrets,
   scope |-> W.scope, volumes |-> W.volumes, shared |-> W.shared,
   existing |-> existing, parent |-> parent, workload |-> who # Owner, now |-> t]

(* What a caller finds under a name, which is its owner's namespace.       *)
Named(name) == {i \in Live : objs[i].name = name}

(* A request that was answered, with a refusal or with what it wrote.      *)
Answer(c) == req' = [req EXCEPT ![c] = Idle]

Init ==
  /\ world \in DOMAIN Worlds
  /\ objs = [i \in Ids |-> None]
  /\ req = [c \in Clients |-> Idle]
  /\ now = 0
  /\ past = [asked |-> 0, loose |-> {}, forced |-> {}, updated |-> {}]

(* A caller applies a body: the lookup that tells an update from a create. *)
apply(c) ==
  /\ req[c].at = "idle" /\ past.asked < MaxRequests
  /\ \E who \in {Owner} \cup {i \in Live : objs[i].phase = "running"}, b \in W.bodies, wait \in W.waits :
       req' = [req EXCEPT ![c] =
         [at |-> "looked", who |-> who, name |-> b.name, body |-> b.body, wait |-> wait,
          target |-> IF Named(b.name) = {} THEN 0 ELSE CHOOSE i \in Named(b.name) : TRUE,
          existing |-> IF Named(b.name) = {} THEN None ELSE objs[CHOOSE i \in Named(b.name) : TRUE]]]
  /\ past' = [past EXCEPT !.asked = @ + 1]
  /\ UNCHANGED <<world, objs, now>>

(* POST names no sandbox to look up: its body is always a create.          *)
create(c) ==
  /\ W.posts /\ req[c].at = "idle" /\ past.asked < MaxRequests
  /\ \E who \in {Owner} \cup {i \in Live : objs[i].phase = "running"}, b \in W.bodies :
       req' = [req EXCEPT ![c] = [at |-> "looked", who |-> who, name |-> b.name, body |-> b.body,
                                  wait |-> FALSE, target |-> 0, existing |-> None]]
  /\ past' = [past EXCEPT !.asked = @ + 1]
  /\ UNCHANGED <<world, objs, now>>

Decided(r, parent) ==
  {IF out.code # Ok THEN Idle
   ELSE [at |-> "decided", who |-> r.who, name |-> r.name, body |-> r.body, wait |-> r.wait,
         target |-> r.target, existing |-> r.existing, parent |-> parent, spec |-> out.spec] :
     out \in {Resolve(r.body, Options(r.existing, parent, r.who, now))}}

(* A workload's own sandbox is read for the resolver: a caller that is     *)
(* gone is refused, and only a create is held to it as the parent.         *)
resolve(c) ==
  /\ req[c].at = "looked"
  /\ LET r == req[c]
         gone == r.who # Owner /\ r.who \notin Live
         parent == IF r.who = Owner \/ r.existing # None \/ gone THEN None ELSE objs[r.who]
     IN \E out \in IF gone THEN {Idle} ELSE Decided(r, parent) :
          req' = [req EXCEPT ![c] = out]
  /\ UNCHANGED <<world, objs, now, past>>

-----------------------------------------------------------------------------
(* The controller, under its lock.                                         *)

(* A live child the updated parent would leave outside.                    *)

narrowingRefusal(i, spec) ==
  \E k \in Children(i) : boundary(objs[k].spec, [objs[i] EXCEPT !.spec = spec], now)

(* What status.resources becomes: no ceiling, no size of its own.          *)
Resized(st, spec) ==
  [st EXCEPT !.held = CASE spec.max = Unset -> Unset
                        [] @ = Unset        -> spec.mem
                        [] OTHER            -> @]

Settled(r, i) == IF r.wait THEN [at |-> "waiting", target |-> i] ELSE Idle

(* A write from a read that something overtook, and one by a person.       *)
Overtaken(r) == objs[r.target].spec # r.existing.spec \/ objs[r.target].st # r.existing.st

Update(c) ==
  /\ req[c].at = "decided" /\ req[c].existing # None
  /\ LET r == req[c] i == r.target
     IN IF i \notin Live THEN Answer(c) /\ UNCHANGED <<objs, past>>
        ELSE IF narrowingRefusal(i, r.spec) THEN Answer(c) /\ UNCHANGED <<objs, past>>
        ELSE /\ objs' = [objs EXCEPT ![i].spec = r.spec, ![i].body = r.body, ![i].st = Resized(@, r.spec)]
             /\ req' = [req EXCEPT ![c] = Settled(r, i)]
             /\ past' = [past EXCEPT !.loose = IF Overtaken(r) THEN @ \cup {i} ELSE @,
                                     !.forced = IF r.who = Owner THEN @ \cup {i} ELSE @,
                                     !.updated = @ \cup {i}]
  /\ UNCHANGED <<world, now>>

(* The tree position and the two axes a new sandbox is given.              *)
spawnStatus(spec, who) ==
  [parent |-> who, expires |-> Never, budget |-> spec.budget, depth |-> spec.depth, used |-> 0,
   held |-> IF spec.max = Unset THEN Unset ELSE spec.mem]

(* The debit is judged by the parent as the request read it.               *)
debit(r) ==
  LET used == IF r.who \in Live THEN objs[r.who].st.used ELSE 0 IN used < r.parent.spec.budget

Free == Ids \ Live

Taken(r) == Named(r.name) # {}

Spawn(c) ==
  /\ req[c].at = "decided" /\ req[c].existing = None /\ Free # {}
  /\ LET r == req[c]
         i == CHOOSE k \in Free : \A m \in Free : k <= m
         child == r.parent # None
         under == IF child THEN r.who ELSE 0
         made == [name |-> r.name, spec |-> r.spec, body |-> r.body, phase |-> "starting",
                  st |-> spawnStatus(r.spec, under)]
     IN CASE Taken(r)              -> Answer(c) /\ UNCHANGED <<objs, past>>
          [] child /\ ~debit(r)    -> Answer(c) /\ UNCHANGED <<objs, past>>
          [] OTHER ->
               /\ objs' = [k \in Ids |-> CASE k = i -> made
                                           [] k = under /\ under \in Live -> [objs[k] EXCEPT !.st.used = @ + 1]
                                           [] OTHER -> objs[k]]
               /\ req' = [req EXCEPT ![c] = Settled(r, i)]
               /\ past' = [past EXCEPT
                    !.loose = IF child /\ (under \notin Live \/ objs[under].spec # r.parent.spec)
                              THEN @ \cup {i} ELSE @ \ {i},
                    !.forced = @ \ {i}, !.updated = @ \ {i}]
  /\ UNCHANGED <<world, now>>

(* A held create answers once the sandbox has left the phases of a create, *)
(* is gone, or its bound has passed.                                       *)

awaitStart(c) ==
  /\ req[c].at = "waiting"
  /\ LET i == req[c].target
     IN \/ i \notin Live /\ Answer(c)
        \/ i \in Live /\ objs[i].phase # "starting" /\ Answer(c)
        \/ Answer(c)
  /\ UNCHANGED <<world, objs, now, past>>

-----------------------------------------------------------------------------
(* The sandboxes: one comes up and has an expiry, grows inside its         *)
(* ceiling, and is deleted with the tree below it.                         *)

Start(i) ==
  /\ i \in Live /\ objs[i].phase = "starting"
  /\ objs' = [objs EXCEPT ![i].phase = "running",
                          ![i].st.expires = IF objs[i].spec.ttl \in {Unset, Never} THEN Never
                                            ELSE now + objs[i].spec.ttl]
  /\ UNCHANGED <<world, req, now, past>>

Grow(i) ==
  /\ i \in Live /\ objs[i].st.held # Unset /\ objs[i].st.held < objs[i].spec.max
  /\ objs' = [objs EXCEPT ![i].st.held = @ + 1]
  /\ UNCHANGED <<world, req, now, past>>

Under(i) == {k \in Live : k = i \/ objs[k].st.parent = i
                            \/ (objs[k].st.parent \in Live /\ objs[objs[k].st.parent].st.parent = i)}

Expire(i) ==
  /\ i \in Live /\ objs[i].st.expires <= now
  /\ objs' = [k \in Ids |-> IF k \in Under(i) THEN None ELSE objs[k]]
  /\ past' = [past EXCEPT !.loose = @ \ Under(i), !.forced = @ \ Under(i), !.updated = @ \ Under(i)]
  /\ UNCHANGED <<world, req, now>>

Tick == now < W.maxNow /\ now' = now + 1 /\ UNCHANGED <<world, objs, req, past>>

Next ==
  \/ \E c \in Clients : apply(c) \/ create(c) \/ resolve(c) \/ Update(c) \/ Spawn(c) \/ awaitStart(c)
  \/ \E i \in Ids : Start(i) \/ Grow(i) \/ Expire(i)
  \/ Tick

Spec == Init /\ [][Next]_vars

-----------------------------------------------------------------------------
(* The concrete names a boundary reaches: the reference the pattern        *)
(* algebra is compared with.                                               *)
Matches(p, n) == IF p.wild THEN <<n, p.name>> \in Below ELSE n = p.name

Reach(e) ==
  CASE e.mode = "none"      -> {}
    [] e.mode = "allowlist" -> {n \in Names : \E p \in e.allow : Matches(p, n)}
    [] e.mode = "open"      -> {n \in Names : ~ \E p \in e.deny : Matches(p, n)}

Sized(s) == ceilingOf(s.max, s.mem)

(* Objects are whole: a parent is an id, a size is inside its ceiling's    *)
(* field and a request is at a step of its handler.                        *)
TypeOK ==
  /\ \A i \in Live : /\ objs[i].st.parent \in Ids \cup {0}
                     /\ objs[i].spec.egress.mode \in {"open", "allowlist", "none"}
                     /\ objs[i].phase \in {"starting", "running"}
                     /\ Cardinality(Named(objs[i].name)) = 1
  /\ \A c \in Clients : req[c].at \in {"idle", "looked", "decided", "waiting"}
  /\ past.asked \in 0..MaxRequests

(* Every child is a subset of its parent (docs/manifest.md): the names it  *)
(* reaches where both have one kind of list, its secrets, its volumes and  *)
(* its size.  Excepted are a child whose spawn or update was resolved      *)
(* against a parent or a self that changed before the write, and one a     *)
(* person updated, which the resolver holds to no parent; the size of one  *)
(* anyone updated is held to no parent either.                             *)
ChildWithin ==
  \A k \in Live \ (past.loose \cup past.forced) :
    objs[k].st.parent \in Live =>
      LET c == objs[k].spec p == objs[objs[k].st.parent].spec
      IN /\ c.egress.mode = p.egress.mode \/ p.egress.mode = "allowlist" => Reach(c.egress) \subseteq Reach(p.egress)
         /\ c.secrets \subseteq p.secrets
         /\ {m.vol : m \in c.vols} \subseteq {m.vol : m \in p.vols}
         /\ k \notin past.updated /\ Sized(p) # Unset => Sized(c) <= Sized(p)

(* Reading a sandbox back and applying what was read changes nothing and   *)
(* is accepted, whoever wrote it, as long as it has no children and its    *)
(* last write was not overtaken.                                           *)
ReadBackKept ==
  \A i \in Live \ past.loose :
    LET o == Options(objs[i], None, Owner, now) out == Resolve(objs[i].spec, o)
    IN Children(i) = {} => out.code = Ok /\ out.spec = objs[i].spec

(* Applying the same body again changes nothing: what defaulting filled in *)
(* is kept (sizeMemory), for a sandbox with no parent.                     *)
SameBodyKept ==
  \A i \in Live \ past.loose :
    LET out == Resolve(objs[i].body, Options(objs[i], None, Owner, now))
    IN objs[i].st.parent = 0 => out.code = Ok /\ out.spec = objs[i].spec

(* A sandbox's workload never widens it: a write that is the workload's    *)
(* and that nothing overtook reaches no more names where the kind of list  *)
(* is the same, mounts no new secret and raises neither spawn axis.        *)
WorkloadNarrows ==
  [][\A i \in Ids : \A c \in Clients :
       LET r == req[c]
       IN /\ r.at = "decided" /\ req'[c] # r /\ r.existing # None /\ r.who # Owner /\ r.target = i
          /\ i \in Live /\ objs'[i] # objs[i] /\ ~Overtaken(r)
          => LET was == objs[i].spec is == objs'[i].spec
             IN /\ was.egress.mode = is.egress.mode => Reach(is.egress) \subseteq Reach(was.egress)
                /\ is.secrets \subseteq was.secrets
                /\ is.budget <= was.budget /\ is.depth <= was.depth]_vars

(* What a driver cannot change is never changed, though every update is    *)
(* resolved against an earlier read.                                       *)
Immutable ==
  [][\A i \in Ids : objs[i] # None /\ objs'[i] # None =>
       /\ objs'[i].spec.image = objs[i].spec.image
       /\ objs'[i].spec.vols = objs[i].spec.vols
       /\ objs'[i].spec.env = objs[i].spec.env]_vars

=============================================================================
