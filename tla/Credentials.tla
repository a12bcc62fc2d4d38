---------------------------- MODULE Credentials ----------------------------
\* What the control plane hands out and takes back: the secrets substituted into
\* requests, and the keys of an environment.
EXTENDS Naturals, FiniteSets, FiniteSetsExt

-----------------------------------------------------------------------------
(***************************************************************************)
(* The Secret kind and the boundary a sandbox that mounts one is given:    *)
(* the API's reads and writes (internal/api/secrets.go), the controller's  *)
(* collection and its compile (controller/secret.go, egress.go, Update),   *)
(* the rows (internal/store/secret.go).                                    *)
(*                                                                         *)
(* One owner, one name, one sandbox that may mount it.  A request reads    *)
(* the Secret under the controller's lock, is authorized without it, and   *)
(* acts under it again.  Each act may meet a store, a gateway or a driver  *)
(* that fails.  A Secret's value is told by its id and its version.        *)
(***************************************************************************)

CONSTANTS Ids, Callers, Worlds, MaxActs, MaxFaults, MaxTime

VARIABLES world, row, mem, sb, sbrow, gw, drv, call, now, left, past

vars == <<world, row, mem, sb, sbrow, gw, drv, call, now, left, past>>

Injects == {"header", "query"}
NoEntry == [id |-> "none", ver |-> 0]
NoEnv == [ph |-> 0, companion |-> "none"]
NoSecret == [live |-> FALSE, ver |-> 0, inject |-> "none", used |-> 0]
Unbound == [set |-> FALSE, id |-> "none", ph |-> 0]

-----------------------------------------------------------------------------
(* The compile, as functions of a sandbox's object and the collection.     *)

\* secretIDLocked: the one live Secret of the name, if any.
IdOf(m) == IF \E i \in Ids : m[i].live THEN CHOOSE i \in Ids : m[i].live ELSE "none"

\* bindMount: a binding the object already has is kept; a new one is resolved by
\* name, under a fresh placeholder.
bindMount(s, m) ==
  IF s.mount THEN IF s.bound.set THEN s.bound ELSE [set |-> TRUE, id |-> IdOf(m), ph |-> s.ph + 1]
  ELSE Unbound

\* compileEgress and secretViews: the object numbered and bound again.
Compiled(s, m) ==
  LET b == bindMount(s, m) IN
  [s EXCEPT !.bound = b, !.ver = @ + 1, !.ph = IF b.set /\ ~s.bound.set THEN @ + 1 ELSE @]

Held(s, m) == s.bound.set /\ s.bound.id # "none" /\ m[s.bound.id].live

\* The entry of the map: the value the store opens for the id bound.
EntryOf(s, m, r) ==
  IF Held(s, m) /\ r[s.bound.id].live THEN [id |-> s.bound.id, ver |-> r[s.bound.id].ver] ELSE NoEntry

\* The environment: the placeholder, and the companion of a Secret that is held.
EnvOf(s, m) ==
  IF s.mount THEN [ph |-> s.bound.ph, companion |-> IF Held(s, m) THEN m[s.bound.id].inject ELSE "none"]
  ELSE NoEnv

MapOf(s, m, r) == [up |-> TRUE, ver |-> s.ver, entry |-> EntryOf(s, m, r)]

\* carryEnv: the driver is handed an environment that is not the recorded one.
Carries(s, env) == s.digest # env

\* carryBoundary: a driver that confines the workload itself is handed a boundary
\* that changed.
carryBoundary(mode) == world.local /\ mode # sb.mode

\* WriteSecret: the object as it is now, its value's version with it.
WriteSecret(r, i, obj) == [r EXCEPT ![i] = obj]
\* RemoveSecret: the row and its value.  The number of its value is not used again.
RemoveSecret(r, i) == [r EXCEPT ![i] = [NoSecret EXCEPT !.ver = r[i].ver]]

-----------------------------------------------------------------------------
(* Faults: which of an act's steps fail, within the budget.                *)

Faults == {F \in SUBSET {"store", "send", "driver", "persist"} : Cardinality(F) <= left.faults}
Spend(F) == left' = [left EXCEPT !.acts = @ - 1, !.faults = @ - Cardinality(F)]

\* A gateway that is connected takes a map past the one it holds.  A send that failed may have
\* arrived.
Sent(g, m, F, arrived) == IF g.up /\ m.ver > g.ver /\ ("send" \notin F \/ arrived) THEN m ELSE g

\* repushMounts: every sandbox bound to the Secret is compiled, sent, and handed
\* its environment; then it is written.  Nothing here fails the act.
repushMounts(id, m, r, F, arrived) ==
  LET bound == sb.bound.set /\ sb.bound.id = id
      s == Compiled(sb, m)
      env == EnvOf(s, m)
      took == Carries(s, env) /\ "driver" \notin F
      t == IF took THEN [s EXCEPT !.digest = env] ELSE s
  IN  IF ~bound THEN UNCHANGED <<sb, sbrow, gw, drv>>
      ELSE /\ gw' = Sent(gw, MapOf(s, m, r), F, arrived)
           /\ drv' = IF took THEN [drv EXCEPT !.env = env] ELSE drv
           /\ sb' = IF "persist" \in F THEN sb ELSE t
           /\ sbrow' = IF "persist" \in F THEN sbrow ELSE t

Marked(F, was) ==
  past' = [past EXCEPT !.behind = @ \/ "send" \in F \/ "persist" \in F,
                       !.unwritten = @ \/ "persist" \in F,
                       !.undeleted = @ \/ was]

-----------------------------------------------------------------------------
(* A request: the read, then the act.                                      *)

\* applySecret and secretItem read the Secret by its name.
Ask(c, op) ==
  /\ call[c].op = "none" /\ left.acts > 0 /\ ~world.local
  /\ LET i == IdOf(mem) IN
     /\ op # "put" => i # "none"
     /\ call' = [call EXCEPT ![c] = [op |-> IF op = "put" /\ i = "none" THEN "create" ELSE op,
                                     id |-> i, ver |-> IF i = "none" THEN 0 ELSE mem[i].ver]]
  /\ UNCHANGED <<world, row, mem, sb, sbrow, gw, drv, now, left, past>>

Answer(c) == call' = [call EXCEPT ![c] = [op |-> "none", id |-> "none", ver |-> 0]]

\* A name a live row has is refused by the store's index as well.
CreateSecret(c) ==
  /\ call[c].op = "create" /\ left.acts > 0
  /\ Answer(c)
  /\ \E F \in Faults, j \in Injects :
       /\ F \subseteq {"store"}
       /\ Spend(F)
       /\ LET fresh == {i \in Ids : ~row[i].live /\ row[i].ver = 0}
              taken == IdOf(mem) # "none" \/ IdOf(row) # "none" \/ fresh = {} \/ "store" \in F
              i == CHOOSE k \in fresh : TRUE
              obj == [live |-> TRUE, ver |-> 1, inject |-> j, used |-> 0]
          IN  /\ mem' = IF taken THEN mem ELSE [mem EXCEPT ![i] = obj]
              /\ row' = IF taken THEN row ELSE WriteSecret(row, i, obj)
  /\ UNCHANGED <<world, sb, sbrow, gw, drv, now, past>>

\* The store is written first; a value given moves its version.
UpdateSecret(c) ==
  /\ call[c].op = "put" /\ left.acts > 0
  /\ Answer(c)
  /\ LET i == call[c].id IN
     IF ~mem[i].live THEN UNCHANGED <<row, mem, sb, sbrow, gw, drv, left, past>>
     ELSE \E F \in Faults, j \in Injects, value \in BOOLEAN, arrived \in BOOLEAN :
       LET obj == [mem[i] EXCEPT !.inject = j, !.ver = IF value THEN row[i].ver + 1 ELSE @]
           m == [mem EXCEPT ![i] = obj]
           r == WriteSecret(row, i, obj)
       IN  /\ Spend(F)
           /\ "store" \in F => F = {"store"}
           /\ arrived => "send" \in F
           /\ IF "store" \in F \/ ~row[i].live THEN UNCHANGED <<row, mem, sb, sbrow, gw, drv, past>>
              ELSE mem' = m /\ row' = r /\ repushMounts(i, m, r, F, arrived) /\ Marked(F, FALSE)
  /\ UNCHANGED <<world, now>>

\* deleteSecret, for DeleteSecret and DeleteSecretAt: the Secret is dropped from
\* the collection and then from the store.  A store that fails restores the
\* map that was held, which is the map the Secret was dropped from.
deleteSecret(c) ==
  /\ call[c].op \in {"delete", "deleteAt"} /\ left.acts > 0
  /\ Answer(c)
  /\ LET i == call[c].id
         at == call[c].op = "delete" \/ mem[i].ver = call[c].ver
     IN  IF ~mem[i].live \/ ~at THEN UNCHANGED <<row, mem, sb, sbrow, gw, drv, left, past>>
         ELSE \E F \in Faults, arrived \in BOOLEAN :
           LET m == RemoveSecret(mem, i)
               r == RemoveSecret(row, i)
           IN  /\ Spend(F)
               /\ "store" \in F => F = {"store"}
               /\ arrived => "send" \in F
               /\ mem' = m
               /\ IF "store" \in F
                  THEN UNCHANGED <<row, sb, sbrow, gw, drv>> /\ Marked({}, TRUE)
                  ELSE row' = r /\ repushMounts(i, m, r, F, arrived) /\ Marked(F, FALSE)
  /\ UNCHANGED <<world, now>>

\* SecretUsed: a gateway's report, clamped to this clock; it never moves back.
SecretUsed(at) ==
  /\ ~world.local /\ sb.bound.set /\ sb.bound.id # "none"
  /\ LET i == sb.bound.id
         t == IF at > now THEN now ELSE at
     IN  /\ mem[i].live /\ row[i].live /\ t > mem[i].used
         /\ mem' = [mem EXCEPT ![i].used = t]
         /\ row' = [row EXCEPT ![i].used = t]
  /\ UNCHANGED <<world, sb, sbrow, gw, drv, call, now, left, past>>

Tick == now < MaxTime /\ now' = now + 1
        /\ UNCHANGED <<world, row, mem, sb, sbrow, gw, drv, call, left, past>>

-----------------------------------------------------------------------------
(* The sandbox: Update with another mount or another boundary.             *)

\* restoreEgress: the boundary held is compiled past the one that failed, and
\* the object in memory keeps that number.
restoreEgress(s, m, F, arrived) ==
  LET back == [Compiled(sb, m) EXCEPT !.ver = s.ver + 1] IN
  /\ sb' = [sb EXCEPT !.ver = back.ver]
  /\ gw' = Sent(Sent(gw, MapOf(s, m, row), F, arrived), MapOf(back, m, row), {}, FALSE)
  /\ UNCHANGED sbrow

\* A driver that enforces the boundary itself is handed a changed one before the
\* write, and its refusal fails the update; the environment's does not.
Update ==
  /\ left.acts > 0
  /\ \E F \in Faults, arrived \in BOOLEAN, mount \in BOOLEAN, mode \in {"none", "allow"} :
       LET spec == [sb EXCEPT !.mount = mount, !.mode = mode, !.bound = IF mount THEN @ ELSE Unbound]
           s == Compiled(spec, mem)
           env == EnvOf(s, mem)
           bounds == carryBoundary(mode)
           refused == "send" \in F \/ (~world.local /\ ~gw.up) \/ (bounds /\ "driver" \in F)
           took == ~world.local /\ Carries(s, env) /\ "driver" \notin F
           t == IF took THEN [s EXCEPT !.digest = env] ELSE s
       IN  /\ (IF world.local THEN ~mount ELSE mode = sb.mode)
           /\ mount /\ ~sb.mount => IdOf(mem) # "none"
           /\ "store" \notin F /\ (world.local => "send" \notin F)
           /\ arrived => "send" \in F
           /\ refused => F \subseteq {"send", "driver"} /\ Cardinality(F) <= 1
           /\ Spend(F)
           /\ drv' = [env |-> IF took /\ ~refused THEN env ELSE drv.env,
                      mode |-> IF bounds /\ ~refused THEN mode ELSE drv.mode]
           /\ IF refused \/ "persist" \in F
              THEN IF world.local THEN UNCHANGED <<sb, sbrow, gw>> ELSE restoreEgress(s, mem, F, arrived)
              ELSE sb' = t /\ sbrow' = t
                   /\ gw' = IF world.local THEN gw ELSE Sent(gw, MapOf(s, mem, row), {}, FALSE)
           /\ past' = [past EXCEPT !.unwritten = @ \/ "persist" \in F]
  /\ UNCHANGED <<world, row, mem, call, now>>

-----------------------------------------------------------------------------
(* Restarts.                                                               *)

\* Open loads the rows.  Requests and the gateway's stream end with the process.
Open ==
  /\ left.restarts > 0 /\ left' = [left EXCEPT !.restarts = @ - 1]
  /\ mem' = row /\ sb' = sbrow
  /\ call' = [c \in Callers |-> [op |-> "none", id |-> "none", ver |-> 0]]
  /\ gw' = [gw EXCEPT !.up = FALSE]
  /\ past' = [past EXCEPT !.undeleted = FALSE, !.behind = TRUE]
  /\ UNCHANGED <<world, row, sbrow, drv, now>>

\* A gateway that connects holding nothing is handed every map anew.
EgressMaps ==
  /\ ~world.local /\ gw # MapOf([sb EXCEPT !.bound = bindMount(sb, mem)], mem, row)
  /\ gw' = MapOf([sb EXCEPT !.bound = bindMount(sb, mem)], mem, row)
  /\ past' = [past EXCEPT !.behind = FALSE]
  /\ UNCHANGED <<world, row, mem, sb, sbrow, drv, call, now, left>>

-----------------------------------------------------------------------------
Init ==
  /\ world \in Worlds
  /\ row = [i \in Ids |-> NoSecret] /\ mem = row
  /\ sb = [mount |-> FALSE, mode |-> "none", bound |-> Unbound, ver |-> 1, digest |-> NoEnv, ph |-> 0]
  /\ sbrow = sb /\ gw = [up |-> TRUE, ver |-> 1, entry |-> NoEntry]
  /\ drv = [env |-> NoEnv, mode |-> "none"]
  /\ call = [c \in Callers |-> [op |-> "none", id |-> "none", ver |-> 0]]
  /\ now = 0 /\ left = [acts |-> MaxActs, faults |-> MaxFaults, restarts |-> 1]
  /\ past = [behind |-> FALSE, unwritten |-> FALSE, undeleted |-> FALSE]

Next ==
  \/ \E c \in Callers, op \in {"put", "delete", "deleteAt"} : Ask(c, op)
  \/ \E c \in Callers : CreateSecret(c) \/ UpdateSecret(c) \/ deleteSecret(c)
  \/ \E at \in 1 .. MaxTime + 1 : SecretUsed(at)
  \/ Tick \/ Update \/ Open \/ EgressMaps

Spec == Init /\ [][Next]_vars

-----------------------------------------------------------------------------
(* Properties.                                                             *)

\* One Secret holds the name at a time, and a stamp is never in the future.
TypeOK ==
  /\ Cardinality({i \in Ids : row[i].live}) <= 1
  /\ \A i \in Ids : mem[i].used <= now

\* The collection is the rows, unless a delete the store refused left it without
\* a Secret whose row and value stay.
CollectionIsStore == ~past.undeleted => \A i \in Ids : mem[i].live = row[i].live /\ mem[i].ver = row[i].ver

\* A gateway whose every send was taken substitutes exactly what the Secret
\* bound holds now: the last value written, and none once it is deleted.
ServesCurrent == ~past.behind /\ ~past.undeleted /\ ~world.local => gw.entry = EntryOf(sb, mem, row)

\* Whatever failed, what a gateway substitutes for a sandbox that mounts a
\* Secret is the one its mount was bound to: a namesake made later takes no
\* one's place (bindMount, repushMounts).
NoNamesake == gw.entry # NoEntry /\ sb.bound.set => gw.entry.id = sb.bound.id
BindingStays == [][sb.mount /\ sb.bound.set /\ sb'.mount /\ sb = sbrow /\ sb' = sbrow' => sb'.bound = sb.bound]_vars

\* The digest recorded is that of the environment the driver holds, unless a
\* write after the hand-off failed.
DigestIsDriver == ~past.unwritten => drv.env = sb.digest /\ (world.local => drv.mode = sb.mode)

\* A delete at a version ends no value written after the read it names.
DeleteAtHolds ==
  [][\A c \in Callers, i \in Ids :
       call[c].op = "deleteAt" /\ call'[c].op = "none" /\ call[c].id = i /\ row[i].live /\ ~row'[i].live
         => row[i].ver = call[c].ver]_vars

-----------------------------------------------------------------------------
(***************************************************************************)
(* The credentials the control plane signs: an environment's keys, which   *)
(* its workers and its gateway carry, and a sandbox's workload tokens. A   *)
(* mint signs one and records it (internal/auth/environmentkeys.go,        *)
(* mint.go, tokens.go; the registry is internal/store/keys.go), a          *)
(* revocation writes the list the verifier asks                            *)
(* (internal/store/revocations.go, internal/auth/verifier.go), the sweep   *)
(* drops what has expired, and the delete of an environment ends its keys  *)
(* a page at a time (internal/api/environments.go).                        *)
(* Time is counted in units; one environment name is modelled, with the    *)
(* objects that hold it one after another told apart by a generation.      *)
(***************************************************************************)

CONSTANTS
  Jtis,        \* the jtis in the order they are minted: 1..n
  TTLs,        \* the lifetimes a mint asks for and CELLA_ENVIRONMENT_KEY_TTL takes
  Rings,       \* the values CELLA_TOKEN_KEY takes: sets of key numbers, the greatest signs
  Deployments,      \* deployments: what is minted, and the configuration before and after a restart
  PageSize,    \* the rows of one page of the registry
  MaxKeyTime, MaxGens \* bounds

VARIABLES
  clock,      \* the clock
  deployment,    \* the deployment
  cfg,      \* the configuration of the running process
  keyEnv,      \* the environment that holds the name: whether there is one, and which
  tokens,   \* what was handed out, by jti
  records,  \* the registry's rows
  list,     \* the revocation list: the exp a row carries, 0 for none
  minting,  \* a key mint between its look and its record
  ending,   \* a delete of the environment between its look and its end
  keyPast      \* what has happened, for the properties

keysVars == <<clock, deployment, cfg, keyEnv, tokens, records, list, minting, ending, keyPast>>

None == "none"
Unminted == [kind |-> None, gen |-> 0, exp |-> 0, kid |-> 0]
NoRecord == [held |-> FALSE, gen |-> 0, exp |-> 0, revoked |-> FALSE]
NotMinting == [on |-> FALSE, gen |-> 0, ttl |-> 0]
NotEnding == [at |-> None, gen |-> 0, cursor |-> 0, page |-> {}, next |-> FALSE]

KeysInit ==
  /\ clock = 1
  /\ deployment \in Deployments
  /\ cfg = deployment.before
  /\ keyEnv = [live |-> TRUE, gen |-> 1]
  /\ tokens = [j \in Jtis |-> Unminted]
  /\ records = [j \in Jtis |-> NoRecord]
  /\ list = [j \in Jtis |-> 0]
  /\ minting = NotMinting
  /\ ending = NotEnding
  /\ keyPast = [revoked |-> {}, changed |-> FALSE, crossed |-> {}, restarted |-> FALSE]

-----------------------------------------------------------------------------
(* Verifying *)

\* The rules a verifier holds a minted token to: signed by a key of the ring,
\* not past its exp, and not on the revocation list.
PublicKeys == cfg.ring
Revoked(j) == list[j] # 0
verifyMinted(j) ==
  /\ tokens[j].kind \in {"key", "workload"}
  /\ tokens[j].kid \in PublicKeys
  /\ clock <= tokens[j].exp
  /\ ~Revoked(j)

-----------------------------------------------------------------------------
(* Minting *)

\* The next jti: a ULID, so a later mint sorts after an earlier one.
Fresh == {j \in Jtis : tokens[j] = Unminted /\ \A i \in Jtis : i < j => tokens[i] # Unminted}

\* The first key of the ring signs; an exp is its lifetime from the mint.
Signed(kind, gen, exp) == [kind |-> kind, gen |-> gen, exp |-> exp, kid |-> Max(cfg.ring)]
MintEnvironmentKey(gen, ttl) == Signed("key", gen, clock + ttl)
Record(gen, exp) == [held |-> TRUE, gen |-> gen, exp |-> exp, revoked |-> FALSE]

\* The lifetime a mint that asked for ttl is given: the configured one where it
\* asked for none, and none at all beyond it.
Lifetime(ttl) == IF ttl = 0 THEN {cfg.ttl} ELSE {ttl} \cap 1..cfg.ttl

\* A key mint reads the environment, settles the lifetime and asks the authorizer.
MintLook ==
  /\ "key" \in deployment.kinds
  /\ ~minting.on /\ keyEnv.live
  /\ \E ttl \in TTLs \cup {0} : \E life \in Lifetime(ttl) : minting' = [on |-> TRUE, gen |-> keyEnv.gen, ttl |-> life]
  /\ UNCHANGED <<clock, deployment, cfg, keyEnv, tokens, records, list, ending, keyPast>>

\* It signs the key, records it and hands it out; a record that fails hands out nothing.
Mint ==
  /\ minting.on
  /\ minting' = NotMinting
  /\ \/ \E j \in Fresh :
          LET token == MintEnvironmentKey(minting.gen, minting.ttl) IN
          /\ records' = [records EXCEPT ![j] = Record(token.gen, token.exp)]
          /\ tokens' = [tokens EXCEPT ![j] = token]
          /\ keyPast' = IF (ending.at # None /\ ending.gen = minting.gen) \/ keyEnv.gen # minting.gen \/ ~keyEnv.live
                     THEN [keyPast EXCEPT !.crossed = @ \cup {j}] ELSE keyPast
     \/ UNCHANGED <<records, tokens, keyPast>>
  /\ UNCHANGED <<clock, deployment, cfg, keyEnv, list, ending>>

\* A workload token: it is capped by its sandbox's own expiry and is in no registry.
MintWorkload ==
  /\ "workload" \in deployment.kinds
  /\ \E j \in Fresh, life \in TTLs :
       tokens' = [tokens EXCEPT ![j] = Signed("workload", 0, clock + life)]
  /\ UNCHANGED <<clock, deployment, cfg, keyEnv, records, list, minting, ending, keyPast>>

-----------------------------------------------------------------------------
(* Revoking *)

\* The list keeps the later exp; the registry marks the row it holds.
RevokedUntil(j, exp) == [list EXCEPT ![j] = Max({@, exp})]
KeyMarked(j) == [records EXCEPT ![j].revoked = @ \/ records[j].held]

\* One transaction writes both.
RegistryRevoke(j, exp) ==
  /\ list' = RevokedUntil(j, exp)
  /\ records' = KeyMarked(j)

\* It refuses the jti until the configured lifetime from now has passed, and marks its record.
RevokeKey(j) ==
  /\ RegistryRevoke(j, clock + cfg.ttl)
  /\ keyPast' = [keyPast EXCEPT !.revoked = @ \cup {j}]

\* The record of one key, as the registry answers it.
Find(j) == records[j]

\* DELETE .../keys/{jti}, for a key this environment's registry row names or one with no row.
Revoke(j) ==
  /\ keyEnv.live /\ tokens[j].kind = "key" /\ j \notin keyPast.revoked
  /\ Find(j).held => Find(j).gen = keyEnv.gen
  /\ RevokeKey(j)
  /\ UNCHANGED <<clock, deployment, cfg, keyEnv, tokens, minting, ending>>

\* The controller ends a workload token at its own exp.
RevokeWorkload(j) ==
  /\ tokens[j].kind = "workload" /\ j \notin keyPast.revoked
  /\ list' = RevokedUntil(j, tokens[j].exp)
  /\ keyPast' = [keyPast EXCEPT !.revoked = @ \cup {j}]
  /\ UNCHANGED <<clock, deployment, cfg, keyEnv, tokens, records, minting, ending>>

\* What each table keeps of the rows the sweep's instant has not passed.
ListKept == [j \in Jtis |-> IF list[j] < clock THEN 0 ELSE list[j]]
RecordsKept == [j \in Jtis |-> IF records[j].exp < clock THEN NoRecord ELSE records[j]]

\* Bug: the sweep drops a row at its exp, while a token may still be presented.
ForgetEarly ==
  /\ list' = [j \in Jtis |-> IF list[j] <= clock THEN 0 ELSE list[j]]
  /\ records' = RecordsKept
  /\ UNCHANGED <<clock, deployment, cfg, keyEnv, tokens, minting, ending, keyPast>>

\* The reaper's sweep, in one transaction over both tables.
Forget ==
  /\ list' = ListKept
  /\ records' = RecordsKept
  /\ UNCHANGED <<clock, deployment, cfg, keyEnv, tokens, minting, ending, keyPast>>

-----------------------------------------------------------------------------
(* The delete of an environment *)

\* One page of the registry after a cursor, and whether another follows it.
PageOf(rows) == {j \in rows : Cardinality({i \in rows : i <= j}) <= PageSize}
Page(gen, cursor) ==
  LET rows == {j \in Jtis : records[j].held /\ records[j].gen = gen /\ j > cursor}
      page == PageOf(rows)
  IN [at |-> "page", gen |-> gen, cursor |-> IF page = {} THEN cursor ELSE Max(page), page |-> {j \in page : ~records[j].revoked}, next |-> rows # page]

\* The delete reads the object, asks the authorizer, and reads the first page.
EndLook ==
  /\ ending.at = None /\ keyEnv.live
  /\ ending' = Page(keyEnv.gen, 0)
  /\ UNCHANGED <<clock, deployment, cfg, keyEnv, tokens, records, list, minting, keyPast>>

\* It revokes the page's live keys one transaction at a time, oldest first.
EndRevoke ==
  /\ ending.at = "page" /\ ending.page # {}
  /\ LET j == Min(ending.page) IN
       /\ RevokeKey(j)
       /\ ending' = [ending EXCEPT !.page = @ \ {j}]
  /\ UNCHANGED <<clock, deployment, cfg, keyEnv, tokens, minting>>

\* The page is done and another follows it.
EndPage ==
  /\ ending.at = "page" /\ ending.page = {} /\ ending.next
  /\ ending' = Page(ending.gen, ending.cursor)
  /\ UNCHANGED <<clock, deployment, cfg, keyEnv, tokens, records, list, minting, keyPast>>

\* Every page is done: the object goes, unless another delete took it first.
EndRemove ==
  /\ ending.at = "page" /\ ending.page = {} /\ ~ending.next
  /\ keyEnv' = [keyEnv EXCEPT !.live = FALSE]
  /\ ending' = NotEnding
  /\ UNCHANGED <<clock, deployment, cfg, tokens, records, list, minting, keyPast>>

\* A call ends on its own error: what it revoked stays revoked.
EndFails ==
  /\ ending.at # None
  /\ ending' = NotEnding
  /\ UNCHANGED <<clock, deployment, cfg, keyEnv, tokens, records, list, minting, keyPast>>

\* An apply makes an environment of the name once more.
Apply ==
  /\ ~keyEnv.live /\ keyEnv.gen < MaxGens
  /\ keyEnv' = [live |-> TRUE, gen |-> keyEnv.gen + 1]
  /\ UNCHANGED <<clock, deployment, cfg, tokens, records, list, minting, ending, keyPast>>

-----------------------------------------------------------------------------
(* The deployment *)

\* A restart drops the calls in flight and may change the lifetime and the keys.
Restart ==
  /\ ~keyPast.restarted
  /\ cfg' = deployment.after
  /\ keyPast' = [keyPast EXCEPT !.restarted = TRUE, !.changed = @ \/ cfg'.ttl # cfg.ttl]
  /\ minting' = NotMinting
  /\ ending' = NotEnding
  /\ UNCHANGED <<clock, deployment, keyEnv, tokens, records, list>>

KeyTick ==
  /\ clock < MaxKeyTime
  /\ clock' = clock + 1
  /\ UNCHANGED <<deployment, cfg, keyEnv, tokens, records, list, minting, ending, keyPast>>

KeysNext ==
  \/ MintLook \/ Mint \/ MintWorkload
  \/ \E j \in Jtis : Revoke(j) \/ RevokeWorkload(j)
  \/ Forget
  \/ EndLook \/ EndRevoke \/ EndPage \/ EndRemove \/ EndFails
  \/ Apply \/ Restart \/ KeyTick

KeysSpec == KeysInit /\ [][KeysNext]_keysVars

-----------------------------------------------------------------------------
(* Properties *)

\* The records have the shape their types give them, a row that is not kept
\* says nothing, and only a key is ever recorded.
KeysTypeOK ==
  /\ clock \in 1..MaxKeyTime
  /\ cfg \in [ttl : TTLs, ring : Rings]
  /\ deployment \in Deployments
  /\ keyEnv \in [live : BOOLEAN, gen : 1..MaxGens]
  /\ \A j \in Jtis :
       /\ tokens[j].kind \in {None, "key", "workload"}
       /\ ~records[j].held => records[j] = NoRecord
       /\ records[j].held => tokens[j].kind = "key"
       /\ list[j] \in 0..(MaxKeyTime + Max(TTLs))
  /\ ending.at # None => Cardinality(ending.page) <= PageSize

\* A key or a token that was revoked is refused for good: no sweep lets it
\* back in before its exp (EnvironmentKeys.Revoke, RevocationList.Forget),
\* where the lifetime was not lowered between its mint and its revocation.
RevokedStays == \A j \in keyPast.revoked : verifyMinted(j) => keyPast.changed

\* Every key a caller holds that still verifies is one a listing shows
\* (EnvironmentKeys.Mint), however the sweep and the clock interleave.
EveryKeyListed == \A j \in Jtis : tokens[j].kind = "key" /\ verifyMinted(j) => records[j].held

\* A listing never shows a key live that the verifier refuses on its list, nor
\* one revoked that it still accepts (KeyRegistry.Revoke), while the configured
\* lifetime is the one every key was minted under.
ListingTrue ==
  \A j \in Jtis : records[j].held /\ ~keyPast.changed => (records[j].revoked <=> list[j] # 0)

\* No key of an environment that was deleted still verifies, unless it was
\* minted while the delete ran (environmentItem, revokeAll) or the configured
\* lifetime was lowered since.
KeysEnd ==
  \A j \in Jtis : tokens[j].kind = "key" /\ verifyMinted(j) /\ ~keyPast.changed =>
    \/ keyEnv.live /\ tokens[j].gen = keyEnv.gen
    \/ j \in keyPast.crossed

=============================================================================
