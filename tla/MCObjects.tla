----------------------------- MODULE MCObjects -----------------------------
\* The objects the control plane keeps: environments (Environments), volumes
\* (Volumes), secrets, what is substituted from them and the keys of an
\* environment (Credentials), the memory of a running sandbox (Autosize), what a
\* manifest may ask for (Boundary) and what a caller is shown (Access). The
\* components share no variable: a behaviour is of one of them and the others
\* rest in an initial state. What a component does in the end is asked under
\* the fairness its module states.
EXTENDS Naturals, Sequences

VARIABLE part       \* the component this behaviour is of

VARIABLES env_mode, env_store, env_mem, env_row, env_drv, env_answers, env_since, env_pass,
          env_boxes, env_del, env_tries, env_conf, env_applies, env_revived, env_restarts,
          env_deletes, env_faults, env_late, env_overtaken, env_unsaved
envVars == <<env_mode, env_store, env_mem, env_row, env_drv, env_answers, env_since,
     env_pass, env_boxes, env_del, env_tries, env_conf, env_applies, env_revived,
     env_restarts, env_deletes, env_faults, env_late, env_overtaken, env_unsaved>>
Env == INSTANCE Environments WITH mode <- env_mode, store <- env_store, mem <- env_mem, row <-
     env_row, drv <- env_drv, answers <- env_answers, since <- env_since, pass <- env_pass,
     boxes <- env_boxes, del <- env_del, tries <- env_tries, conf <- env_conf, applies <-
     env_applies, revived <- env_revived, restarts <- env_restarts, deletes <- env_deletes, faults <- env_faults,
     late <- env_late, overtaken <- env_overtaken, unsaved <- env_unsaved, Boxes <- {"b1"}, Modes <-
     {"worker", "inprocess"}, Stores <- {"file", "db"}, MaxApplies <- 2, MaxAnswers <- 1,
     MaxRestarts <- 1, MaxDeletes <- 1, MaxFaults <- 1

VolumeKinds == {[access |-> "single", source |-> "image"], [access |-> "shared", source |-> "image"],
                [access |-> "single", source |-> "unsupported"]}

VARIABLES vol_kind, vol_retain, vol_vol, vol_fill, vol_dvol, vol_box, vol_cont, vol_driving,
          vol_faults, vol_stuck
volVars == <<vol_kind, vol_retain, vol_vol, vol_fill, vol_dvol, vol_box, vol_cont,
     vol_driving, vol_faults, vol_stuck>>
Vol == INSTANCE Volumes WITH kind <- vol_kind, retain <- vol_retain, vol <- vol_vol, fill <-
     vol_fill, dvol <- vol_dvol, box <- vol_box, cont <- vol_cont, driving <- vol_driving,
     faults <- vol_faults, stuck <- vol_stuck, Vols <- {"v1"}, Boxes <- {"b1", "b2"}, NoVol <-
     "none", Kinds <- VolumeKinds, MaxVolumes <- 1, MaxFaults <- 1

VARIABLES sec_world, sec_row, sec_mem, sec_sb, sec_sbrow, sec_gw, sec_drv, sec_call,
          sec_now, sec_left, sec_past
secVars == <<sec_world, sec_row, sec_mem, sec_sb, sec_sbrow, sec_gw, sec_drv, sec_call,
     sec_now, sec_left, sec_past>>
\* A control plane restarted with a shorter lifetime or another signing key.
Long == [ttl |-> 2, ring |-> {1}]
KeyWorlds ==
  {[kinds |-> {"key"}, before |-> Long, after |-> [ttl |-> 1, ring |-> {1, 2}]],
   [kinds |-> {"workload"}, before |-> Long, after |-> [ttl |-> 2, ring |-> {2}]]}

VARIABLES keys_clock, keys_deployment, keys_cfg, keys_keyEnv, keys_tokens, keys_records,
          keys_list, keys_minting, keys_ending, keys_keyPast
keysVars == <<keys_clock, keys_deployment, keys_cfg, keys_keyEnv, keys_tokens, keys_records,
     keys_list, keys_minting, keys_ending, keys_keyPast>>
Cred == INSTANCE Credentials WITH world <- sec_world, row <- sec_row, mem <- sec_mem, sb <-
     sec_sb, sbrow <- sec_sbrow, gw <- sec_gw, drv <- sec_drv, call <- sec_call, now <- sec_now,
     left <- sec_left, past <- sec_past, Ids <- {"s1", "s2"}, Callers <- {"c1", "c2"}, Worlds <-
     {[local |-> TRUE], [local |-> FALSE]}, MaxActs <- 4, MaxFaults <- 1, MaxTime <- 1, clock <-
     keys_clock, deployment <- keys_deployment, cfg <- keys_cfg, keyEnv <- keys_keyEnv, tokens
     <- keys_tokens, records <- keys_records, list <- keys_list, minting <- keys_minting, ending
     <- keys_ending, keyPast <- keys_keyPast, Jtis <- 1..2, TTLs <- {1, 2}, Rings <- {{1}, {1,
     2}, {2}}, Deployments <- KeyWorlds, PageSize <- 1, MaxKeyTime <- 3, MaxGens <- 2

VARIABLES size_obj, size_wl, size_sizer, size_job, size_left, size_past
sizeVars == <<size_obj, size_wl, size_sizer, size_job, size_left, size_past>>
Size == INSTANCE Autosize WITH obj <- size_obj, wl <- size_wl, sizer <- size_sizer, job <-
     size_job, left <- size_left, past <- size_past, Max <- 3, SameSizeRestarts <- 1, MaxKills
     <- 2, MaxFaults <- 1, MaxActs <- 1, MaxCrashes <- 1

Domains == {"d", "a.d", "b.d", "e"}
Subdomains == {<<"a.d", "d">>, <<"b.d", "d">>}
Host(n) == [wild |-> FALSE, name |-> n]
Every(n) == [wild |-> TRUE, name |-> n]
Plane(m, a, d) == [mode |-> m, allow |-> a, deny |-> d]
Body == [image |-> "", env |-> "", egress |-> Plane("", {}, {}), secrets |-> {}, vols |-> {},
         mem |-> 0, max |-> 0, ttl |-> 0, stop |-> 0, budget |-> 0, depth |-> 0, mesh |-> FALSE,
         queue |-> "", priority |-> 0]
Root == [Body EXCEPT !.budget = 2, !.depth = 2]
Plain == [name |-> "k", images |-> TRUE, autosize |-> FALSE, resize |-> TRUE, mesh |-> FALSE,
          volumes |-> TRUE, modes |-> {"open", "allowlist", "none"}, queues |-> {}, queue |-> "", hosts |-> {}]
Ground == [env |-> Plain, waits |-> {FALSE}, posts |-> FALSE, maxNow |-> 0,
           defaults |-> [mem |-> 2, start |-> 1, ceiling |-> 3, ttl |-> 0, stop |-> 0, image |-> "base"],
           ceilings |-> [mem |-> 0, ttl |-> 0, priority |-> 0],
           secrets |-> {"s"}, scope |-> [s \in {"s"} |-> {Host("e")}],
           volumes |-> {"v"}, shared |-> {}, bodies |-> {}]
ParentAndChild(P, C) == {[name |-> "p", body |-> b] : b \in P} \cup {[name |-> "c", body |-> b] : b \in C}
Allow(b, S) == [b EXCEPT !.egress = Plane("", S, {})]
Deny(b, S) == [b EXCEPT !.egress = Plane("", {}, S)]
ReadOnly(b) == [b EXCEPT !.vols = {[vol |-> "v", ro |-> TRUE]}]

\* Allow lists, a secret and a volume.
AllowLists == [Ground EXCEPT !.waits = {TRUE},
  !.bodies = ParentAndChild({[Allow(Root, {Every("d"), Host("e")}) EXCEPT !.secrets = {"s"}],
                             [Allow(Root, {Host("a.d"), Host("e")}) EXCEPT !.secrets = {"s"}]},
                            {Body, Allow(Body, {Host("b.d")}), [Body EXCEPT !.secrets = {"s"}]})]

\* Deny lists, and volumes mounted read-only and for writing.
DenyLists == [Ground EXCEPT
  !.bodies = ParentAndChild({ReadOnly(Deny(Root, {Host("e")})), ReadOnly(Deny(Root, {Host("e"), Every("d")}))},
                            {Body, ReadOnly(Deny(Body, {Host("e"), Host("a.d")})),
                             [Body EXCEPT !.vols = {[vol |-> "v", ro |-> FALSE]}]})]

\* An environment that sizes memory inside a ceiling, and lives that end.
SizedBodies == [Ground EXCEPT !.env.autosize = TRUE, !.defaults.ttl = 2, !.maxNow = 1,
  !.ceilings = [mem |-> 3, ttl |-> 3, priority |-> 1],
  !.bodies = ParentAndChild({[Root EXCEPT !.max = 2]},
                            {[Body EXCEPT !.mem = 1, !.ttl = 1, !.budget = 1, !.depth = 1], [Body EXCEPT !.max = 3]})]

\* A device whose host has a network of its own, and a queue.
HostNetworks == [Ground EXCEPT !.env.queues = {"q"}, !.env.queue = "q", !.posts = TRUE, !.env.modes = {},
  !.env.hosts = {[mode |-> "open", hosts |-> {}, blocked |-> {Host("a.d")}],
                 [mode |-> "allowlist", hosts |-> {Every("d"), Host("e")}, blocked |-> {}]},
  !.bodies = ParentAndChild({Root, Allow(Root, {Host("e"), Host("b.d")})}, {Body, Deny(Body, {Host("e")})})]
Manifests == <<AllowLists, DenyLists, SizedBodies, HostNetworks>>

VARIABLES bound_world, bound_objs, bound_req, bound_now, bound_past
boundVars == <<bound_world, bound_objs, bound_req, bound_now, bound_past>>
Bound == INSTANCE Boundary WITH world <- bound_world, objs <- bound_objs, req <- bound_req, now
     <- bound_now, past <- bound_past, Names <- Domains, Below <- Subdomains, Never <- 9, Ids <-
     {1, 2}, Clients <- {"c1", "c2"}, Owner <- 99, Worlds <- Manifests, MaxRequests <- 3

Listed(o, l, m, p, r) == [gone |-> FALSE, owner |-> o, label |-> l, mode |-> m, parent |-> p, root |-> r,
                          phase |-> "Running", real |-> "Running"]
ListedBoxes == {Listed("ann", TRUE, "worker", 0, 1), Listed("ann", FALSE, "worker", 1, 1), Listed("bob", TRUE, "worker", 0, 3)}
ListedEnvs == {Listed("ann", TRUE, "worker", 0, 0), Listed("ann", TRUE, "inProcess", 0, 0), Listed("root", TRUE, "inProcess", 0, 0)}
Token(c, i) == [issuer |-> IF c = "person" THEN "listed" ELSE "local", class |-> c, id |-> i, valid |-> TRUE]
Person(i) == Token("person", i)
Base == [kind |-> "sandbox", token |-> Person("ann"), owned |-> TRUE, default |-> 1, grants |-> {"list", "read"}, limit |-> 1,
         owner |-> "any", label |-> FALSE, phase |-> "any", root |-> 0, first |-> ListedBoxes]
\* A list for each kind of object and of caller.
Lists ==
  {Base, [Base EXCEPT !.label = TRUE, !.phase = "Running"], [Base EXCEPT !.token = Token("sandbox", 1), !.limit = 2],
   [Base EXCEPT !.token = Person("root"), !.root = 1, !.owner = "ann"],
   [Base EXCEPT !.kind = "secret", !.grants = {"list"}],
   [Base EXCEPT !.kind = "environment", !.first = ListedEnvs, !.owned = FALSE],
   [Base EXCEPT !.kind = "environment", !.first = ListedEnvs, !.token = Person("root")]}

VARIABLES list_world, list_rows, list_used, list_walk, list_past, list_spent
listVars == <<list_world, list_rows, list_used, list_walk, list_past, list_spent>>
List == INSTANCE Access WITH world <- list_world, rows <- list_rows, used <- list_used, walk <-
     list_walk, past <- list_past, spent <- list_spent, Ids <- 1..3, Worlds <- Lists, Phases <-
     {"Running", "Stopped"}, MaxChanges <- 1, MaxFaults <- 1

vars == <<part, envVars, volVars, secVars, sizeVars, keysVars, boundVars, listVars>>

Init ==
  /\ part \in {"env", "vol", "sec", "size", "keys", "bound", "list"}
  /\ Env!Init /\ (part # "env" => env_mode = "worker" /\ env_store = "file")
  /\ Vol!Init /\ (part # "vol" => vol_kind = [access |-> "single", source |-> "image"] /\ vol_retain)
  /\ Cred!Init /\ (part # "sec" => sec_world.local)
  /\ Size!Init
  /\ Cred!KeysInit /\ (part # "keys" => keys_deployment.kinds = {"workload"})
  /\ Bound!Init /\ (part # "bound" => bound_world = 1)
  /\ List!Init /\ (part # "list" => list_world = Base /\ \A i \in 1..3 : list_rows[i].gone)

\* The component the behaviour is of moves; the others rest.
Next ==
  /\ UNCHANGED part
  /\ \/ part = "env" /\ Env!Next /\ UNCHANGED <<volVars, secVars, sizeVars, keysVars, boundVars, listVars>>
     \/ part = "vol" /\ Vol!Next /\ UNCHANGED <<envVars, secVars, sizeVars, keysVars, boundVars, listVars>>
     \/ part = "sec" /\ Cred!Next /\ UNCHANGED <<envVars, volVars, sizeVars, keysVars, boundVars, listVars>>
     \/ part = "size" /\ Size!Next /\ UNCHANGED <<envVars, volVars, secVars, keysVars, boundVars, listVars>>
     \/ part = "keys" /\ Cred!KeysNext /\ UNCHANGED <<envVars, volVars, secVars, sizeVars, boundVars,
            listVars>>
     \/ part = "bound" /\ Bound!Next /\ UNCHANGED <<envVars, volVars, secVars, sizeVars, keysVars, listVars>>
     \/ part = "list" /\ List!Next /\ UNCHANGED <<envVars, volVars, secVars, sizeVars, keysVars, boundVars>>

Spec == Init /\ [][Next]_vars

\* The fairness of Environments, for the behaviours of environments.
EnvFair ==
  /\ WF_envVars(part = "env" /\ Env!PassReads)
  /\ WF_envVars(part = "env" /\ Env!PassDecides)
  /\ WF_envVars(part = "env" /\ Env!PassWrites)
  /\ WF_envVars(part = "env" /\ Env!PassStores)
  /\ WF_envVars(part = "env" /\ (Env!DeleteRemoves \/ Env!DeleteRefused))
  /\ WF_envVars(part = "env" /\ Env!Elapse)

\* The fairness of Volumes, for the behaviours of volumes.
VolFair ==
  /\ WF_volVars(part = "vol" /\ Vol!FillVolumes)
  /\ \A v \in {"v1"} : WF_volVars(part = "vol" /\ Vol!FillDeletes(v))
  /\ \A v \in {"v1"} : WF_volVars(part = "vol" /\ Vol!ApplySource(v))
  /\ \A v \in {"v1"} : WF_volVars(part = "vol" /\ Vol!SettleVolume(v))
  /\ \A v \in {"v1"} : WF_volVars(part = "vol" /\ Vol!DriverFills(v))
  /\ \A b \in {"b1", "b2"} : WF_volVars(part = "vol" /\ Vol!Realize(b))
  /\ \A b \in {"b1", "b2"} : WF_volVars(part = "vol" /\ Vol!SettleCreate(b))

\* The fairness of Autosize, for the behaviours of the memory of a running sandbox.
SizeFair ==
  /\ WF_sizeVars(part = "size" /\ Size!Read)
  /\ WF_sizeVars(part = "size" /\ Size!JobStep)
  /\ WF_sizeVars(part = "size" /\ Size!deleteOne)
  /\ WF_sizeVars(part = "size" /\ Size!HoldEnds)
  /\ WF_sizeVars(part = "size" /\ Size!SpaceEnds)
  /\ WF_sizeVars(part = "size" /\ Size!Verdict)

-----------------------------------------------------------------------------
(* Properties *)

\* Every component keeps its values in their ranges.
TypesHold == Env!TypeOK /\ Vol!TypeOK /\ Cred!TypeOK /\ Size!TypeOK /\ Cred!KeysTypeOK /\
             Bound!TypeOK /\ List!TypeOK

\* What a process holds in memory, what a driver was handed and what a gateway
\* was sent follow the store, except after the failures named.
CopiesFollowStore ==
  /\ TypesHold
  \* Environments: what is driven is what is stored, whatever a late phase write
  \* put into the registry, so nothing is placed on an environment a pass
  \* brought back after its delete; and the registry holds the stored object at
  \* its version until a phase write lands on an object other than the one its
  \* pass had read.
  /\ Env!RegistryFollowsStore
  \* An apply that names no version is answered with a conflict only after a
  \* phase write was overtaken, or where a database keeps the row of a deleted
  \* environment.
  /\ Env!ConflictMeansOvertaken
  \* A sandbox is recorded on an environment that is not stored only where it
  \* was created between the two locks of the delete: every other record went
  \* with the environment.
  /\ Env!RecordsGoWithEnvironment
  \* Secrets: the collection is the rows, unless a delete the store refused
  \* left it without a Secret whose row and value stay.
  /\ Cred!CollectionIsStore
  \* A gateway whose every send was taken substitutes exactly what the Secret
  \* bound holds now: the last value written, and none once it is deleted.
  /\ Cred!ServesCurrent
  \* Whatever failed, what a gateway substitutes for a sandbox that mounts a
  \* Secret is the one its mount was bound to: a namesake made later takes no
  \* one's place.
  /\ Cred!NoNamesake
  \* The digest recorded is that of the environment the driver holds, unless a
  \* write after the hand-off failed.
  /\ Cred!DigestIsDriver

\* A volume stays while it is used and its row while the driver holds any of
\* it.
VolumesHeld ==
  \* Volumes: A volume a sandbox is bound to, and that has not begun to go, is
  \* never deleted under it: not by its owner, not by the release of another
  \* sandbox, not by the settle of a fill (DeleteVolume, releaseVolumesLocked,
  \* settleVolume).
  /\ Vol!HeldVolumeStays
  \* Nothing the driver holds of a volume is ever unrecorded: the row goes only
  \* after the driver's object, whatever fill was in flight
  \* (finishVolumeDelete, settleVolume).
  /\ Vol!RowOutlivesObject
  \* A volume for one writer is bound to one sandbox at a time.
  /\ Vol!OneWriter
  \* A sandbox runs only on a volume that was filled: it waits out a Pending
  \* one and fails on any other (volumesReadyLocked, realize).
  /\ Vol!RunsFilled

\* No credential outlives its end, and no sandbox reaches past the one that
\* made it.
AuthorityBounded ==
  \* Keys: A key or a token that was revoked is refused for good: no sweep lets
  \* it back in before its exp (EnvironmentKeys.Revoke, RevocationList.Forget),
  \* where the lifetime was not lowered between its mint and its revocation.
  /\ Cred!RevokedStays
  \* Every key a caller holds that still verifies is one a listing shows
  \* (EnvironmentKeys.Mint), however the sweep and the clock interleave.
  /\ Cred!EveryKeyListed
  \* A listing never shows a key live that the verifier refuses on its list,
  \* nor one revoked that it still accepts (KeyRegistry.Revoke), while the
  \* configured lifetime is the one every key was minted under.
  /\ Cred!ListingTrue
  \* No key of an environment that was deleted still verifies, unless it was
  \* minted while the delete ran (environmentItem, revokeAll) or the configured
  \* lifetime was lowered since.
  /\ Cred!KeysEnd
  \* Manifests: every child is a subset of its parent: the names it reaches
  \* where both have one kind of list, its secrets, its volumes and its size.
  \* Not held to it are a child whose spawn or update was resolved against a
  \* parent or a self that changed before the write, and one a person updated.
  /\ Bound!ChildWithin

\* A list read page by page is the list, whatever changes between the pages.
WalksWhole ==
  \* Lists: A walk by the cursor answers no object twice, whatever is created,
  \* deleted or changed between its pages and whichever of them is asked for
  \* again.
  /\ List!NoneTwice
  \* A walk that ended answered every object that was there for all of it, that
  \* the selectors take and that the caller may read by its id: no page
  \* boundary, filter or retry drops one.
  /\ List!WalkWhole
  \* A list answers nothing that a read of the object by its id would refuse.
  /\ List!SeenIsReadable
  \* A page that names a next one is full, and where nothing changed since the
  \* walk began the next one is not empty: a cursor is never a dead end.
  /\ List!NextIsThere

\* A write changes what its caller asked for and nothing else, and a change of
\* size the control plane chose is not seen by the clients.
ChangesOnlyWhatWasAsked ==
  \* Manifests: reading a sandbox back and applying what was read changes
  \* nothing and is accepted, whoever wrote it, as long as it has no children
  \* and its last write was not overtaken.
  /\ []Bound!ReadBackKept
  \* Applying the same body again changes nothing: what defaulting filled in is
  \* kept (sizeMemory), for a sandbox with no parent.
  /\ []Bound!SameBodyKept
  \* What a driver cannot change is never changed, though every update is
  \* resolved against an earlier read.
  /\ Bound!Immutable
  \* Secrets: A mount keeps the Secret it was bound to: a namesake made after a
  \* delete is not taken for it.
  /\ Cred!BindingStays
  \* A delete at a version ends no value written after the read it names.
  /\ Cred!DeleteAtHolds
  \* The memory of a running sandbox: "No client's command is cut by a restart
  \* the control plane chose": a move ends a session only where it was opened
  \* after the look at the count.
  /\ []Size!CutOnlyWhenJoined
  \* "There is no instant at which such a sandbox reads as Failed or Stopped":
  \* a sandbox comes to read so only where a client stopped it, a stop or a start
  \* of a move failed, it was killed at its ceiling, or the starts at its size were used
  \* up; a kill and every step of a move read as Running or Starting.
  /\ Size!NoFlicker
  \* A sandbox's workload never widens it: a write that is the workload's and
  \* that nothing overtook reaches no more names where the kind of list is the
  \* same, mounts no new secret and raises neither spawn axis.
  /\ Bound!WorkloadNarrows

\* Whatever failed, crashed or raced, an object comes to the state its last
\* writer asked for.
ObjectsSettle ==
  \* Environments: once the data plane answers for good the environment becomes
  \* Ready for good, and once it is silent for good the environment stops being
  \* Ready, so that nothing more is placed on it (RunEnvironments, phase,
  \* lapsed).
  /\ part = "env" /\ EnvFair => Env!PhaseFollowsDataPlane
  \* What a reader of the store sees comes to agree with what the registry
  \* holds, so a restart does not go back to an older phase (phaseOf writes the
  \* row after the registry; WriteEnvironmentStatus), unless the store refused
  \* the last status.
  /\ part = "env" /\ EnvFair => Env!StoreSettles
  \* Volumes: A volume being made is settled one way or another, and one being
  \* deleted goes, whatever failed or restarted meanwhile (RunVolumes).
  /\ part = "vol" /\ VolFair => Vol!FillEnds
  \* A volume being deleted goes, whatever failed or restarted meanwhile.
  /\ part = "vol" /\ VolFair => Vol!DeleteEnds
  \* A sandbox that waits for its volume stops waiting (settleVolume wakes the
  \* scheduler).
  /\ part = "vol" /\ VolFair => Vol!WaitEnds
  \* The memory of a running sandbox: A sandbox killed for memory below its
  \* ceiling runs again, is left stopped or failed with the condition that says
  \* why, or is deleted; none stays killed and reading as Starting.
  /\ part = "size" /\ SizeFair => Size!KilledSettles
  \* A start cut short between its stop and its start is finished, or its
  \* record no longer says it is being made.
  /\ part = "size" /\ SizeFair => Size!CutShortFinishes
  \* status.resources comes to what the driver holds, whichever of a raise in
  \* place, a move or a start changed it and whatever was lost on the way,
  \* while no further size is outstanding.
  /\ part = "size" /\ SizeFair => Size!SizeFollows
  \* "A sandbox deleted while it moved has what the move made removed": nothing
  \* is left of one unless the end of the move failed or its process died.
  /\ part = "size" /\ SizeFair => Size!DeletedGoes
=============================================================================
