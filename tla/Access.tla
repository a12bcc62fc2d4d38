------------------------------- MODULE Access -------------------------------
(***************************************************************************)
(* Who may read what, and how a caller walks a list by its cursor.         *)
(*                                                                         *)
(* The owner policy (internal/auth/policy.go), in process or behind an     *)
(* operator's endpoint that may not answer, decides one question at a      *)
(* time.  The list routes of internal/api ask it once for the list, which  *)
(* may answer a filter, and once for each row of a snapshot of the         *)
(* collection.  A caller repeats the request from the cursor of the page   *)
(* before, while rows come, go and change.                                 *)
(***************************************************************************)
EXTENDS Integers, Sequences, FiniteSets, SequencesExt

CONSTANTS Ids,        \* object ids, naturals; an id is never given twice
          Worlds,     \* the token, the policy's settings and the request
          Phases,     \* phases a sandbox's runtime may report
          MaxChanges, \* how many times the collection changes
          MaxFaults   \* how many questions or reads have no answer

VARIABLES world, rows, used, walk, past, spent
vars == <<world, rows, used, walk, past, spent>>

None == [gone |-> TRUE]
Owners == {"ann", "bob", "root"}
Every == "any"

\* A row of the collection: what the policy and the selectors read of it.
\* `phase` is the phase last written and `real` the one its runtime reports.
Rows == [gone : {FALSE}, owner : Owners, label : BOOLEAN, mode : {"worker", "inProcess"},
         parent : Ids \cup {0}, root : Ids \cup {0}, phase : Phases, real : Phases]

----------------------------------------------------------------------------
(* The caller: a verified bearer.                                          *)

\* A token of cellad's own issuer is a sandbox or an environment key; a
\* listed issuer's token is a person, and one whose sub carries a reserved
\* prefix is refused.
VerifyContext(t) ==
  CASE t.issuer = "local"                           -> [ok |-> t.valid, class |-> t.class, id |-> t.id]
    [] t.issuer = "listed" /\ t.class = "person"    -> [ok |-> t.valid, class |-> "person", id |-> t.id]
    [] OTHER                                        -> [ok |-> FALSE, class |-> t.class, id |-> t.id]
caller == VerifyContext(world.token)

\* An environment key reaches the data plane's own streams and no list.
serve == caller.ok /\ caller.class # "key"

----------------------------------------------------------------------------
(* The owner policy.  A resource is [id, owner, mode, parent, root]; a     *)
(* list's resource carries its kind and nothing else.                      *)

\* The actions each kind answers to; a question outside them is refused.
table ==
  [sandbox     |-> {"create", "read", "update", "delete", "exec", "token", "list"},
   secret      |-> {"create", "read", "update", "delete", "list", "mount"},
   volume      |-> {"create", "read", "update", "delete", "list", "attach", "snapshot"},
   environment |-> {"create", "read", "update", "delete", "list", "key", "use", "serve"}]
Kind(act) == {k \in DOMAIN table : act \in table[k]}

admin == caller.class = "person" /\ caller.id = "root"
Mine(owner) == caller.class = "person" /\ owner = caller.id

workloadDecision(act, res) ==
  \/ act \in {"read", "exec"} /\ res.id = caller.id
  \/ act = "read" /\ caller.id \in {res.parent, res.root}
  \/ act = "create" /\ res.parent = caller.id
  \/ act = "list"

isDefault(res) == res.id = world.default

environmentDecision(act, res) ==
  \/ act = "use" /\ isDefault(res)
  \/ /\ world.owned
     /\ \/ act = "list"
        \/ res.mode = "worker" /\ act # "create" /\ Mine(res.owner)

\* The shared frame of the family's policies: an administrator, or the owner
\* of an object that exists.
frame(act, res) == admin \/ (act # "create" /\ Mine(res.owner))

decide(act, res) ==
  CASE world.kind \notin Kind(act)              -> FALSE
    [] caller.class = "sandbox"                 -> world.kind = "sandbox" /\ workloadDecision(act, res)
    [] caller.class = "key"                     -> act = "serve" /\ res.id = caller.id
    [] ~admin /\ act = "serve"                  -> FALSE
    [] ~admin /\ world.kind = "environment"     -> environmentDecision(act, res)
    [] act = "list"                             -> TRUE
    [] OTHER                                    -> frame(act, res)

\* The grants of a personal access token take from the policy's answer and
\* never add to it.
restrictByGrants(act, res) == decide(act, res) /\ act \in world.grants

\* The filter a list's allow carries: none for an administrator and for a
\* sandbox, the caller's own objects for everyone else.
Filter(owner) == (caller.class = "person" /\ ~admin) => Mine(owner)

Resource(i, row) == [id |-> i, owner |-> row.owner, mode |-> row.mode, parent |-> row.parent, root |-> row.root]
MayRead(i, row) == restrictByGrants("read", Resource(i, row))
List == [id |-> 0, owner |-> Every, mode |-> Every, parent |-> 0, root |-> 0]

----------------------------------------------------------------------------
(* The selectors of a list.                                                *)

\* The default environment passes every filter: its read decides it.
admitsEnvironment(i, row) == (world.kind = "environment" /\ i = world.default) \/ Filter(row.owner)

carries(row) == world.label => row.label
\* ?root= takes the sandboxes of one tree.
Tree(row) == world.root # 0 => row.root = world.root

\* What the walk of the collection skips before a question is asked.
Selected(i, row) == i > walk.cursor /\ world.owner \in {Every, row.owner} /\ carries(row) /\ Tree(row)

PhaseSelected(phase) == world.phase \in {Every, phase}

\* The environments' list is one page.
pageLimit == IF world.kind = "environment" THEN Cardinality(Ids) + 1 ELSE world.limit

----------------------------------------------------------------------------
Held == {i \in Ids : ~rows[i].gone}

\* Bug: the collection is walked in no order.
ObjectsUnsorted == Reverse(SetToSortSeq(Held, <))
\* The controller's copy of the collection, in the order of its ids.
Objects == SetToSortSeq(Held, <)

Idle(w) == [w EXCEPT !.at = "idle", !.left = <<>>, !.copy = <<>>, !.items = <<>>]

Init ==
  /\ world \in Worlds
  /\ rows \in [Ids -> {None} \cup world.first]
  /\ used = Held
  /\ walk = [at |-> "idle", cursor |-> 0, left |-> <<>>, copy |-> <<>>, items |-> <<>>, seen |-> <<>>, pages |-> <<>>]
  /\ past = [steady |-> Held, still |-> TRUE]
  /\ spent = [changes |-> 0, faults |-> 0]

Fault == spent.faults < MaxFaults /\ spent' = [spent EXCEPT !.faults = @ + 1]

\* The list's own question.  A caller it refuses, or a bearer that is not
\* accepted, has no list; a question without an answer refuses the page.
Ask ==
  /\ walk.at = "idle"
  /\ IF serve /\ restrictByGrants("list", List)
       THEN walk' = [walk EXCEPT !.at = "rows", !.left = Objects, !.copy = rows, !.items = <<>>]
       ELSE walk' = [Idle(walk) EXCEPT !.at = "refused"]
  /\ UNCHANGED <<world, rows, used, past, spent>>

\* Answer ends the page with its items and the cursor of the next one, zero
\* for none.
Answer(items, next) ==
  walk' = [Idle(walk) EXCEPT !.at = IF next = 0 THEN "done" ELSE "idle",
                             !.cursor = next, !.seen = @ \o items,
                             !.pages = Append(@, Len(items))]

Skip == walk' = [walk EXCEPT !.left = Tail(@)]

\* A row past the limit ends the page at the last row it took.
EndPage(i) == Answer(walk.items, Last(walk.items))

\* The phase a row answers with: the runtime's where it answers, the written
\* one where it does not.
TakeRow(i, phase) ==
  IF ~PhaseSelected(phase) THEN Skip
  ELSE IF Len(walk.items) = pageLimit THEN EndPage(i)
  ELSE walk' = [walk EXCEPT !.left = Tail(@), !.items = Append(@, i)]

Passes(i, row) == Selected(i, row) /\ admitsEnvironment(i, row) /\ MayRead(i, row)

\* One row of the snapshot: the selectors, the filter and the row's own
\* question; `phase` is the phase the row answers with.
Row(i, phase) ==
  /\ walk.at = "rows" /\ walk.left # <<>> /\ i = Head(walk.left)
  /\ IF Passes(i, walk.copy[i]) THEN TakeRow(i, phase) ELSE Skip

\* A sandbox is read from its runtime as it is now; one that went since the
\* snapshot has none to read.
Refresh(i) == IF rows[i].gone THEN walk.copy[i].phase ELSE rows[i].real
list == world.kind = "sandbox" /\ \E i \in Ids : Row(i, Refresh(i)) /\ UNCHANGED <<world, rows, used, past, spent>>

\* Secrets, volumes and environments answer as they are stored.
Stored == \E i \in Ids : Row(i, walk.copy[i].phase) /\ UNCHANGED <<world, rows, used, past, spent>>
listSecrets == world.kind = "secret" /\ Stored
listVolumes == world.kind = "volume" /\ Stored
environmentList == world.kind = "environment" /\ Stored

\* The environment of a row does not answer: the row keeps the status last
\* written and says so.
unobserved ==
  /\ walk.at = "rows" /\ walk.left # <<>> /\ world.kind = "sandbox" /\ Fault
  /\ LET i == Head(walk.left) IN Passes(i, walk.copy[i]) /\ TakeRow(i, walk.copy[i].phase)
  /\ past' = [past EXCEPT !.still = FALSE, !.steady = @ \ {Head(walk.left)}]
  /\ UNCHANGED <<world, rows, used>>

\* A question with no answer, of the list or of a row, refuses the page: the
\* caller asks for it again from the cursor it holds.
Unavailable ==
  /\ walk.at \in {"idle", "rows"} /\ Fault
  /\ walk' = Idle(walk)
  /\ UNCHANGED <<world, rows, used, past>>

End ==
  /\ walk.at = "rows" /\ walk.left = <<>>
  /\ Answer(walk.items, 0)
  /\ UNCHANGED <<world, rows, used, past, spent>>

----------------------------------------------------------------------------
(* Everyone else.                                                          *)

Change(i, row) ==
  /\ spent.changes < MaxChanges
  /\ spent' = [spent EXCEPT !.changes = @ + 1]
  /\ rows' = [rows EXCEPT ![i] = row]
  /\ used' = used \cup {i}
  /\ past' = [steady |-> past.steady \ {i}, still |-> FALSE]
  /\ UNCHANGED <<world, walk>>

Create(i) == i \notin used /\ \E row \in world.first : Change(i, row)
Delete(i) == ~rows[i].gone /\ Change(i, None)
Update(i) == ~rows[i].gone /\ Change(i, [rows[i] EXCEPT !.label = ~@])
Moves(i) == ~rows[i].gone /\ \E p \in Phases \ {rows[i].real} : Change(i, [rows[i] EXCEPT !.real = p])

Next ==
  \/ Ask \/ list \/ listSecrets \/ listVolumes \/ environmentList \/ unobserved \/ Unavailable \/ End
  \/ \E i \in Ids : Create(i) \/ Delete(i) \/ Update(i) \/ Moves(i)

Spec == Init /\ [][Next]_vars

----------------------------------------------------------------------------
\* Every variable holds a value of its kind, and no page holds more rows than
\* the limit it asked for.
TypeOK ==
  /\ rows \in [Ids -> {None} \cup Rows]
  /\ used \subseteq Ids /\ Held \subseteq used
  /\ walk.at \in {"idle", "rows", "done", "refused"}
  /\ walk.cursor \in Ids \cup {0}
  /\ \A k \in 1..Len(walk.pages) : walk.pages[k] <= pageLimit

\* A walk by the cursor answers no object twice, whatever is created, deleted
\* or changed between its pages and whichever of them is asked for again.
NoneTwice == \A j, k \in 1..Len(walk.seen) : j < k => walk.seen[j] < walk.seen[k]

\* A walk that ended answered every object that was there for all of it, that
\* the selectors take and that the caller may read by its id: no page
\* boundary, filter or retry drops one.
WalkWhole ==
  walk.at = "done" =>
    \A i \in past.steady :
      (MayRead(i, rows[i]) /\ world.owner \in {Every, rows[i].owner} /\ carries(rows[i]) /\ Tree(rows[i])
         /\ PhaseSelected(IF world.kind = "sandbox" THEN rows[i].real ELSE rows[i].phase))
      => i \in Range(walk.seen)

\* A list answers nothing that a read of the object by its id would refuse.
SeenIsReadable == \A k \in 1..Len(walk.seen) : rows[walk.seen[k]].gone \/ MayRead(walk.seen[k], rows[walk.seen[k]])

\* A page that names a next one is full, and where nothing changed since the
\* walk began the next one is not empty: a cursor is never a dead end.
NextIsThere ==
  /\ \A k \in 1..Len(walk.pages) : k < Len(walk.pages) \/ walk.at \in {"idle", "rows"} => walk.pages[k] = pageLimit
  /\ past.still /\ Len(walk.pages) > 1 => walk.pages[Len(walk.pages)] > 0
=============================================================================
