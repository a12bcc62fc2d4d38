------------------------------ MODULE HostFiles ------------------------------
(***************************************************************************)
(* The file operations of the drivers that keep a workspace on the host    *)
(* (runtime/local/files.go, runtime/native/filestore.go and files.go).     *)
(* Nothing locks the workspace while a call runs, so every call is the     *)
(* steps it takes of the file system: the containment check, the parents,  *)
(* a staged file, its body, the rename onto the name.  A read changes      *)
(* nothing and is left out.                                                *)
(***************************************************************************)
EXTENDS FileTree, FiniteSets, FiniteSetsExt

CONSTANTS
  Worlds,    \* [host, tree]: the grant, whether the workspace is a host folder, and what it holds
  Sizes,     \* the sizes a body may have
  MaxBytes,  \* the bound a write carries
  MaxCalls   \* bound: calls made in all

VARIABLES
  world,
  tree,     \* the workspace
  calls,    \* the calls in flight
  issued,   \* how many calls were made
  past      \* what has happened, for the properties

vars == <<world, tree, calls, issued, past>>

Idle == [op |-> "none", step |-> "none", path |-> Root, to |-> Root, body |-> 0, size |-> 0, todo |-> <<>>]

Init ==
  /\ \E w \in Worlds : world = w.host /\ tree = w.tree
  /\ calls = [c \in Slots |-> Idle]
  /\ issued = 0
  /\ past = [stored |-> Bodies(tree, Callers), dropped |-> {}, crossed |-> FALSE]

-----------------------------------------------------------------------------
(* Where a path leads *)

\* The containment rule: the deepest name at or above the path that exists
\* does not lead out. An operation that replaces a name does not follow it.
contain(p, follow) == \A q \in (IF follow THEN Above(p) ELSE Above(Parent(p))) : tree[q].kind # "link"

\* Bug: the grant is not read.
entryUngranted(p, follow, write) == contain(p, follow)

\* What every operation opens with: the record, the containment, the grant.
entry(p, follow, write) == contain(p, follow) /\ (write => world.write)

\* The directories above a name, made where they are missing.
parents(p) == CanMkdirAll(tree, Parent(p)) /\ tree' = MkdirAll(tree, Parent(p))

\* Where a write holds its body, beside its destination; an import's, at the top of its own.
Staged(c) == (IF calls[c].op = "import" THEN calls[c].to ELSE Parent(calls[c].path)) \o <<c>>

-----------------------------------------------------------------------------
(* Steps *)

To(c, step) == calls' = [calls EXCEPT ![c].step = step]
Answer(c) == calls' = [calls EXCEPT ![c] = Idle]
Same == UNCHANGED <<world, issued>>

\* A call answers an error where its step cannot be taken, and drops what it staged.
cleanup(c) == IF calls[c].step \in {"copy", "commit"} THEN Dropped(tree, Staged(c)) ELSE tree
Fails(c) ==
  /\ tree' = cleanup(c)
  /\ Answer(c)
  /\ past' = past /\ Same

Begin(c, call) ==
  /\ calls[c] = Idle /\ issued < MaxCalls
  /\ issued' = issued + 1
  /\ calls' = [calls EXCEPT ![c] = call]
  /\ UNCHANGED <<world, tree, past>>

\* A body's number tells it from every other; an import carries two.
Fresh == 2 * (issued + 1)

Write(c) ==
  \E p \in Callers, n \in Sizes :
    /\ entry(p, FALSE, TRUE)
    /\ Begin(c, [Idle EXCEPT !.op = "write", !.step = "parents", !.path = p, !.body = Fresh, !.size = n])

Mkdir(c) ==
  \E p \in Callers :
    /\ entry(p, FALSE, TRUE)
    /\ Begin(c, [Idle EXCEPT !.op = "mkdir", !.step = "make", !.path = p])

Remove(c) ==
  \E p \in Callers :
    /\ entry(p, FALSE, TRUE)
    /\ Begin(c, [Idle EXCEPT !.op = "remove", !.step = "sweep", !.path = p])

Move(c) ==
  \E p, q \in Callers :
    /\ p # q /\ entry(p, FALSE, TRUE) /\ contain(q, FALSE)
    /\ Begin(c, [Idle EXCEPT !.op = "move", !.step = "look", !.path = p, !.to = q])

\* An archive of two files, extracted below a directory of the sandbox's own.
ImportTar(c) ==
  \E p \in {<<n>> : n \in Names} \cup {Root} :
    /\ p # Root => entry(p, TRUE, TRUE)
    /\ world.write /\ ~world.folder
    /\ CanMkdirAll(tree, p)
    /\ calls[c] = Idle /\ issued < MaxCalls
    /\ issued' = issued + 1
    /\ tree' = MkdirAll(tree, p)
    /\ \E s \in {t \in Names \X Names : t[1] # t[2]} :
         calls' = [calls EXCEPT ![c] = [Idle EXCEPT !.op = "import", !.step = "parents", !.path = p \o <<s[1]>>, !.to = p,
                                                    !.body = Fresh, !.size = 1, !.todo = <<s[2]>>]]
    /\ UNCHANGED <<world, past>>

\* The directories above the destination of a write, a move or an archive's file.
Parents(c) ==
  /\ calls[c].step = "parents"
  /\ LET p == IF calls[c].op = "move" THEN calls[c].to ELSE calls[c].path IN
     \/ /\ parents(p)
        /\ To(c, IF calls[c].op = "move" THEN "rename" ELSE "stage")
        /\ past' = past /\ Same
     \/ ~CanMkdirAll(tree, Parent(p)) /\ Fails(c)

\* The staged file, made exclusively.
Stage(c) ==
  /\ calls[c].step = "stage"
  /\ \/ /\ IsDir(tree, Parent(Staged(c))) /\ ~Exists(tree, Staged(c))
        /\ tree' = [tree EXCEPT ![Staged(c)] = File(calls[c].body, FALSE)]
        /\ To(c, "copy")
        /\ past' = past /\ Same
     \/ (~IsDir(tree, Parent(Staged(c))) \/ Exists(tree, Staged(c))) /\ Fails(c)

\* The reader that bounds a body reads one byte past the bound, and no more.
Read(size) == Min({size, MaxBytes + 1})

\* The body is copied through the descriptor, whole or up to where it failed.
Copy(c) ==
  /\ calls[c].step = "copy"
  /\ \/ /\ Read(calls[c].size) <= MaxBytes
        /\ tree' = IF Read(calls[c].size) = calls[c].size THEN Filled(tree, calls[c].body) ELSE tree
        /\ To(c, "commit")
        /\ past' = past /\ Same
     \/ Fails(c)

\* A rename lands on the exact path it is given.
Landing(p, q) == q
CanLand(p, q) == CanRename(tree, p, Landing(p, q))

\* The body that a rename onto a path replaces, and the staged files it takes along.
Renames(p, q) ==
  LET at == Landing(p, q) IN
  /\ tree' = Rename(tree, p, at)
  /\ past' = [past EXCEPT
       !.stored = @ \cup Bodies(tree', {at} \cap Callers),
       !.dropped = @ \cup (Bodies(tree, {at}) \ Bodies(tree', {at})),
       !.crossed = @ \/ \E r \in Staging : Below(p, r) /\ Exists(tree, r)]

\* The rename onto the name; an archive goes on with its next file.
Commit(c) ==
  /\ calls[c].step = "commit"
  /\ \/ /\ CanLand(Staged(c), calls[c].path)
        /\ Renames(Staged(c), calls[c].path)
        /\ calls' = [calls EXCEPT ![c] =
             IF @.todo = <<>> THEN Idle
             ELSE [@ EXCEPT !.step = "parents", !.path = calls[c].to \o <<Head(calls[c].todo)>>, !.todo = Tail(@), !.body = @ + 1]]
        /\ Same
     \/ ~CanLand(Staged(c), calls[c].path) /\ Fails(c)

Make(c) ==
  /\ calls[c].step = "make"
  /\ tree' = IF CanMkdirAll(tree, calls[c].path) THEN MkdirAll(tree, calls[c].path) ELSE tree
  /\ Answer(c)
  /\ past' = past /\ Same

\* A removal empties the directory and then drops it, and fails where a name came back.
Sweep(c) ==
  /\ calls[c].step = "sweep"
  /\ tree' = Swept(tree, calls[c].path)
  /\ past' = [past EXCEPT !.dropped = @ \cup Bodies(tree, {q \in Callers : Below(calls[c].path, q)})]
  /\ To(c, "drop") /\ Same

Drop(c) ==
  /\ calls[c].step = "drop"
  /\ tree' = IF Children(tree, calls[c].path) = {} THEN Dropped(tree, calls[c].path) ELSE tree
  /\ past' = [past EXCEPT !.dropped = @ \cup Bodies(tree, {calls[c].path})]
  /\ Answer(c) /\ Same

\* A move looks at both ends before it makes the parents and renames.
Look(c) ==
  /\ calls[c].step = "look"
  /\ IF Exists(tree, calls[c].path) /\ ~IsDir(tree, calls[c].to) THEN To(c, "parents") ELSE Answer(c)
  /\ UNCHANGED <<tree, past>> /\ Same
MoveRename(c) ==
  /\ calls[c].step = "rename"
  /\ \/ CanLand(calls[c].path, calls[c].to) /\ Renames(calls[c].path, calls[c].to) /\ Answer(c) /\ Same
     \/ ~CanLand(calls[c].path, calls[c].to) /\ Fails(c)

Steps(c) ==
  \/ Parents(c) \/ Stage(c) \/ Copy(c) \/ Commit(c) \/ Make(c) \/ Sweep(c) \/ Drop(c)
  \/ Look(c) \/ MoveRename(c)
Next ==
  \E c \in Slots :
    \/ Write(c) \/ Mkdir(c) \/ Remove(c) \/ Move(c) \/ ImportTar(c)
    \/ Steps(c)

Fairness ==
  /\ \A c \in Slots : WF_vars(Steps(c))

Spec == Init /\ [][Next]_vars /\ Fairness

-----------------------------------------------------------------------------
(* Properties *)

\* Every name holds an entry, none lies below what is not a directory, and a
\* call in flight is at a step of its own operation.
TypeOK ==
  /\ DOMAIN tree = Paths
  /\ \A p \in Paths : Exists(tree, p) => IsDir(tree, Parent(p))
  /\ \A c \in Slots : calls[c].op = "none" <=> calls[c] = Idle
  /\ issued \in 0..MaxCalls

\* A name a caller uses never reads as part of a body: a body that fails or
\* passes the bound leaves the previous file whole (Driver.Write, importFile).
Whole == \A p \in Callers : tree[p].kind = "file" => tree[p].whole

\* A body that was stored stays under some name until a call removes it or
\* replaces it, however the calls cross: no error path loses another's file.
NothingLost == past.stored \ past.dropped \subseteq Bodies(tree, Callers)

\* When no call runs, nothing staged is left behind (Driver.Write's deferred
\* removal), unless a move took the directory along while a body was staged in it.
NoStray ==
  (\A c \in Slots : calls[c] = Idle) /\ ~past.crossed => \A p \in Staging : ~Exists(tree, p)

\* A folder the host grants read-only is never changed by a file operation
\* (Driver.entry), and an archive is never extracted into a host folder.
GrantHeld == [][~world.write => tree' = tree]_vars

\* Every call answers: no step waits for another call.
CallsEnd == \A c \in Slots : (calls[c] # Idle) ~> (calls[c] = Idle)
=============================================================================
