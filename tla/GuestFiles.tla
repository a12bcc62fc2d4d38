----------------------------- MODULE GuestFiles -----------------------------
(***************************************************************************)
(* The file operations of the drivers that reach a workspace from inside   *)
(* the sandbox: the shell programs of runtime/internal/fileshell, carried  *)
(* in by runtime/podman/filestore.go and runtime/k8s/filestore.go. A write *)
(* is two programs and, where either fails, a third that drops what was    *)
(* staged; each program tests and then acts, beside every other, and the   *)
(* container may stop under any of them.                                   *)
(***************************************************************************)
EXTENDS FileTree, FiniteSets, FiniteSetsExt

CONSTANTS
  Trees,     \* what the workspace may hold
  Sizes,     \* the sizes a body may have
  MaxBytes,  \* the bound a write carries
  MaxCalls   \* bound: calls made in all

VARIABLES
  up,      \* whether the container runs
  tree,    \* the workspace
  calls,   \* the calls in flight
  issued,  \* how many calls were made
  past     \* what has happened, for the properties

vars == <<up, tree, calls, issued, past>>

Idle == [op |-> "none", step |-> "none", path |-> Root, to |-> Root, body |-> 0, size |-> 0]

Init ==
  /\ up = TRUE
  /\ tree \in Trees
  /\ calls = [c \in Slots |-> Idle]
  /\ issued = 0
  /\ past = [stored |-> Bodies(tree, Callers), dropped |-> {}, archived |-> {},
             crossed |-> FALSE, nested |-> FALSE, outside |-> FALSE, relinked |-> FALSE]

-----------------------------------------------------------------------------
(* The programs' common parts *)

\* The deepest ancestor that exists resolves inside the workspace.
contain(p, follow) == \A q \in (IF follow THEN Above(p) ELSE Above(Parent(p))) : tree[q].kind # "link"

Staged(c) == Parent(calls[c].path) \o <<c>>

\* mv puts its source inside a destination that is a directory.
Landing(p, q) == IF IsDir(tree, q) THEN q \o <<Base(p)>> ELSE q
CanMv(p, q) == Landing(p, q) \in Paths /\ CanRename(tree, p, Landing(p, q))

To(c, step) == calls' = [calls EXCEPT ![c].step = step]
Answer(c) == calls' = [calls EXCEPT ![c] = Idle]
Quiet == UNCHANGED <<tree, past>>
Same == UNCHANGED <<up, issued>>

\* A program that exits with an error, or is not run at all: a write goes on to drop what it staged.
failure(c) == calls' = [calls EXCEPT ![c] = IF @.op = "write" THEN [@ EXCEPT !.step = "discard"] ELSE Idle]

Mv(p, q) ==
  LET at == Landing(p, q) IN
  /\ CanMv(p, q)
  /\ tree' = Rename(tree, p, at)
  /\ past' = [past EXCEPT
       !.stored = @ \cup Bodies(tree', {at}),
       !.dropped = @ \cup (Bodies(tree, {at}) \ Bodies(tree', {at})),
       !.crossed = @ \/ \E r \in Staging : Below(p, r) /\ Exists(tree, r),
       !.nested = @ \/ at # q,
       !.relinked = @ \/ tree[p].kind = "link"]

-----------------------------------------------------------------------------
(* Calls: each begins with the lexical check and its first program's containment *)

Begin(c, call) ==
  /\ calls[c] = Idle /\ issued < MaxCalls /\ up
  /\ issued' = issued + 1
  /\ calls' = [calls EXCEPT ![c] = call]
  /\ UNCHANGED <<up, tree, past>>
Fresh == issued + 2

Write(c) ==
  \E p \in Callers, n \in Sizes :
    contain(p, FALSE) /\ Begin(c, [Idle EXCEPT !.op = "write", !.step = "parents", !.path = p, !.body = Fresh, !.size = n])
Mkdir(c) ==
  \E p \in Callers : contain(p, FALSE) /\ Begin(c, [Idle EXCEPT !.op = "mkdir", !.step = "make", !.path = p])
Remove(c) ==
  \E p \in Callers : contain(p, FALSE) /\ Begin(c, [Idle EXCEPT !.op = "remove", !.step = "sweep", !.path = p])
Move(c) ==
  \E p, q \in Callers :
    /\ p # q /\ contain(p, FALSE) /\ contain(q, FALSE)
    /\ Begin(c, [Idle EXCEPT !.op = "move", !.step = "test", !.path = p, !.to = q])
ImportTar(c) ==
  \E p \in Callers : contain(p, FALSE) /\ Begin(c, [Idle EXCEPT !.op = "import", !.step = "untar", !.path = p, !.body = Fresh])

\* mkdir -p of the directory above: of the staged name, or of where a move goes.
\* A link on the way is followed.
Parents(c) ==
  /\ calls[c].step = "parents"
  /\ LET p == Parent(IF calls[c].op = "move" THEN calls[c].to ELSE calls[c].path)
         led == p # Root /\ tree[p].kind = "link"
     IN
     IF led \/ CanMkdirAll(tree, p)
     THEN /\ tree' = IF led THEN tree ELSE MkdirAll(tree, p)
          /\ To(c, IF calls[c].op = "move" THEN "mv" ELSE "open") /\ past' = past
     ELSE failure(c) /\ Quiet
  /\ Same

\* The shell opens the staged name for what it reads on its input.
OpenStaged(c) ==
  /\ calls[c].step = "open"
  /\ LET p == Parent(Staged(c)) IN
     CASE IsDir(tree, p) -> tree' = [tree EXCEPT ![Staged(c)] = File(calls[c].body, FALSE)] /\ past' = past /\ To(c, "body")
       [] p # Root /\ tree[p].kind = "link" -> past' = [past EXCEPT !.outside = TRUE] /\ tree' = tree /\ failure(c)
       [] OTHER -> failure(c) /\ Quiet
  /\ Same

\* head reads one byte past the bound; wc counts what arrived.
Counted(size) == Min({size, MaxBytes + 1})

\* The program ends with the body it was given: past the bound it drops it, and a body that ended early is one the
\* driver does not commit.
Body(c) ==
  /\ calls[c].step = "body"
  /\ \/ /\ Counted(calls[c].size) <= MaxBytes
        /\ tree' = IF Counted(calls[c].size) = calls[c].size THEN Filled(tree, calls[c].body) ELSE tree
        /\ To(c, "commit")
     \/ /\ Counted(calls[c].size) > MaxBytes
        /\ tree' = Dropped(tree, Staged(c))
        /\ failure(c)
     \/ tree' = tree /\ failure(c)
  /\ past' = past /\ Same

\* The second program's tests, and its rename.
Commit(c) ==
  /\ calls[c].step = "commit"
  /\ CASE ~contain(calls[c].path, FALSE) \/ ~Exists(tree, Staged(c)) -> failure(c) /\ tree' = tree
       [] IsDir(tree, calls[c].path) -> failure(c) /\ tree' = Dropped(tree, Staged(c))
       [] OTHER -> To(c, "mv") /\ tree' = tree
  /\ past' = past /\ Same
MvStaged(c) ==
  /\ calls[c].step = "mv" /\ calls[c].op = "write"
  /\ \/ Mv(Staged(c), calls[c].path) /\ Answer(c)
     \/ ~CanMv(Staged(c), calls[c].path) /\ failure(c) /\ Quiet
  /\ Same

\* The third program, outside the caller's cancellation; its own failure is not told.
Discard(c) ==
  /\ calls[c].step = "discard"
  /\ tree' = IF up /\ contain(calls[c].path, FALSE) THEN Dropped(tree, Staged(c)) ELSE tree
  /\ Answer(c)
  /\ past' = past /\ Same

Make(c) ==
  /\ calls[c].step = "make"
  /\ tree' = IF CanMkdirAll(tree, calls[c].path) THEN MkdirAll(tree, calls[c].path) ELSE tree
  /\ Answer(c)
  /\ past' = past /\ Same

\* rm -rf empties a directory and then drops it.
Sweep(c) ==
  /\ calls[c].step = "sweep"
  /\ tree' = Swept(tree, calls[c].path)
  /\ past' = [past EXCEPT !.dropped = @ \cup Bodies(tree, {q \in Paths : Below(calls[c].path, q)})]
  /\ To(c, "drop") /\ Same

Drop(c) ==
  /\ calls[c].step = "drop"
  /\ tree' = IF Children(tree, calls[c].path) = {} THEN Dropped(tree, calls[c].path) ELSE tree
  /\ past' = [past EXCEPT !.dropped = @ \cup Bodies(tree, {calls[c].path})]
  /\ Answer(c) /\ Same

Test(c) ==
  /\ calls[c].step = "test"
  /\ IF Exists(tree, calls[c].path) /\ ~IsDir(tree, calls[c].to) THEN To(c, "parents") ELSE Answer(c)
  /\ Quiet /\ Same
MvTo(c) ==
  /\ calls[c].step = "mv" /\ calls[c].op = "move"
  /\ \/ Mv(calls[c].path, calls[c].to) /\ Answer(c)
     \/ ~CanMv(calls[c].path, calls[c].to) /\ failure(c) /\ Quiet
  /\ Same

\* tar writes a file in place: what the name held goes first.
Untar(c) ==
  /\ calls[c].step = "untar"
  /\ IF CanMkdirAll(tree, Parent(calls[c].path)) /\ ~IsDir(tree, calls[c].path)
     THEN /\ tree' = [MkdirAll(tree, Parent(calls[c].path)) EXCEPT ![calls[c].path] = File(calls[c].body, FALSE)]
          /\ past' = [past EXCEPT !.dropped = @ \cup Bodies(tree, {calls[c].path}), !.archived = @ \cup {calls[c].body}]
          /\ To(c, "fill")
     ELSE Quiet /\ Answer(c)
  /\ Same
Fill(c) ==
  /\ calls[c].step = "fill"
  /\ tree' = Filled(tree, calls[c].body) \/ tree' = tree
  /\ Answer(c)
  /\ past' = past /\ Same

\* The container is gone: a program in it ends where it is, and its driver answers the failure.
Cut(c) ==
  /\ ~up /\ calls[c].step \notin {"none", "discard"}
  /\ failure(c) /\ Quiet /\ Same
Stops ==
  /\ up
  /\ up' = FALSE
  /\ UNCHANGED <<tree, calls, issued, past>>

Steps(c) ==
  \/ /\ up
     /\ \/ Parents(c) \/ OpenStaged(c) \/ Body(c) \/ Commit(c) \/ MvStaged(c) \/ Make(c) \/ Sweep(c) \/ Drop(c)
        \/ Test(c) \/ MvTo(c) \/ Untar(c) \/ Fill(c)
  \/ Discard(c) \/ Cut(c)
Next ==
  \/ \E c \in Slots :
       \/ Write(c) \/ Mkdir(c) \/ Remove(c) \/ Move(c) \/ ImportTar(c)
       \/ Steps(c)
  \/ Stops

Fairness ==
  /\ \A c \in Slots : WF_vars(Steps(c))

Spec == Init /\ [][Next]_vars /\ Fairness

-----------------------------------------------------------------------------
(* Properties *)

\* Every name holds an entry, none lies below what is not a directory, and a
\* call in flight is at a step of its own operation.
TypeOK ==
  /\ DOMAIN tree = Paths
  /\ \A p \in Paths : Exists(tree, p) => IsDir(tree, Parent(p))
  /\ \A c \in Slots : calls[c].op = "none" <=> calls[c] = Idle
  /\ issued \in 0..MaxCalls

\* A name a caller uses never reads as part of a write's body, wherever the
\* container stopped: nothing is renamed onto it until the caller's copy has
\* finished (Driver.Write). Only an archive's file is written in place.
Whole == \A p \in Callers : tree[p].kind = "file" /\ ~tree[p].whole => tree[p].body \in past.archived

\* A body that was stored stays until a call removes it or replaces it.
NothingLost == past.stored \ past.dropped \subseteq Bodies(tree, Paths)

\* When no call runs, nothing staged is left behind (discard): unless the
\* container stopped, a move took the directory along, or a directory that
\* appeared under a commit's test took the staged file in.
NoStray ==
  (\A c \in Slots : calls[c] = Idle) /\ up /\ ~past.crossed /\ ~past.nested => \A p \in Staging : ~Exists(tree, p)

\* Nothing is written outside the workspace (contain), unless a link was
\* moved onto a name between a program's check and its write.
Contained == past.outside => past.relinked

\* Every call answers, whether or not its container is there.
CallsEnd == \A c \in Slots : (calls[c] # Idle) ~> (calls[c] = Idle)
=============================================================================
