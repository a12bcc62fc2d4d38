------------------------------ MODULE FileTree ------------------------------
(***************************************************************************)
(* A workspace as the file operations of the drivers meet it: names two    *)
(* deep, each naming nothing, a directory, a file with the body of one     *)
(* write, or a link that leaves the workspace; and what the operating      *)
(* system's own calls make of one (mkdir -p, a rename, a removal). It is   *)
(* external to the code: os.Root serves the drivers of runtime/local and   *)
(* runtime/native, and the utilities of the image serve                    *)
(* runtime/internal/fileshell.                                             *)
(***************************************************************************)
EXTENDS Naturals, Sequences

CONSTANTS
  Names,  \* the names a caller uses
  Slots   \* the calls that run side by side; one's staged name is its own

Empty == [kind |-> "none", body |-> 0, whole |-> FALSE]
Dir == [kind |-> "dir", body |-> 0, whole |-> FALSE]
Link == [kind |-> "link", body |-> 0, whole |-> FALSE]
File(body, whole) == [kind |-> "file", body |-> body, whole |-> whole]

Callers == {<<n>> : n \in Names} \cup (Names \X Names)
Staging == {<<c>> : c \in Slots} \cup (Names \X Slots)
Paths == Callers \cup Staging

Root == <<>>
Parent(p) == SubSeq(p, 1, Len(p) - 1)
Base(p) == p[Len(p)]
Below(p, q) == Len(q) > Len(p) /\ SubSeq(q, 1, Len(p)) = p
IsDir(t, p) == p # Root => t[p].kind = "dir"
Exists(t, p) == p # Root => t[p].kind # "none"
Children(t, p) == {q \in {p \o <<n>> : n \in Names \cup Slots} \cap Paths : t[q].kind # "none"}

\* The directories mkdir -p of a path makes, where nothing above it is a file.
Above(p) == {SubSeq(p, 1, i) : i \in 1..Len(p)}
CanMkdirAll(t, p) == \A q \in Above(p) : t[q].kind \in {"none", "dir"}
MkdirAll(t, p) == [q \in Paths |-> IF q \in Above(p) THEN Dir ELSE t[q]]

\* A rename moves a name and what is below it. A file replaces what is not a
\* directory, a directory an empty one; a name that would lie deeper than the
\* bound is refused as the file system's own limit refuses it.
CanRename(t, p, q) ==
  /\ Exists(t, p) /\ IsDir(t, Parent(q)) /\ ~Below(p, q)
  /\ IF t[p].kind = "dir"
     THEN t[q].kind \in {"none", "dir"} /\ Children(t, q) = {} /\ (Children(t, p) = {} \/ Len(q) = Len(p))
     ELSE t[q].kind # "dir"
Rename(t, p, q) ==
  IF p = q THEN t
  ELSE [r \in Paths |->
         CASE r = q -> t[p]
           [] Below(q, r) /\ p \o <<Base(r)>> \in Paths -> t[p \o <<Base(r)>>]
           [] r = p \/ Below(p, r) -> Empty
           [] OTHER -> t[r]]

\* A removal of one name, and of what lies below one.
Dropped(t, p) == [t EXCEPT ![p] = Empty]
Swept(t, p) == [q \in Paths |-> IF Below(p, q) THEN Empty ELSE t[q]]

\* What an open descriptor of a body writes, wherever the file is by then.
Filled(t, body) == [q \in Paths |-> IF t[q].kind = "file" /\ t[q].body = body THEN File(body, TRUE) ELSE t[q]]
Bodies(t, S) == {t[q].body : q \in {r \in S : t[r].kind = "file"}}
=============================================================================
