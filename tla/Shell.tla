------------------------------- MODULE Shell -------------------------------
\* The shell that serves a command line over mounted folders, as three parts that
\* share no state: what a line may name, the files its programs change, and the
\* bounds of its run.
EXTENDS Naturals, Sequences, FiniteSets

-----------------------------------------------------------------------------
(***************************************************************************)
(* shell.Check against shell.Run: the walk that decides, before anything   *)
(* runs, that a command line names served paths only (shell/check.go,      *)
(* shell/words.go), beside what the line then does (shell/run.go over the  *)
(* interpreter).                                                           *)
(*                                                                         *)
(* A line is a tree of commands.  Paths are sequences of elements; the one *)
(* mount is <<"n">>, so <<"o">> is a path no mount serves.  The walk keeps *)
(* the directories the shell may be in, and the values each variable may   *)
(* take: an exact path, a match under a directory, or a value known only   *)
(* once something has run.                                                 *)
(***************************************************************************)

CONSTANTS Mounts, Leaves, Depth, MaxAlts

VARIABLES line, start, at, plan, runs

checkVars == <<line, start, at, plan, runs>>

-----------------------------------------------------------------------------
(* Paths (shell.go).                                                       *)

Unserved == <<"?">>
Abs(e) == [abs |-> TRUE, el |-> e]
Rel(e) == [abs |-> FALSE, el |-> e]

RECURSIVE Clean(_, _)
Clean(done, rest) ==
  IF rest = <<>> THEN done
  ELSE Clean(CASE Head(rest) = ".." -> IF done = <<>> THEN done ELSE SubSeq(done, 1, Len(done) - 1)
               [] Head(rest) = "."  -> done
               [] OTHER             -> Append(done, Head(rest)), Tail(rest))

\* A relative path against a directory no mount serves stays unserved.
clean(dir, p) ==
  IF p.abs THEN Clean(<<>>, p.el) ELSE IF dir = Unserved THEN Unserved ELSE Clean(dir, p.el)

within(p, d) == Len(p) >= Len(d) /\ SubSeq(p, 1, Len(d)) = d
serves(p) == p # Unserved /\ \E m \in Mounts : within(p, m)

-----------------------------------------------------------------------------
(* Lines.  A leaf is cd, a program or a redirection on a path, an          *)
(* assignment, read, or a program on the variable, quoted or bare.         *)

Binary == {"seq", "and", "or", "pipe"}
Unary == {"not", "sub", "while", "for"}

RECURSIVE LinesOf(_)
LinesOf(d) ==
  IF d = 0 THEN Leaves
  ELSE LET L == LinesOf(d - 1)
       IN  Leaves
           \cup {[op |-> o, x |-> x] : o \in Unary, x \in L}
           \cup {[op |-> o, x |-> x, y |-> y] : o \in Binary, x \in Leaves, y \in L}
           \cup {[op |-> o, x |-> x, y |-> y] : o \in Binary, x \in L, y \in Leaves}
           \cup {[op |-> "if", x |-> x, y |-> y] : x \in Leaves, y \in L}

-----------------------------------------------------------------------------
(* The walk (checker).  `c' is the walk's state: the refusal, the values   *)
(* of the variable, and the depth of loops and pipes, where cd is refused. *)

Exact(p) == [kind |-> "exact", p |-> p]
Under(d) == [kind |-> "under", p |-> Abs(d)]
Dynamic == [kind |-> "dynamic", p |-> Abs(<<>>)]

refuse(c, r) == IF c.plan = "" THEN [c EXCEPT !.plan = r] ELSE c

\* assign joins: the walk does not know which branch set the variable last.
assign(c, vals) ==
  LET all == c.alts \cup vals
  IN  [c EXCEPT !.known = TRUE, !.alts = IF Cardinality(all) > MaxAlts THEN {Dynamic} ELSE all]

pathAlt(c, a, in) ==
  CASE a.kind = "exact" -> IF \A d \in in : serves(clean(d, a.p)) THEN c ELSE refuse(c, "path")
    [] a.kind = "under" -> c
    [] OTHER            -> refuse(c, "expansion")

RECURSIVE pathAlts(_, _, _)
pathAlts(c, as, in) ==
  IF as = {} THEN c
  ELSE LET a == CHOOSE a \in as : TRUE IN pathAlts(pathAlt(c, a, in), as \ {a}, in)

\* A quoted variable is read as it is.  An unquoted one alone, with one exact
\* value, is that value; any other may split, which decides a call's words.
pathField(c, in) ==
  IF ~c.known THEN refuse(c, "expansion") ELSE pathAlts(c, c.alts, in)
word(c, in) ==
  IF c.known /\ Cardinality(c.alts) = 1 /\ \A a \in c.alts : a.kind = "exact"
  THEN pathField(c, in) ELSE refuse(c, "expansion")

globDirs(c, d0, in) ==
  LET ds == {clean(d, d0) : d \in in}
  IN  [c |-> IF \A d \in ds : serves(d) THEN c ELSE refuse(c, "path"), dirs |-> ds]

Out(c, ok, failed) == [c |-> c, ok |-> ok, failed |-> failed]

cd(c, t, in) ==
  LET to == {clean(d, t) : d \in in}
  IN  IF c.noCd > 0 THEN Out(refuse(c, "construct"), in, in)
      ELSE IF \E p \in to : ~serves(p) THEN Out(refuse(c, "path"), in, in)
      ELSE Out(c, to, IF to \subseteq Mounts THEN {} ELSE in)

\* A call of a builtin or a program of the package; none but cd moves.
call(c, x, in) ==
  CASE x.op = "cd"     -> cd(c, x.p, in)
    [] x.op = "use"    -> Out(pathAlt(c, Exact(x.p), in), in, in)
    [] x.op = "assign" -> Out(assign(c, {Exact(x.p)}), in, in)
    [] x.op = "read"   -> Out(assign(c, {Dynamic}), in, in)
    [] x.op = "var"    -> Out(pathField(c, in), in, in)
    [] x.op = "word"   -> Out(word(c, in), in, in)

NoCd(c, n) == [c EXCEPT !.noCd = @ + n]

RECURSIVE stmt(_, _, _)
command(c, x, in) ==
  CASE x.op = "seq" ->
         LET a == stmt(c, x.x, in) IN
         IF a.c.plan # "" THEN Out(a.c, in, in) ELSE stmt(a.c, x.y, a.ok \cup a.failed)
    [] x.op = "and" ->
         LET a == stmt(c, x.x, in)
             b == stmt(a.c, x.y, a.ok) IN Out(b.c, b.ok, a.failed \cup b.failed)
    [] x.op = "or" ->
         LET a == stmt(c, x.x, in)
             b == stmt(a.c, x.y, a.failed) IN Out(b.c, a.ok \cup b.ok, b.failed)
    [] x.op = "if" ->
         LET a == stmt(c, x.x, in)
             b == stmt(a.c, x.y, a.ok) IN Out(b.c, b.ok \cup a.failed, b.failed)
    [] x.op = "pipe" ->
         LET a == stmt(NoCd(c, 1), x.x, in)
             b == stmt(a.c, x.y, in) IN Out(NoCd(b.c, 0 - 1), in, in)
    [] x.op = "sub" -> Out(stmt(c, x.x, in).c, in, in)
    [] x.op = "not" -> LET a == stmt(c, x.x, in) IN Out(a.c, a.failed, a.ok)
    [] x.op = "while" -> Out(NoCd(stmt(NoCd(c, 1), x.x, in).c, 0 - 1), in, in)
    [] x.op = "for" ->
         LET g == globDirs(c, Abs(<<"n">>), in)
             v == assign(g.c, {Under(d) : d \in g.dirs})
         IN  Out(NoCd(stmt(NoCd(v, 1), x.x, in).c, 0 - 1), in, in)

stmt(c, x, in) ==
  IF x.op \in Binary \cup Unary \cup {"if"} THEN command(c, x, in) ELSE call(c, x, in)

Fresh == [plan |-> "", known |-> FALSE, alts |-> {}, noCd |-> 0]
Check(x, dir) == stmt(Fresh, x, {IF serves(dir) THEN dir ELSE Unserved})

-----------------------------------------------------------------------------
(* The run.  A state is the shell's directory and the variable's value;    *)
(* an outcome adds whether the command succeeded and the paths it used.  A *)
(* program, or a cd to a directory that may not be there, may fail.        *)

Unset == Rel(<<"unset">>)
Res(dir, v, ok, used) == [dir |-> dir, v |-> v, ok |-> ok, used |-> used]

\* An unset variable is the empty word quoted, which names nothing, and no
\* word at all unquoted: ls then reads the shell's directory.
Used(dir, v, bare) == IF v # Unset THEN {clean(dir, v)} ELSE IF bare THEN {dir} ELSE {}

runLeaf(x, s) ==
  CASE x.op = "cd" ->
         LET to == clean(s.dir, x.p)
         IN  {Res(to, s.v, TRUE, s.used \cup {to})}
             \cup (IF to \in Mounts THEN {} ELSE {Res(s.dir, s.v, FALSE, s.used \cup {to})})
    [] x.op = "use" -> {Res(s.dir, s.v, b, s.used \cup {clean(s.dir, x.p)}) : b \in BOOLEAN}
    [] x.op = "assign" -> {Res(s.dir, x.p, TRUE, s.used)}
    [] x.op = "read" -> {Res(s.dir, Abs(<<"o">>), b, s.used) : b \in BOOLEAN}
    [] x.op \in {"var", "word"} ->
         {Res(s.dir, s.v, b, s.used \cup Used(s.dir, s.v, x.op = "word")) : b \in BOOLEAN}

RECURSIVE run(_, _)
runAll(x, ss) == UNION {run(x, s) : s \in ss}
\* What a subshell did stays in it, but for the paths it used.
apart(s, rs) == {Res(s.dir, s.v, r.ok, r.used) : r \in rs}
run(x, s) ==
  CASE x.op = "seq" -> runAll(x.y, run(x.x, s))
    [] x.op = "and" -> LET a == run(x.x, s) IN runAll(x.y, {r \in a : r.ok}) \cup {r \in a : ~r.ok}
    [] x.op = "or"  -> LET a == run(x.x, s) IN runAll(x.y, {r \in a : ~r.ok}) \cup {r \in a : r.ok}
    [] x.op = "if"  -> LET a == run(x.x, s)
                       IN  runAll(x.y, {r \in a : r.ok}) \cup {[r EXCEPT !.ok = TRUE] : r \in {q \in a : ~q.ok}}
    [] x.op = "pipe" -> UNION {apart(s, run(x.y, [s EXCEPT !.used = r.used])) : r \in run(x.x, s)}
    [] x.op = "sub" -> apart(s, run(x.x, s))
    [] x.op = "not" -> {[r EXCEPT !.ok = ~@] : r \in run(x.x, s)}
    [] x.op = "while" -> LET one == run(x.x, s) IN {[s EXCEPT !.ok = TRUE]} \cup one \cup runAll(x.x, one)
    [] x.op = "for" ->
         LET f == Abs(<<"n", "m">>)
             one == run(x.x, [s EXCEPT !.v = f])
         IN  {[s EXCEPT !.ok = TRUE]} \cup one \cup UNION {run(x.x, [r EXCEPT !.v = f]) : r \in one}
    [] OTHER -> runLeaf(x, s)

Run(x, dir) == run(x, Res(IF serves(dir) THEN dir ELSE Unserved, Unset, TRUE, {}))

-----------------------------------------------------------------------------
(* One line: Check reads it, and Run runs one that was allowed.            *)

CheckInit ==
  /\ line \in LinesOf(Depth)
  /\ start \in {<<"n">>, <<"o">>}
  /\ at = "given" /\ plan = "" /\ runs = {}

DoCheck ==
  /\ at = "given"
  /\ plan' = Check(line, start).c.plan
  /\ at' = IF plan' = "" THEN "allowed" ELSE "declined"
  /\ UNCHANGED <<line, start, runs>>

DoRun ==
  /\ at = "allowed"
  /\ runs' = Run(line, start)
  /\ at' = "ran"
  /\ UNCHANGED <<line, start, plan>>

Done == at \in {"declined", "ran"} /\ UNCHANGED checkVars

CheckNext == DoCheck \/ DoRun \/ Done
CheckSpec == CheckInit /\ [][CheckNext]_checkVars

-----------------------------------------------------------------------------
(* Properties.                                                             *)

RECURSIVE Has(_, _)
Has(x, ops) ==
  \/ x.op \in ops
  \/ x.op \in Binary \cup Unary \cup {"if"} /\ Has(x.x, ops)
  \/ x.op \in Binary \cup {"if"} /\ Has(x.y, ops)

\* A variable assigned where the line may or may not come to, or comes to
\* again: in a loop, a subshell or a pipe, or after a command's status.
Assigns == {"assign", "read", "for"}
RECURSIVE Maybe(_, _)
Maybe(x, under) ==
  CASE x.op \in Assigns \ {"for"} -> under
    [] x.op = "seq" -> Maybe(x.x, under) \/ Maybe(x.y, under)
    [] x.op \in {"and", "or", "if"} -> Maybe(x.x, under) \/ Maybe(x.y, TRUE)
    [] x.op = "not" -> Maybe(x.x, under)
    [] x.op = "for" -> TRUE
    [] x.op = "pipe" -> Has(x.x, Assigns) \/ Has(x.y, Assigns)
    [] x.op \in {"sub", "while"} -> Has(x.x, Assigns)
    [] OTHER -> FALSE

\* The walk's verdict is one of the closed set of reasons, and only a line it
\* allowed runs.
CheckTypeOK ==
  /\ plan \in {"", "path", "expansion", "construct"}
  /\ at = "ran" => plan = ""
  /\ \A r \in runs : r.ok \in BOOLEAN

\* "Every path it names ... is served": whatever fails or succeeds on the way,
\* a line Check allows, whose variables are set on every way to their use,
\* uses served paths only, in every directory it comes to.
ServedOnly ==
  at = "ran" /\ ~Maybe(line, FALSE) => \A r \in runs : \A p \in r.used : serves(p)

\* The walk's directories are the ones the shell may be in: where a line ends
\* is one of them, told apart by the status it ended with.
DirsKnown ==
  at = "ran" =>
    LET w == Check(line, start)
    IN  \A r \in runs : r.dir \in (IF r.ok THEN w.ok ELSE w.failed)

-----------------------------------------------------------------------------
(***************************************************************************)
(* The files a command line of the shell package reads and changes: the    *)
(* view its programs share (shell/files.go), with the directories mkdir    *)
(* made and the listings it keeps, and the programs that change files      *)
(* (shell/change.go): mkdir, rm -r, mv, cp -r, touch and a redirection.    *)
(*                                                                         *)
(* The line is a pipe of two programs, which run at once over one view,    *)
(* then a third after it.  A program is the list of the steps it still     *)
(* takes; a step is one call of the file system, or one hold of the view's *)
(* lock.  The file system may rename in one step (Renamer), keep           *)
(* directories (DirMaker), and fail a call.                                *)
(***************************************************************************)

CONSTANTS
  Paths,          \* every path the commands and the files reach
  Folders,         \* the served folders: [dir, ro]
  Files0,         \* the files at the start: path -> content
  Lines,          \* the lines tried: <<first, second, third>>
  Worlds,         \* [renamer, dirmaker] of the file system
  MaxFaults

VARIABLES world, fs, dirs, made, listing, st, faults, past

filesVars == <<world, fs, dirs, made, listing, st, faults, past>>

None == "none"
Stages == 1 .. 3

-----------------------------------------------------------------------------
(* Paths and mounts.                                                       *)

Dir(p) == SubSeq(p, 1, Len(p) - 1)
Base(p) == p[Len(p)]
inside(p, d) == Len(p) >= Len(d) /\ SubSeq(p, 1, Len(d)) = d
Serving(p) == {m \in Folders : inside(p, m.dir)}
servesAt(p) == Serving(p) # {}

\* Bug: the shortest mount that holds the path.
mountOfShortest(p) == CHOOSE m \in Serving(p) : \A o \in Serving(p) : Len(o.dir) >= Len(m.dir)

\* The longest mount that holds the path.
mountOf(p) == CHOOSE m \in Serving(p) : \A o \in Serving(p) : Len(o.dir) <= Len(m.dir)
readOnly(p) == ~servesAt(p) \/ mountOf(p).ro
isMountDir(p) == \E m \in Folders : m.dir = p
holdsMount(p) == \E m \in Folders : inside(m.dir, p)
Moved(p, from, to) == to \o SubSeq(p, Len(from) + 1, Len(p))

-----------------------------------------------------------------------------
(* The file system and the view over it.                                   *)

IsFile(p) == p \in Paths /\ fs[p] # None
\* A file system that keeps no directories has those its files are in.
FsDir(p) == IF world.dirmaker THEN p \in dirs ELSE \E q \in Paths : q # p /\ inside(q, p) /\ fs[q] # None
IsDir(p) == servesAt(p) /\ ~IsFile(p) /\ (FsDir(p) \/ p \in made \/ isMountDir(p))
Exists(p) == servesAt(p) /\ (IsFile(p) \/ IsDir(p))

Entries(p) == {[n |-> Base(q), dir |-> IsDir(q)] : q \in {r \in Paths : Len(r) = Len(p) + 1 /\ inside(r, p) /\ Exists(r)}}

writable(p) == servesAt(p) /\ ~IsDir(p) /\ IsDir(Dir(p)) /\ ~readOnly(p)
changed == listing' = [p \in Paths |-> [kept |-> FALSE, ents |-> {}]]

Step(k, p, q, c) == [k |-> k, p |-> p, q |-> q, c |-> c]
Do(k, p, q) == Step(k, p, q, None)

\* The stages that may run: the pipe's two, then the third.
Runs(i) == st[i].todo # <<>> /\ (i = 3 => st[1].todo = <<>> /\ st[2].todo = <<>>)
At(i, k) == Runs(i) /\ Head(st[i].todo).k = k
Op(i) == Head(st[i].todo)
Rest(i) == Tail(st[i].todo)

Goes(i, more) == st' = [st EXCEPT ![i].todo = more \o Rest(i)]

\* A failure is told, and the program goes on with the rest of its work; what
\* holds the path it could not change is left as well.
Fails(i, p) == st' = [st EXCEPT ![i].todo = Rest(i), ![i].bad = @ \cup {p}, ![i].code = 1]
\* A failure that ends the program.
Aborts(i) == st' = [st EXCEPT ![i].todo = <<>>, ![i].code = 1]
\* A step of a move within one mount ends the move when it fails.
Stops(i) == IF Op(i).c = "abort" THEN Aborts(i) ELSE Fails(i, Op(i).p)
\* A directory that could not be read: the step that waits for its entries goes.
Unlisted(i) ==
  IF Op(i).c = "abort" \/ Head(Rest(i)).c = "abort" THEN Aborts(i)
  ELSE st' = [st EXCEPT ![i].todo = Tail(Rest(i)), ![i].bad = @ \cup {Op(i).p}, ![i].code = 1]

Unchanged == UNCHANGED <<world, fs, dirs, made, listing, faults, past>>
Raced == past' = [past EXCEPT !.raced = @ \/ \E j \in Stages : st[j].todo # <<>> /\ Head(st[j].todo).k = "keep"]

-----------------------------------------------------------------------------
(* files: readDir, write, remove, mkdir, rmdir.                            *)

\* readDir answers a listing kept, and otherwise reads the directory, adds
\* what was made in it and what is mounted in it, and keeps the listing.
ReadDir(i) ==
  /\ At(i, "list")
  /\ LET p == Op(i).p
     IN  \/ /\ listing[p].kept
            /\ st' = [st EXCEPT ![i].todo = Rest(i), ![i].ents = listing[p].ents]
         \/ /\ ~listing[p].kept /\ IsDir(p)
            /\ st' = [st EXCEPT ![i].todo = <<Do("keep", p, p)>> \o Rest(i), ![i].ents = Entries(p)]
         \/ /\ ~listing[p].kept /\ ~IsDir(p)
            /\ IF Op(i).c = "rmdir" THEN st' = [st EXCEPT ![i].todo = Tail(Rest(i))] ELSE Unlisted(i)
  /\ Unchanged

Keep(i) ==
  /\ At(i, "keep")
  /\ listing' = [listing EXCEPT ![Op(i).p] = [kept |-> TRUE, ents |-> st[i].ents]]
  /\ st' = [st EXCEPT ![i].todo = Rest(i)]
  /\ UNCHANGED <<world, fs, dirs, made, faults, past>>

\* WriteFile, once writable agreed to it.
Write(i) ==
  /\ At(i, "write")
  /\ LET o == Op(i)
     IN  IF writable(o.p)
         THEN /\ fs' = [fs EXCEPT ![o.p] = o.c]
              /\ past' = [past EXCEPT !.raced = @ \/ \E j \in Stages : At(j, "keep"),
                                      !.over = @ \cup ({fs[o.p]} \ {None, o.c})]
              /\ changed /\ Goes(i, <<>>)
              /\ UNCHANGED <<world, dirs, made, faults>>
         ELSE Fails(i, o.p) /\ Unchanged

remove(i) ==
  /\ At(i, "remove")
  /\ LET p == Op(i).p
     IN  CASE readOnly(p) -> Fails(i, p) /\ Unchanged
           [] ~readOnly(p) /\ IsFile(p) ->
                /\ fs' = [fs EXCEPT ![p] = None]
                /\ Raced /\ changed /\ Goes(i, <<>>)
                /\ UNCHANGED <<world, dirs, made, faults>>
           [] OTHER -> Fails(i, p) /\ changed /\ UNCHANGED <<world, fs, dirs, made, faults, past>>

CanMake(p) == ~Exists(p) /\ IsDir(Dir(p)) /\ ~readOnly(p)

mkdir(i) ==
  /\ At(i, "mkdir")
  /\ LET p == Op(i).p
     IN  IF CanMake(p)
         THEN /\ IF world.dirmaker THEN dirs' = dirs \cup {p} /\ UNCHANGED made
                                   ELSE made' = made \cup {p} /\ UNCHANGED dirs
              /\ Raced /\ changed /\ Goes(i, <<>>)
              /\ UNCHANGED <<world, fs, faults>>
         ELSE Stops(i) /\ Unchanged

\* rm's rmdir goes only when nothing under the directory stayed.
RmdirAsk(i) ==
  /\ At(i, "rmdir")
  /\ LET p == Op(i).p
         stayed == Op(i).c # "abort" /\ \E b \in st[i].bad : inside(b, p) /\ b # p
     IN  IF isMountDir(p) \/ readOnly(p) \/ stayed THEN Stops(i)
         ELSE Goes(i, <<Step("list", p, p, "rmdir"), Step("rmdirEnd", p, p, Op(i).c)>>)
  /\ Unchanged

Rmdir(i) ==
  /\ At(i, "rmdirEnd")
  /\ LET p == Op(i).p
         holds == \E q \in Paths : q # p /\ inside(q, p) /\ (IsFile(q) \/ q \in dirs)
     IN  IF st[i].ents # {} THEN Stops(i) /\ Unchanged
         ELSE IF world.dirmaker /\ (holds \/ p \notin dirs)
         THEN /\ made' = made \ {p}
              /\ changed /\ Stops(i)
              /\ UNCHANGED <<world, fs, dirs, faults, past>>
         ELSE /\ made' = made \ {p}
              /\ dirs' = dirs \ {p}
              /\ Raced /\ changed /\ Goes(i, <<>>)
              /\ UNCHANGED <<world, fs, faults>>

-----------------------------------------------------------------------------
(* rm -r.                                                                  *)

Rm(i) ==
  /\ At(i, "rm")
  /\ LET p == Op(i).p
     IN  IF ~Exists(p) \/ (IsDir(p) /\ holdsMount(p)) THEN Fails(i, p)
         ELSE Goes(i, <<Step("tree", p, p, IF IsDir(p) THEN "dir" ELSE "file")>>)
  /\ Unchanged

\* removeTree: first what is under the directory.
removeTree(i) ==
  /\ At(i, "tree")
  /\ LET o == Op(i)
     IN  IF o.c = "file" THEN Goes(i, <<Do("remove", o.p, o.p)>>)
         ELSE Goes(i, <<Do("list", o.p, o.p), Do("trees", o.p, o.p)>>)
  /\ Unchanged

SeqOf(S) == CHOOSE s \in [1 .. Cardinality(S) -> S] : \A a, b \in DOMAIN s : s[a] = s[b] => a = b
Kind(e) == IF e.dir THEN "dir" ELSE "file"

RemoveEntries(i) ==
  /\ At(i, "trees")
  /\ LET p == Op(i).p
         es == SeqOf(st[i].ents)
     IN  Goes(i, [j \in DOMAIN es |-> Step("tree", Append(p, es[j].n), p, Kind(es[j]))] \o <<Do("rmdir", p, p)>>)
  /\ Unchanged

-----------------------------------------------------------------------------
(* cp -r.  A source that stays is told; the others are copied.             *)

\* A target that is a directory takes the source under its own name.
pairs(p, q) == IF IsDir(q) THEN Append(q, Base(p)) ELSE q

Cp(i) ==
  /\ At(i, "cp")
  /\ LET o == Op(i) IN
     IF ~Exists(o.p) THEN Fails(i, o.p)
     ELSE Goes(i, <<Step("copy", o.p, pairs(o.p, o.q), IF IsDir(o.p) THEN "dir" ELSE "file")>>)
  /\ Unchanged

Copy(i) ==
  /\ At(i, "copy")
  /\ LET o == Op(i)
     IN  IF o.c = "file"
         THEN IF IsDir(o.q) \/ ~IsFile(o.p) THEN Fails(i, o.p) ELSE Goes(i, <<Step("write", o.q, o.q, fs[o.p])>>)
         ELSE IF inside(o.q, o.p) \/ IsFile(o.q) THEN Fails(i, o.p)
         ELSE Goes(i, (IF Exists(o.q) THEN <<>> ELSE <<Do("mkdir", o.q, o.q)>>)
                      \o <<Do("copyList", o.p, o.q)>>)
  /\ Unchanged

\* A directory that could not be made takes no entries.
CopyList(i) ==
  /\ At(i, "copyList")
  /\ LET o == Op(i) IN
     IF o.q \in st[i].bad THEN Fails(i, o.p)
     ELSE Goes(i, <<Do("list", o.p, o.p), Do("copies", o.p, o.q)>>)
  /\ Unchanged

CopyEntries(i) ==
  /\ At(i, "copies")
  /\ LET o == Op(i)
         es == SeqOf(st[i].ents)
     IN  Goes(i, [j \in DOMAIN es |-> Step("copy", Append(o.p, es[j].n), Append(o.q, es[j].n), Kind(es[j]))])
  /\ Unchanged

-----------------------------------------------------------------------------
(* mv.                                                                     *)

\* To another mount it copies, then removes the original unless the copy
\* failed; within one it renames.
move(i) ==
  /\ At(i, "mv")
  /\ LET p == Op(i).p
         q == pairs(p, Op(i).q)
         kind == IF IsDir(p) THEN "dir" ELSE "file"
     IN  IF ~Exists(p) \/ p = q \/ (IsDir(p) /\ inside(q, p)) \/ holdsMount(p) THEN Fails(i, p)
         ELSE IF mountOf(p) # mountOf(q)
         THEN IF ~IsDir(Dir(q)) \/ mountOf(q).ro THEN Fails(i, p)
              ELSE Goes(i, <<Step("copy", p, q, kind), Step("original", p, p, kind)>>)
         ELSE IF (Exists(q) /\ IsDir(p) # IsDir(q)) \/ readOnly(p) THEN Fails(i, p)
         ELSE Goes(i, <<Do(IF kind = "file" \/ world.renamer THEN "rename" ELSE "moveTree", p, q)>>)
  /\ Unchanged

moveAcross(i) ==
  /\ At(i, "original")
  /\ LET o == Op(i) IN
     IF st[i].bad = {} THEN Goes(i, <<Step("tree", o.p, o.p, o.c)>>) ELSE Goes(i, <<>>)
  /\ Unchanged

MadeMoved(p, q) == {IF inside(d, p) THEN Moved(d, p, q) ELSE d : d \in made}

Renamed(p, q, r) ==
  IF inside(r, q) /\ Moved(r, q, p) \in Paths THEN fs[Moved(r, q, p)]
  ELSE IF inside(r, p) THEN None ELSE fs[r]

\* One step where the file system can; the directories made go with it.
rename(i) ==
  /\ At(i, "rename")
  /\ LET p == Op(i).p
         q == Op(i).q
     IN  IF ~writable(q) THEN Aborts(i) /\ Unchanged
         ELSE IF ~world.renamer
         THEN /\ (IF IsFile(p) THEN Goes(i, <<Step("write", q, q, fs[p]), Do("moved", p, q)>>) ELSE Aborts(i))
              /\ Unchanged
         ELSE IF ~IsFile(p) /\ ~IsDir(p) THEN Aborts(i) /\ Unchanged
         ELSE /\ fs' = [r \in Paths |-> Renamed(p, q, r)]
              /\ made' = MadeMoved(p, q)
              /\ dirs' = {IF inside(d, p) THEN Moved(d, p, q) ELSE d : d \in dirs}
              /\ past' = [past EXCEPT !.raced = @ \/ \E j \in Stages : At(j, "keep"),
                                      !.over = @ \cup ({fs[q]} \ {None, fs[p]})]
              /\ changed /\ Goes(i, <<>>)
              /\ UNCHANGED <<world, faults>>

\* The old path goes once the new one is written.
RenameRemove(i) ==
  /\ At(i, "moved")
  /\ LET p == Op(i).p IN
     IF Op(i).q \in st[i].bad \/ ~IsFile(p) THEN Aborts(i) /\ Unchanged
     ELSE /\ fs' = [fs EXCEPT ![p] = None]
          /\ Raced /\ changed /\ Goes(i, <<>>)
          /\ UNCHANGED <<world, dirs, made, faults>>

moveTree(i) ==
  /\ At(i, "moveTree")
  /\ LET o == Op(i) IN
     Goes(i, <<Step("list", o.p, o.p, "abort"), Do("moves", o.p, o.q)>>)
  /\ Unchanged

MoveEntries(i) ==
  /\ At(i, "moves")
  /\ LET o == Op(i)
         es == SeqOf(st[i].ents)
     IN  Goes(i, (IF Exists(o.q) THEN <<>> ELSE <<Step("mkdir", o.q, o.q, "abort")>>)
                 \o [j \in DOMAIN es |-> Do(IF es[j].dir THEN "moveTree" ELSE "rename", Append(o.p, es[j].n), Append(o.q, es[j].n))]
                 \o <<Step("rmdir", o.p, o.p, "abort")>>)
  /\ Unchanged

-----------------------------------------------------------------------------
(* touch makes a file its stat did not find; put is a redirection.         *)

touch(i) ==
  /\ At(i, "touch")
  /\ LET p == Op(i).p IN
     IF Exists(p) THEN (IF readOnly(p) THEN Fails(i, p) ELSE Goes(i, <<>>))
     ELSE Goes(i, <<Step("write", p, p, "empty")>>)
  /\ Unchanged

put(i) ==
  /\ At(i, "put")
  /\ Goes(i, <<Step("write", Op(i).p, Op(i).p, "put")>>)
  /\ Unchanged

ls(i) ==
  /\ At(i, "ls")
  /\ Goes(i, <<Step("list", Op(i).p, Op(i).p, "ls"), Do("print", Op(i).p, Op(i).p)>>)
  /\ Unchanged
print(i) ==
  /\ At(i, "print")
  /\ Goes(i, <<>>)
  /\ past' = [past EXCEPT !.stale = @ \/ (i = 3 /\ st[i].ents # Entries(Op(i).p))]
  /\ UNCHANGED <<world, fs, dirs, made, listing, faults>>

\* The file system fails a call that reads or changes: the listings kept go all
\* the same after one that would change, and what was taken from made, or moved
\* within it, before the call stays so.
FailsRead(i) ==
  /\ \/ At(i, "list") /\ ~listing[Op(i).p].kept /\ IsDir(Op(i).p) /\ Unlisted(i)
     \/ At(i, "copy") /\ Op(i).c = "file" /\ Fails(i, Op(i).p)
  /\ UNCHANGED <<made, listing>>

FailsChange(i) ==
  /\ \/ /\ \/ At(i, "write") /\ writable(Op(i).p)
           \/ At(i, "remove") /\ ~readOnly(Op(i).p)
           \/ At(i, "mkdir") /\ world.dirmaker /\ CanMake(Op(i).p)
        /\ Stops(i) /\ UNCHANGED made
     \/ /\ At(i, "rmdirEnd") /\ world.dirmaker /\ st[i].ents = {}
        /\ Stops(i) /\ made' = made \ {Op(i).p}
     \/ /\ At(i, "rename") /\ writable(Op(i).q)
        /\ Aborts(i)
        /\ made' = IF world.renamer /\ IsDir(Op(i).p) THEN MadeMoved(Op(i).p, Op(i).q) ELSE made
     \/ At(i, "moved") /\ Aborts(i) /\ UNCHANGED made
  /\ changed

Fault(i) ==
  /\ faults < MaxFaults
  /\ FailsRead(i) \/ FailsChange(i)
  /\ faults' = faults + 1
  /\ UNCHANGED <<world, fs, dirs, past>>

-----------------------------------------------------------------------------
FilesInit ==
  /\ world \in Worlds
  /\ fs = [p \in Paths |-> IF p \in DOMAIN Files0 THEN Files0[p] ELSE None]
  /\ dirs = {d \in Paths : \E f \in DOMAIN Files0 : f # d /\ inside(f, d)}
  /\ made = {}
  /\ listing = [p \in Paths |-> [kept |-> FALSE, ents |-> {}]]
  /\ \E l \in Lines : st = [i \in Stages |-> [todo |-> l[i], cmd |-> l[i], ents |-> {}, bad |-> {}, code |-> 0]]
  /\ faults = 0
  /\ past = [over |-> {}, raced |-> FALSE, stale |-> FALSE]

View(i) == ReadDir(i) \/ Keep(i) \/ Write(i) \/ remove(i) \/ mkdir(i) \/ RmdirAsk(i) \/ Rmdir(i)
Program(i) ==
  \/ Rm(i) \/ removeTree(i) \/ RemoveEntries(i)
  \/ Cp(i) \/ Copy(i) \/ CopyList(i) \/ CopyEntries(i)
  \/ move(i) \/ moveAcross(i) \/ rename(i) \/ RenameRemove(i) \/ moveTree(i) \/ MoveEntries(i)
  \/ touch(i) \/ put(i) \/ ls(i) \/ print(i)
FilesNext == \E i \in Stages : View(i) \/ Program(i) \/ Fault(i)

FilesFairness ==
  /\ \A i \in Stages : WF_filesVars(View(i) \/ Program(i))

FilesSpec == FilesInit /\ [][FilesNext]_filesVars /\ FilesFairness

-----------------------------------------------------------------------------
(* Properties.                                                             *)

Contents == {"empty", "put"} \cup {Files0[p] : p \in DOMAIN Files0}
Ran(i) == st[i].cmd # <<>> /\ st[i].todo = <<>>
Runs3(k) == \E i \in Stages : st[i].cmd # <<>> /\ Head(st[i].cmd).k = k

\* No path is a file and a directory mkdir made at once, and a status is 0 or
\* the 1 of a program that told of a failure.
FilesTypeOK ==
  /\ fs \in [Paths -> Contents \cup {None}]
  /\ made \subseteq Paths /\ dirs \subseteq Paths
  /\ \A i \in Stages : st[i].code \in {0, 1} /\ (st[i].code = 0 => st[i].bad = {})

\* A read-only mount, one mounted inside a folder that may be written among
\* them, keeps its files whatever the line's programs do.
ReadOnlyStays == [][\A m \in Folders, p \in Paths : m.ro /\ inside(p, m.dir) => fs'[p] = fs[p]]_filesVars

\* mv and cp lose nothing: unless the line removes or writes over it, what a
\* file held is in some file at every moment, also when a call fails half way
\* or both programs of the pipe move the same tree.
NothingLost ==
  ~Runs3("rm") =>
    \A p \in DOMAIN Files0 : Files0[p] \in past.over \/ \E q \in Paths : fs[q] = Files0[p]

\* rm -r that ends well has left nothing of the tree it was given, if nothing
\* else of the line was writing there.
RemoveIsWhole ==
  \A i \in Stages :
    Ran(i) /\ Head(st[i].cmd).k = "rm" /\ st[i].code = 0
    /\ (\A j \in Stages \ {i} : st[j].cmd = <<>> \/ Head(st[j].cmd).k \in {"rm", "ls"})
      => \A q \in Paths : inside(q, Head(st[i].cmd).p) => ~Exists(q)

\* A listing is kept until something changes: once the pipe is over the last
\* program lists what is there, unless a change of one program fell between
\* another's read of a directory and its keeping of what it read.
ListingTrue == past.raced \/ ~past.stale

\* Every program of a line ends, whatever the others do.
LineEnds == <>[](\A i \in Stages : st[i].todo = <<>>)

-----------------------------------------------------------------------------
(***************************************************************************)
(* One command line's run: shell.Run with the bounds of the request's      *)
(* Limits (shell/run.go, shell/limits.go, the output of shell/shell.go).   *)
(*                                                                         *)
(* The line is a pipe whose stages run at once; the last one's output may  *)
(* be redirected to a file.  A stage is the list of what it still does:    *)
(* call a command, hold input, keep output in its buffer, flush it, write  *)
(* to its redirection's file, and close the file when it is done.  All     *)
(* share one budget, whose first bound stops the line, and one output.     *)
(* The caller's context may end, and the line's time may pass.             *)
(***************************************************************************)

CONSTANTS
  Pipe,         \* the pipe's stages
  Last,           \* the last one, whose status the line's is
  Programs,       \* the lists of steps a stage is given
  Steps, Input    \* the bounds: steps of the line, units held at once

VARIABLES stage, budget, out, flags, ctx, time, answer, told

runVars == <<stage, budget, out, flags, ctx, time, answer, told>>

NoWord == "none"
Stopped == budget.msg # NoWord
\* The line's context ends with the caller's, with its time, and with a bound.
Over == ctx = "ended" \/ time # "left" \/ Stopped

StageOp(i) == Head(stage[i].todo)
StageAt(i, k) == stage[i].todo # <<>> /\ StageOp(i) = k /\ ~answer.given
StageGoes(s, i) == [s EXCEPT ![i].todo = Tail(@)]
\* A program that cannot go on does what is deferred: it lets go of what it
\* held, and its redirection is closed; bound says that the line's bound cut it.
Left(s) == SelectSeq(s, LAMBDA k : k \in {"free", "close"})
Quits(s, i, bound) == [s EXCEPT ![i].todo = Left(Tail(@)), ![i].code = 1, ![i].short = bound]

-----------------------------------------------------------------------------
(* budget and output.                                                      *)

\* stop: the first bound reached is the one the line reports; it closes the
\* output and marks the line done.
stop(b, m) == IF b.msg = NoWord THEN [b EXCEPT !.msg = m] ELSE b

Closes(o, b) == IF b.msg # NoWord THEN [o EXCEPT !.closed = TRUE] ELSE o

\* add drops what is written once the output is closed.
add(o, w) == IF o.closed THEN o ELSE [o EXCEPT !.buf = Append(@, w)]

\* hold counts the unit before it looks: what was refused stays counted until
\* its holder lets it go.
hold(b) == LET c == [b EXCEPT !.held = @ + 1] IN IF c.held > Input THEN stop(c, "input") ELSE c
Refused(b) == b.held + 1 > Input
release(b, n) == [b EXCEPT !.held = @ - n]

\* step counts one question of the interpreter.
step(b) == LET c == [b EXCEPT !.steps = @ + 1] IN IF c.steps > Steps THEN stop(c, "steps") ELSE c

-----------------------------------------------------------------------------
(* What a stage does.                                                      *)

\* Before every command the interpreter asks for the context's error, and call
\* forgets what the redirections of the commands before came to.
callCommand(i) ==
  /\ StageAt(i, "call")
  /\ LET b == step(budget)
         over == Over \/ b.msg # NoWord
     IN  /\ budget' = b
         /\ out' = Closes(out, b)
         /\ stage' = IF over THEN Quits(stage, i, b.msg # NoWord) ELSE StageGoes(stage, i)
         /\ flags' = IF over THEN flags ELSE [write |-> FALSE, redirect |-> FALSE]
         /\ told' = IF over THEN told ELSE [told EXCEPT !.called = @ \/ (flags.write \/ flags.redirect)]
  /\ UNCHANGED <<ctx, time, answer>>

\* readStdin keeps what it reads until the program is done.
proc_hold(i) ==
  /\ StageAt(i, "hold")
  /\ budget' = hold(budget)
  /\ out' = Closes(out, budget')
  /\ stage' = LET s == [stage EXCEPT ![i].held = @ + 1] IN IF Refused(budget) THEN Quits(s, i, TRUE) ELSE StageGoes(s, i)
  /\ UNCHANGED <<flags, ctx, time, answer, told>>

proc_free(i) ==
  /\ StageAt(i, "free")
  /\ budget' = release(budget, stage[i].held)
  /\ stage' = [StageGoes(stage, i) EXCEPT ![i].held = 0]
  /\ UNCHANGED <<out, flags, ctx, time, answer, told>>

\* A buffer keeps nothing more once the line has stopped, and its writes never
\* fail: the program goes on.
take(i) ==
  /\ StageAt(i, "put")
  /\ IF Stopped THEN stage' = StageGoes(stage, i) /\ UNCHANGED <<budget, out, told>>
     ELSE /\ budget' = hold(budget)
          /\ out' = Closes(out, budget')
          /\ stage' = IF Refused(budget) THEN StageGoes(stage, i) ELSE [StageGoes(stage, i) EXCEPT ![i].kept = @ + 1]
          /\ told' = IF Refused(budget) THEN [told EXCEPT !.leak = @ + 1] ELSE told
  /\ UNCHANGED <<flags, ctx, time, answer>>

\* flush lets go of what the buffer kept and writes it.
flush(i) ==
  /\ StageAt(i, "flush")
  /\ budget' = release(budget, stage[i].kept)
  /\ out' = IF stage[i].kept = 0 THEN out ELSE add(out, [by |-> "program", late |-> Stopped, time |-> time # "left"])
  /\ stage' = [StageGoes(stage, i) EXCEPT ![i].kept = 0]
  /\ UNCHANGED <<flags, ctx, time, answer, told>>

\* A redirection's file: refused when it cannot be created, and otherwise kept
\* until the command is done with it.
open(i) ==
  /\ StageAt(i, "open")
  /\ \/ stage' = StageGoes(stage, i) /\ UNCHANGED <<flags, out>>
     \/ /\ flags' = [flags EXCEPT !.redirect = TRUE]
        /\ out' = add(out, [by |-> "shell", late |-> Stopped, time |-> time # "left"])
        /\ stage' = [stage EXCEPT ![i].todo = <<>>, ![i].code = 1]
  /\ UNCHANGED <<budget, ctx, time, answer, told>>

StageWrite(i) ==
  /\ StageAt(i, "write")
  /\ IF Refused(budget)
     THEN budget' = release(hold(budget), 1) /\ stage' = Quits(stage, i, TRUE)
     ELSE budget' = hold(budget) /\ stage' = [StageGoes(stage, i) EXCEPT ![i].file = @ + 1]
  /\ out' = Closes(out, budget')
  /\ UNCHANGED <<flags, ctx, time, answer, told>>

\* Close: nothing of a line that stopped is written.
Close(i) ==
  /\ StageAt(i, "close")
  /\ IF Stopped
     THEN /\ budget' = release(budget, stage[i].file)
          /\ stage' = [StageGoes(stage, i) EXCEPT ![i].file = 0]
     ELSE /\ stage' = [stage EXCEPT ![i].todo = <<"store">> \o Tail(@)]
          /\ UNCHANGED budget
  /\ UNCHANGED <<out, flags, ctx, time, answer, told>>

Store(i) ==
  /\ StageAt(i, "store")
  /\ budget' = release(budget, stage[i].file)
  /\ stage' = [StageGoes(stage, i) EXCEPT ![i].file = 0]
  /\ \/ /\ told' = [told EXCEPT !.short = @ \/ stage[i].short]
        /\ UNCHANGED <<out, flags>>
     \/ /\ out' = add(out, [by |-> "shell", late |-> Stopped, time |-> time # "left"])
        /\ flags' = [flags EXCEPT !.write = TRUE]
        /\ told' = [told EXCEPT !.refused = @ \cup {i}, !.called = FALSE]
  /\ UNCHANGED <<ctx, time, answer>>

-----------------------------------------------------------------------------
(* The caller, the clock, and the answer.                                  *)

CallerEnds == ctx = "live" /\ ~answer.given /\ ctx' = "ended" /\ UNCHANGED <<stage, budget, out, flags, time, answer, told>>

TimePasses ==
  /\ time = "left" /\ ~answer.given
  /\ ~Stopped /\ ctx = "live"
  /\ time' = "passed"
  /\ UNCHANGED <<stage, budget, out, flags, ctx, answer, told>>

\* The function after the line's context tells the time bound from the
\* caller's context and from the other bounds.
DeadlineSeen ==
  /\ time = "passed" /\ ~answer.given
  /\ time' = "seen"
  /\ budget' = IF ctx = "live" THEN stop(budget, "time") ELSE budget
  /\ out' = Closes(out, budget')
  /\ UNCHANGED <<stage, flags, ctx, answer, told>>

\* Run answers once the interpreter has, and the deadline's function with it.
\* The caller's context first, then the bound's message, then the status.
Status ==
  LET c == stage[Last].code
      r == IF c = 1 /\ flags.redirect THEN 2 ELSE c
  IN  IF r = 0 /\ flags.write THEN 1 ELSE r

Answer ==
  /\ ~answer.given
  /\ \A i \in Pipe : stage[i].todo = <<>>
  /\ time # "passed"
  /\ CASE ctx = "ended" -> answer' = [given |-> TRUE, code |-> 0, err |-> TRUE] /\ UNCHANGED out
       [] ctx = "live" /\ Stopped ->
            /\ answer' = [given |-> TRUE, code |-> 2, err |-> FALSE]
            /\ out' = [out EXCEPT !.buf = Append(@, [by |-> "bound", late |-> FALSE, time |-> FALSE])]
       [] OTHER -> answer' = [given |-> TRUE, code |-> Status, err |-> FALSE] /\ UNCHANGED out
  /\ UNCHANGED <<stage, budget, flags, ctx, time, told>>

-----------------------------------------------------------------------------
RunInit ==
  /\ \E f \in [Pipe -> Programs] :
       stage = [i \in Pipe |-> [todo |-> f[i], code |-> 0, held |-> 0, kept |-> 0, file |-> 0, short |-> FALSE]]
  /\ budget = [steps |-> 0, held |-> 0, msg |-> NoWord]
  /\ out = [buf |-> <<>>, closed |-> FALSE]
  /\ flags = [write |-> FALSE, redirect |-> FALSE]
  /\ ctx = "live" /\ time = "left" /\ answer = [given |-> FALSE, code |-> 0, err |-> FALSE]
  /\ told = [leak |-> 0, short |-> FALSE, refused |-> {}, called |-> FALSE]

Stage(i) == callCommand(i) \/ proc_hold(i) \/ proc_free(i) \/ take(i) \/ flush(i) \/ open(i) \/ StageWrite(i) \/ Close(i) \/ Store(i)
RunNext == (\E i \in Pipe : Stage(i)) \/ CallerEnds \/ TimePasses \/ DeadlineSeen \/ Answer

\* The stages are goroutines, and so is the function of the deadline.
RunFairness ==
  /\ (\A i \in Pipe : WF_runVars(Stage(i))) /\ WF_runVars(DeadlineSeen) /\ WF_runVars(Answer)

RunSpec == RunInit /\ [][RunNext]_runVars /\ RunFairness

-----------------------------------------------------------------------------
(* Properties.                                                             *)

\* What is held is within a unit of the bound for each stage, and never less
\* than nothing.
RunTypeOK ==
  /\ budget.held \in 0 .. Input + Cardinality(Pipe)
  /\ budget.msg \in {NoWord, "input", "steps", "time"}
  /\ budget.held >= told.leak
  /\ out.closed <=> Stopped

\* Every unit held is let go by whoever holds it: a line that ran to its end
\* holds nothing, one a bound stopped no more than the write that was refused.
AllLetGo == (\A i \in Pipe : stage[i].todo = <<>>) => budget.held = told.leak /\ (told.leak > 0 => Stopped)

\* "the first bound reached is the one the line reports, and nothing written
\* after it reaches the output": the bound's message is the line's last words,
\* and nothing was written between the bound and them.
LastWords ==
  /\ \A k \in DOMAIN out.buf : ~out.buf[k].late
  /\ answer.given /\ Stopped /\ ~answer.err =>
       answer.code = 2 /\ out.buf[Len(out.buf)].by = "bound"

\* No file of a redirection is stored of a command a bound cut short, but of one
\* that met its passed time before the deadline's function marked the line: Close
\* looks at that mark alone.
StoredWhole == ~told.short

\* "a line that ends on a write the file system then refused fails": unless
\* another stage of the pipe called a command after it.
RefusedTells ==
  answer.given /\ ~answer.err /\ Last \in told.refused /\ ~told.called => answer.code # 0

\* A line ends, and one whose time passed ends on a bound's words or its caller's
\* own end.
RunEnds == <>(answer.given) /\ (time = "passed" ~> answer.given /\ (answer.err \/ Stopped))

=============================================================================
