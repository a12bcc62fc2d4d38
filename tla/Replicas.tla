------------------------------ MODULE Replicas ------------------------------
\* The replicas of a control plane: which of them writes, where a request goes, and
\* the sealing of the stored credentials that each runs before it serves.
EXTENDS Integers, Sequences, FiniteSets, SequencesExt, Naturals

-----------------------------------------------------------------------------
(***************************************************************************)
(* A replica set over one database (cmd/cellad/main.go serve, role.go;     *)
(* internal/store/writer.go; internal/api/forward.go): standbys wait for   *)
(* the writer lease, the one that takes it loads every row and answers the *)
(* API, and every other forwards what it is asked to the writer the lease  *)
(* names, or holds it.  Every write is fenced on the lease.                *)
(*                                                                         *)
(* The rows are abstracted to how many writes committed; known[p] is how   *)
(* many of them p's controller has read or made.  A process is one         *)
(* incarnation: its lease identity is random, so a restart is another one. *)
(* Time is abstract: a term lapses, a hold or a drain runs out, whenever.  *)
(***************************************************************************)

CONSTANTS
    Procs,          \* process incarnations
    Requests,       \* requests callers send
    NoProc,         \* no process
    MaxWrites,      \* writes of the controllers' loops
    MaxLapses,      \* lease terms that pass while their holder cannot renew
    MaxCrashes      \* processes that end without releasing anything

VARIABLES
    lease,          \* the row of the writer lease
    role,           \* where each process's serve stands
    serving,        \* roleSwitch.serving
    known, rows,    \* what each controller has read, and what is committed
    cached,         \* writerLookup.cached
    req,            \* each request: the processes it passed, and its state
    resumed,        \* history: processes that took the lease back unread
    lapses, crashes

vars == <<lease, role, serving, known, rows, cached, req, resumed, lapses, crashes>>

Roles == {"standby", "taken", "writer", "draining", "drained", "idle", "released", "exited"}

Up(p) == role[p] # "exited"
Path(r) == req[r].path
Where(r) == Last(Path(r))
Active(p) == {r \in Requests : req[r].state = "serving" /\ Where(r) = p}

Init ==
    /\ lease = [holder |-> NoProc, live |-> FALSE]
    /\ role = [p \in Procs |-> "standby"]
    /\ serving = [p \in Procs |-> FALSE]
    /\ known = [p \in Procs |-> 0]
    /\ rows = 0
    /\ cached = [p \in Procs |-> NoProc]
    /\ req = [r \in Requests |-> [path |-> <<>>, state |-> "new"]]
    /\ resumed = {}
    /\ lapses = 0 /\ crashes = 0
Free(p) == ~lease.live \/ lease.holder = p

(***************************************************************************)
(* The requests a process ends with: every one that passed through it is   *)
(* answered unavailable, because the connection that carried it is gone.   *)
(***************************************************************************)
Abandoned(p) ==
    [r \in Requests |-> IF p \in Range(Path(r)) /\ req[r].state \in {"held", "serving"}
                        THEN [req[r] EXCEPT !.state = "failed"] ELSE req[r]]

Exit(p) ==
    /\ role' = [role EXCEPT ![p] = "exited"]
    /\ serving' = [serving EXCEPT ![p] = FALSE]
    /\ req' = Abandoned(p)
    /\ UNCHANGED <<known, rows, cached, resumed>>

-----------------------------------------------------------------------------
(* awaitWriterLease: a standby takes the lease no live holder has. *)
Take(p) ==
    /\ role[p] = "standby"
    /\ Free(p)
    /\ lease' = [holder |-> p, live |-> TRUE]
    /\ role' = [role EXCEPT ![p] = "taken"]
    /\ UNCHANGED <<serving, known, rows, cached, req, resumed, lapses, crashes>>
(* promote: the controller loads every row, then the API answers. *)
Promote(p) ==
    /\ role[p] = "taken"
    /\ known' = [known EXCEPT ![p] = rows]
    /\ role' = [role EXCEPT ![p] = "writer"]
    /\ serving' = [serving EXCEPT ![p] = TRUE]
    /\ UNCHANGED <<lease, rows, cached, req, resumed, lapses, crashes>>

(***************************************************************************)
(* watchWriterLease and renewLoop: each poll acquires the lease again.  A  *)
(* store that reports another holder ends the process; one that says held  *)
(* is a renewal, whoever held it in between.                               *)
(***************************************************************************)
Renewing(p) == role[p] \in {"taken", "writer", "draining"}

Renew(p) ==
    /\ Renewing(p)
    /\ ~(lease.live /\ lease.holder = p)
    /\ Free(p)
    /\ lease' = [holder |-> p, live |-> TRUE]
    /\ resumed' = IF lease.holder = p \/ role[p] = "taken" THEN resumed ELSE resumed \cup {p}
    /\ UNCHANGED <<role, serving, known, rows, cached, req, lapses, crashes>>

Demote(p) ==
    /\ role[p] \in {"writer", "draining"}
    /\ ~Free(p)
    /\ Exit(p)
    /\ UNCHANGED <<lease, lapses, crashes>>

(* A promotion that fails ends the process, and closing the store hands its lease back. *)
PromoteFails(p) ==
    /\ role[p] = "taken"
    /\ crashes < MaxCrashes
    /\ crashes' = crashes + 1
    /\ lease' = IF lease.holder = p THEN [holder |-> NoProc, live |-> FALSE] ELSE lease
    /\ Exit(p)
    /\ UNCHANGED lapses

Crash(p) ==
    /\ Up(p)
    /\ crashes < MaxCrashes
    /\ crashes' = crashes + 1
    /\ Exit(p)
    /\ UNCHANGED <<lease, lapses>>

(* The term passes with no renewal: a partition, a pause, or a holder that is gone. *)
Lapse ==
    /\ lease.live
    /\ \/ ~Up(lease.holder) /\ UNCHANGED lapses
       \/ Up(lease.holder) /\ lapses < MaxLapses /\ lapses' = lapses + 1
    /\ lease' = [lease EXCEPT !.live = FALSE]
    /\ UNCHANGED <<role, serving, known, rows, cached, req, resumed, crashes>>

(***************************************************************************)
(* Controlled.write: a loop or a request writes behind the fence.          *)
(***************************************************************************)
Fenced(p) == lease.holder = p /\ lease.live

Committed(p) ==
    /\ rows' = rows + 1
    /\ known' = [known EXCEPT ![p] = @ + 1]

LoopWrite(p) ==
    /\ role[p] \in {"writer", "draining", "drained"}
    /\ rows < MaxWrites
    /\ Fenced(p)
    /\ Committed(p)
    /\ UNCHANGED <<lease, role, serving, cached, req, resumed, lapses, crashes>>

-----------------------------------------------------------------------------
(***************************************************************************)
(* handoff, in its order: stopServing, the requests in flight end or are   *)
(* cut, the watch stops, the loops stop, every lease is released; the      *)
(* requests held here are then forwarded, and the servers shut down.       *)
(***************************************************************************)
StandbyStops(p) ==
    /\ role[p] = "standby"
    /\ crashes < MaxCrashes
    /\ crashes' = crashes + 1
    /\ Exit(p)
    /\ UNCHANGED <<lease, lapses>>
StopServing(p) ==
    /\ role[p] = "writer"
    /\ crashes < MaxCrashes
    /\ crashes' = crashes + 1
    /\ role' = [role EXCEPT ![p] = "draining"]
    /\ serving' = [serving EXCEPT ![p] = FALSE]
    /\ UNCHANGED <<lease, known, rows, cached, req, resumed, lapses>>
Drained(p) ==
    /\ role[p] = "draining"
    /\ role' = [role EXCEPT ![p] = "drained"]
    /\ req' = [r \in Requests |-> IF r \in Active(p) THEN [req[r] EXCEPT !.state = "failed"] ELSE req[r]]
    /\ UNCHANGED <<lease, serving, known, rows, cached, resumed, lapses, crashes>>

StopLoops(p) ==
    /\ role[p] = "drained"
    /\ role' = [role EXCEPT ![p] = "idle"]
    /\ UNCHANGED <<lease, serving, known, rows, cached, req, resumed, lapses, crashes>>
ReleaseAll(p) ==
    /\ role[p] = "idle"
    /\ lease' = IF lease.holder = p THEN [holder |-> NoProc, live |-> FALSE] ELSE lease
    /\ role' = [role EXCEPT ![p] = "released"]
    /\ UNCHANGED <<serving, known, rows, cached, req, resumed, lapses, crashes>>

(* Server.Shutdown waits for the requests this process holds or forwards. *)
Shutdown(p) ==
    /\ role[p] = "released"
    /\ \A r \in Requests : p \in Range(Path(r)) => req[r].state \notin {"held", "serving"}
    /\ Exit(p)
    /\ UNCHANGED <<lease, lapses, crashes>>

-----------------------------------------------------------------------------
(* Forwarder.ServeHTTP: a request arrives, and is served, forwarded or held. *)
Arrive(r, p) ==
    /\ req[r].state = "new"
    /\ Up(p)
    /\ req' = [req EXCEPT ![r] = [path |-> <<p>>, state |-> "held"]]
    /\ UNCHANGED <<lease, role, serving, known, rows, cached, resumed, lapses, crashes>>

ServeLocally(r) ==
    /\ req[r].state = "held"
    /\ serving[Where(r)]
    /\ req' = [req EXCEPT ![r].state = "serving"]
    /\ UNCHANGED <<lease, role, serving, known, rows, cached, resumed, lapses, crashes>>

(* writerLookup.address: the live holder that is not this process, kept for a while. *)
Lookup(p) ==
    LET target == IF lease.live /\ lease.holder # p THEN lease.holder ELSE NoProc IN
    /\ Up(p)
    /\ cached[p] # target
    /\ cached' = [cached EXCEPT ![p] = target]
    /\ UNCHANGED <<lease, role, serving, known, rows, req, resumed, lapses, crashes>>

(***************************************************************************)
(* A forward that connects hands the request to that process's own         *)
(* forwarder; one that cannot connect sent nothing and changes nothing.    *)
(***************************************************************************)
Forward(r) ==
    LET q == cached[Where(r)] IN
    /\ req[r].state = "held"
    /\ ~serving[Where(r)]
    /\ q # NoProc /\ Up(q)
    /\ q \notin Range(Path(r))
    /\ req' = [req EXCEPT ![r].path = Append(@, q)]
    /\ UNCHANGED <<lease, role, serving, known, rows, cached, resumed, lapses, crashes>>
(* The hold ends with no replica to take the request. *)
HoldEnds(r) ==
    /\ req[r].state = "held"
    /\ ~serving[Where(r)]
    /\ req' = [req EXCEPT ![r].state = "failed"]
    /\ UNCHANGED <<lease, role, serving, known, rows, cached, resumed, lapses, crashes>>

(* The API answers, having written or having been refused by the fence. *)
Answer(r) ==
    /\ req[r].state = "serving"
    /\ LET p == Where(r) IN
        \/ /\ Fenced(p)
           /\ Committed(p)
           /\ req' = [req EXCEPT ![r].state = "answered"]
        \/ /\ ~Fenced(p)
           /\ req' = [req EXCEPT ![r].state = "failed"]
           /\ UNCHANGED <<known, rows>>
    /\ UNCHANGED <<lease, role, serving, cached, resumed, lapses, crashes>>

Handoff(p) == Drained(p) \/ StopLoops(p) \/ ReleaseAll(p) \/ Shutdown(p)

Next ==
    \/ Lapse
    \/ \E p \in Procs :
        \/ Take(p) \/ Promote(p) \/ Renew(p) \/ Demote(p) \/ PromoteFails(p) \/ Crash(p)
        \/ LoopWrite(p) \/ StandbyStops(p) \/ StopServing(p) \/ Handoff(p) \/ Lookup(p)
    \/ \E r \in Requests :
        \/ ServeLocally(r) \/ Forward(r) \/ HoldEnds(r) \/ Answer(r)
        \/ \E p \in Procs : Arrive(r, p)

(***************************************************************************)
(* The loops of role.go tick for ever, a lease its holder no longer renews *)
(* lapses, a hold is bounded, and a handler returns.                       *)
(***************************************************************************)
Fairness ==
    /\ \A p \in Procs :
        /\ WF_vars(Take(p)) /\ WF_vars(Promote(p)) /\ WF_vars(Renew(p)) /\ WF_vars(Demote(p))
        /\ WF_vars(Handoff(p))
    /\ \A r \in Requests : WF_vars(HoldEnds(r)) /\ WF_vars(Answer(r)) /\ WF_vars(ServeLocally(r))
    /\ WF_vars(lease.live /\ ~Up(lease.holder) /\ Lapse)

Spec == Init /\ [][Next]_vars /\ Fairness

-----------------------------------------------------------------------------
(* Every process is at one place of serve, and known never exceeds what is committed. *)
TypeOK ==
    /\ role \in [Procs -> Roles]
    /\ lease \in [holder : Procs \cup {NoProc}, live : BOOLEAN]
    /\ \A p \in Procs : known[p] \in 0 .. rows
    /\ \A p \in Procs : serving[p] => role[p] = "writer"

(***************************************************************************)
(* The fence: a process that may write has read every committed write, so  *)
(* no predecessor's write lands behind what its successor loaded           *)
(* (Controlled.write).  A process that took the lease back after another   *)
(* held it, without loading again, is the exception resumed records.       *)
(***************************************************************************)
WriterHasRead ==
    \A p \in Procs \ resumed :
        Fenced(p) /\ role[p] \in {"writer", "draining", "drained"} => known[p] = rows

(***************************************************************************)
(* What the comment on Fence says of every writer, with no exception: one  *)
(* that lost its lease without knowing it "writes nothing after its        *)
(* successor read the rows" (writer.go:29-34).                             *)
(***************************************************************************)
LostWritersWriteNothing ==
    [][\A p \in Procs : known'[p] > known[p] /\ role[p] # "taken" => known[p] = rows]_vars

(* A handoff ends with the process gone, and every caller is answered. *)
HandoffEnds == \A p \in Procs : role[p] = "draining" ~> role[p] = "exited"

RequestsEnd == \A r \in Requests : req[r].state = "held" ~> req[r].state \in {"answered", "failed"}

(***************************************************************************)
(* While a replica is left, one of them comes to serve: the lease of a     *)
(* writer that crashed lapses, and a handoff releases it.                  *)
(***************************************************************************)
SomeoneServes ==
    (\E p \in Procs : role[p] = "standby") ~> (\E p \in Procs : serving[p]) \/ (\A p \in Procs : role[p] # "standby")

-----------------------------------------------------------------------------
(***************************************************************************)
(* A sandbox row's credentials in the Postgres store: sealed in the row,   *)
(* opened by a read, sealed for rows an earlier release wrote, unsealed    *)
(* for a rollback, and moved to another key                                *)
(* (internal/store/postgres/credentials.go, maintenance.go, values.Rewrap, *)
(* internal/store/envelope.go, cmd/cellad/maintenance.go).                 *)
(*                                                                         *)
(* A serving replica and a maintenance run share the table, the schema and *)
(* the writer lease.  A page holds one row.  Each may crash at every step, *)
(* a statement of either may fail, and a lease whose holder does not renew *)
(* it lapses.                                                              *)
(***************************************************************************)

CONSTANTS
    Rows,           \* sandbox rows
    MaxPuts,        \* writes and deletes of rows while a replica serves
    MaxSealCrashes, \* processes that stop, and statements that fail
    MaxPauses,      \* terms that pass while their holder cannot renew
    MaxRuns         \* starts of a replica or of a maintenance run

VARIABLES table, value, schema, sealLease, key, serve, maint, truth, left, past

sealingVars == <<table, value, schema, sealLease, key, serve, maint, truth, left, past>>

None == "none"
NoBox == [key |-> None, content |-> 0]
Off == [at |-> "off", key |-> None, page |-> [row |-> None, ver |-> 0, as |-> 0], done |-> {}, failed |-> {}]

Live(r) == table[r].at = "live"
InTheClear(r) == Live(r) /\ table[r].clear # 0
Marked(r) == table[r].box # NoBox

-----------------------------------------------------------------------------
(* The row's two forms (seal, split, unseal).                              *)

\* With a key a row holds its content sealed and none in the clear.
seal(k, c) == IF k = None THEN [clear |-> c, box |-> NoBox] ELSE [clear |-> 0, box |-> [key |-> k, content |-> c]]

\* A marked row is opened by the key that sealed it; another is whole as it is.
Opens(k, r) == Marked(r) => table[r].box.key = k
unseal(r) == IF Marked(r) THEN table[r].box.content ELSE table[r].clear

Stripped(row) == [row EXCEPT !.clear = 0, !.box = NoBox]
\* A statement that names the sealed columns fails where the schema has none.
Columns == schema = "sealed"
clearDeleted == [r \in Rows |-> IF Columns /\ table[r].at = "deleted" THEN Stripped(table[r]) ELSE table[r]]

\* checkSealed: a key that does not open every sealed row is refused.
checkSealed(k) == \A r \in Rows : Opens(k, r)

\* page and writeBack: a row is written back only at the version it was read at,
\* which it keeps.
ReadPage(r) == [row |-> r, ver |-> table[r].ver, as |-> unseal(r)]

writeBack(p, form) ==
  IF Columns /\ Live(p.row) /\ table[p.row].ver = p.ver
  THEN [table EXCEPT ![p.row] = [@ EXCEPT !.clear = form.clear, !.box = form.box]]
  ELSE table

-----------------------------------------------------------------------------
(* The writer lease.                                                       *)

Acquire(h) == sealLease \in {None, h} /\ sealLease' = h
Release(h) == sealLease' = IF sealLease = h THEN None ELSE sealLease

SealLapse ==
  /\ \/ sealLease = "serve" /\ serve.at = "off" /\ UNCHANGED <<left, past>>
     \/ sealLease = "maint" /\ maint.at = "off" /\ UNCHANGED <<left, past>>
     \/ /\ sealLease # None /\ left.pauses > 0
        /\ left' = [left EXCEPT !.pauses = @ - 1]
        /\ past' = [past EXCEPT !.lapsed = TRUE]
  /\ sealLease' = None
  /\ UNCHANGED <<table, value, schema, key, serve, maint, truth>>

-----------------------------------------------------------------------------
(* A replica of cellad serve.                                              *)

\* Open brings the schema up, and checks the key before anything is served.
Open ==
  /\ serve.at = "off" /\ left.runs > 0
  /\ left' = [left EXCEPT !.runs = @ - 1]
  /\ schema' = "sealed"
  /\ serve' = IF checkSealed(key) THEN [Off EXCEPT !.at = "standby", !.key = key] ELSE Off
  /\ UNCHANGED <<table, value, sealLease, key, maint, truth, past>>

SealPromote ==
  /\ serve.at = "standby" /\ Acquire("serve")
  /\ serve' = [serve EXCEPT !.at = "clearing"]
  /\ UNCHANGED <<table, value, schema, key, maint, truth, left, past>>

\* SealCredentials: the deleted rows are cleared first.  A statement that fails
\* ends it there, and sealCredentials fails nothing: the replica goes on.
Fails == left.crashes > 0 /\ left' = [left EXCEPT !.crashes = @ - 1] /\ table' = table
Unsealed == {r \in Rows : InTheClear(r) \/ table[r] # clearDeleted[r]}
ServeClears ==
  /\ serve.at = "clearing"
  /\ \/ /\ table' = clearDeleted /\ UNCHANGED left
        /\ serve' = [serve EXCEPT !.at = IF serve.key = None THEN "loading" ELSE "sealing"]
     \/ /\ Fails
        /\ serve' = [serve EXCEPT !.at = "loading", !.failed = Unsealed]
  /\ UNCHANGED <<value, schema, sealLease, key, maint, truth, past>>

\* rewriteEach: a page of the rows in the clear, then each written back.  A row
\* whose rewrite fails is skipped, and a page that cannot be read ends it.
SealRead(r) ==
  /\ serve.at = "sealing" /\ serve.page.row = None
  /\ InTheClear(r) /\ r \notin serve.done
  /\ serve' = [serve EXCEPT !.page = ReadPage(r), !.done = @ \cup {r}]
  /\ UNCHANGED <<table, value, schema, sealLease, key, maint, truth, left, past>>

SealWrite ==
  /\ serve.at = "sealing" /\ serve.page.row # None
  /\ \/ /\ table' = writeBack(serve.page, seal(serve.key, serve.page.as)) /\ UNCHANGED left
        /\ serve' = [serve EXCEPT !.page = Off.page]
     \/ /\ Fails
        /\ serve' = [serve EXCEPT !.page = Off.page, !.failed = @ \cup {serve.page.row}]
  /\ UNCHANGED <<value, schema, sealLease, key, maint, truth, past>>

SealDone ==
  /\ serve.at = "sealing" /\ serve.page.row = None
  /\ \/ /\ \A r \in Rows : InTheClear(r) => r \in serve.done
        /\ serve' = [serve EXCEPT !.at = "loading", !.done = {}]
        /\ UNCHANGED <<table, left>>
     \/ /\ Fails
        /\ serve' = [serve EXCEPT !.at = "loading", !.done = {}, !.failed = @ \cup Unsealed]
  /\ UNCHANGED <<value, schema, sealLease, key, maint, truth, past>>

\* The controller loads every row; one it cannot open stops the process.
Load ==
  /\ serve.at = "loading"
  /\ serve' = IF Columns /\ checkSealed(serve.key) THEN [serve EXCEPT !.at = "serving"] ELSE Off
  /\ UNCHANGED <<table, value, schema, sealLease, key, maint, truth, left, past>>

\* A write is fenced by the lease, and seals what it stores.
SealFenced == serve.at = "serving" /\ sealLease = "serve" /\ Columns
Put(r) ==
  /\ SealFenced /\ left.puts > 0 /\ Live(r)
  /\ left' = [left EXCEPT !.puts = @ - 1]
  /\ LET c == truth[r] + 1 f == seal(serve.key, c) IN
     /\ table' = [table EXCEPT ![r] = [@ EXCEPT !.ver = @ + 1, !.clear = f.clear, !.box = f.box]]
     /\ truth' = [truth EXCEPT ![r] = c]
  /\ serve' = [serve EXCEPT !.failed = @ \ {r}]
  /\ UNCHANGED <<value, schema, sealLease, key, maint, past>>

\* A deleted row keeps neither value, in the clear or sealed.
Delete(r) ==
  /\ SealFenced /\ left.puts > 0 /\ Live(r)
  /\ left' = [left EXCEPT !.puts = @ - 1]
  /\ table' = [table EXCEPT ![r] = [Stripped(@) EXCEPT !.at = "deleted", !.ver = @ + 1]]
  /\ serve' = [serve EXCEPT !.failed = @ \ {r}]
  /\ UNCHANGED <<value, schema, sealLease, key, maint, truth, past>>

\* values.Put: a secret's value under this replica's key.
PutValue ==
  /\ SealFenced /\ serve.key # None /\ value # serve.key
  /\ value' = serve.key
  /\ UNCHANGED <<table, schema, sealLease, key, serve, maint, truth, left, past>>

Stop ==
  /\ serve.at # "off" /\ left.crashes > 0
  /\ left' = [left EXCEPT !.crashes = @ - 1]
  /\ serve' = Off
  /\ \/ UNCHANGED sealLease
     \/ Release("serve")
  /\ UNCHANGED <<table, value, schema, key, maint, truth, past>>

-----------------------------------------------------------------------------
(* The maintenance runs.                                                   *)

\* Each opens the store with the key the database is sealed under, and is
\* refused while a replica holds the lease.
Begin(run) ==
  /\ maint.at = "off" /\ key # None /\ left.runs > 0
  /\ run = "unseal" => schema = "sealed"
  /\ checkSealed(key) /\ Acquire("maint")
  /\ schema' = "sealed"
  /\ left' = [left EXCEPT !.runs = @ - 1]
  /\ maint' = [Off EXCEPT !.at = IF run = "unseal" THEN "clearing" ELSE "reading", !.key = key]
  /\ UNCHANGED <<table, value, key, serve, truth, past>>

UnsealClears ==
  /\ maint.at = "clearing"
  /\ table' = clearDeleted
  /\ maint' = [maint EXCEPT !.at = "unsealing"]
  /\ UNCHANGED <<value, schema, sealLease, key, serve, truth, left, past>>

UnsealRead(r) ==
  /\ maint.at = "unsealing" /\ maint.page.row = None
  /\ Live(r) /\ Marked(r) /\ r \notin maint.done /\ Opens(maint.key, r)
  /\ maint' = [maint EXCEPT !.page = ReadPage(r), !.done = @ \cup {r}]
  /\ UNCHANGED <<table, value, schema, sealLease, key, serve, truth, left, past>>

UnsealWrite ==
  /\ maint.at = "unsealing" /\ maint.page.row # None
  /\ \/ /\ table' = writeBack(maint.page, seal(None, maint.page.as)) /\ UNCHANGED left
        /\ maint' = [maint EXCEPT !.page = Off.page]
     \/ /\ Fails
        /\ maint' = [maint EXCEPT !.page = Off.page, !.failed = @ \cup {maint.page.row}]
  /\ UNCHANGED <<value, schema, sealLease, key, serve, truth, past>>

\* Unseal: the migration runs only after every row was put back.
UnsealDone ==
  /\ maint.at = "unsealing" /\ maint.page.row = None
  /\ \A r \in Rows : Live(r) /\ Marked(r) => r \in maint.done
  /\ Release("maint")
  /\ maint' = IF maint.failed = {} THEN [maint EXCEPT !.at = "down"] ELSE Off
  /\ UNCHANGED <<table, value, schema, key, serve, truth, left, past>>

\* The down migration refuses a table in which a row is still sealed.
DownTo ==
  /\ maint.at = "down"
  /\ schema' = IF \A r \in Rows : ~Marked(r) THEN "below" ELSE schema
  /\ maint' = Off
  /\ UNCHANGED <<table, value, sealLease, key, serve, truth, left, past>>

\* Rewrap reads every wrapped key in one transaction ...
RewrapRead ==
  /\ maint.at = "reading"
  /\ maint' = [maint EXCEPT !.at = "rewrapping", !.done = {r \in Rows : Marked(r)},
                            !.page = [row |-> value, ver |-> 0, as |-> table]]
  /\ UNCHANGED <<table, value, schema, sealLease, key, serve, truth, left, past>>

\* ... and writes each back where it is the one that was read: one that is not
\* fails the whole.  The operator then starts replicas under the next key.
Next_(k) == IF k = "k1" THEN "k2" ELSE "k1"
Moved(b) == IF b = NoBox THEN b ELSE [b EXCEPT !.key = Next_(maint.key)]
Unmoved == maint.page.row = value /\ \A r \in maint.done : table[r].box = maint.page.as[r].box
\* Bug: the rotation moves the secret values and not the sealed rows.
RewrapValues ==
  /\ maint.at = "rewrapping"
  /\ value' = IF value = None THEN None ELSE Next_(maint.key)
  /\ key' = Next_(maint.key)
  /\ past' = [past EXCEPT !.attended = @ \/ serve.at # "off"]
  /\ Release("maint")
  /\ maint' = Off
  /\ UNCHANGED <<table, schema, serve, truth, left>>

Rewrap ==
  /\ maint.at = "rewrapping"
  /\ IF Columns /\ Unmoved
     THEN /\ table' = [r \in Rows |-> IF r \in maint.done THEN [table[r] EXCEPT !.box = Moved(@)] ELSE table[r]]
          /\ value' = IF value = None THEN None ELSE Next_(maint.key)
          /\ key' = Next_(maint.key)
          /\ past' = [past EXCEPT !.attended = @ \/ serve.at # "off"]
     ELSE UNCHANGED <<table, value, key, past>>
  /\ Release("maint")
  /\ maint' = Off
  /\ UNCHANGED <<schema, serve, truth, left>>

\* A run that crashes, or one whose statement fails: it returns the error and
\* releases the lease (whileWriter).
Abort ==
  /\ maint.at # "off" /\ Fails
  /\ maint' = Off
  /\ \/ UNCHANGED sealLease
     \/ Release("maint")
  /\ UNCHANGED <<value, schema, key, serve, truth, past>>

-----------------------------------------------------------------------------
\* The rows an earlier release left, one of them deleted, in the clear.
SealingInit ==
  /\ table \in {[r \in Rows |-> [at |-> a[r], ver |-> 1, clear |-> 1, box |-> NoBox]] :
                 a \in [Rows -> {"live", "deleted"}]}
  /\ value = None /\ schema = "below" /\ sealLease = None
  /\ key \in {None, "k1"}
  /\ serve = Off /\ maint = Off
  /\ truth = [r \in Rows |-> 1]
  /\ left = [puts |-> MaxPuts, crashes |-> MaxSealCrashes, pauses |-> MaxPauses, runs |-> MaxRuns]
  /\ past = [lapsed |-> FALSE, attended |-> FALSE]

Serves == SealPromote \/ ServeClears \/ (\E r \in Rows : SealRead(r)) \/ SealWrite \/ SealDone \/ Load
Maintains == UnsealClears \/ (\E r \in Rows : UnsealRead(r)) \/ UnsealWrite \/ UnsealDone \/ DownTo \/ RewrapRead \/ Rewrap
SealingNext ==
  \/ Open \/ Serves \/ Maintains \/ PutValue \/ Stop \/ Abort \/ SealLapse
  \/ \E r \in Rows : Put(r) \/ Delete(r)
  \/ \E run \in {"unseal", "rotate"} : Begin(run)

\* A process goes on until it crashes, and a lease nobody renews lapses.
SealingFairness ==
  /\ WF_sealingVars(Serves) /\ WF_sealingVars(Maintains)
  /\ WF_sealingVars(SealLapse /\ (serve.at = "off" \/ maint.at = "off") /\ past' = past)

SealingSpec == SealingInit /\ [][SealingNext]_sealingVars /\ SealingFairness

-----------------------------------------------------------------------------
(* Properties.                                                             *)

\* A row is in one form, and no row is sealed under a schema without the columns.
SealingTypeOK ==
  /\ \A r \in Rows : table[r].clear = 0 \/ ~Marked(r)
  /\ schema = "below" => \A r \in Rows : ~Marked(r)

\* No rewrite, write, crash or rotation loses what a sandbox's last write stored.
CredentialsKept == \A r \in Rows : Live(r) => unseal(r) = truth[r]

\* While a replica that holds a key serves, no row of the table holds a
\* credential in the clear and no deleted row any, but the rows its sealing
\* could not rewrite and nothing has written since ("each sealed at its
\* sandbox's next write", sealCredentials).  Not held to it is a replica whose
\* lease a pause let lapse: another run may then unseal beside it.
NoneInTheClear ==
  SealFenced /\ ~past.lapsed =>
    \A r \in Rows \ serve.failed :
      /\ serve.key # None => ~InTheClear(r)
      /\ table[r].at = "deleted" => table[r] = Stripped(table[r])

\* What is sealed is sealed under the key replicas are started with: a rotation
\* moves every row and value or none, whatever crashed, while its lease held and
\* no replica under the key before stood by for the lease.
OneKey == ~past.lapsed /\ ~past.attended => (value \in {None, key} /\ \A r \in Rows : Opens(key, r))

\* A replica that opened and is not stopped comes to serve.
Comes == serve.at = "standby" ~> (serve.at \in {"serving", "off"} \/ sealLease = "maint")

=============================================================================
