---------------------------- MODULE RemoteCall ----------------------------
(***************************************************************************)
(* One driver operation carried over a worker's stream, from the call on   *)
(* the control plane (runtime/remote/remote.go, hub.go Open and hubStream) *)
(* over the two ends of the link (link.go: Channel, route, Shutdown) to    *)
(* the worker's driver and its answer (serve.go start, execute.go).  A     *)
(* call is a sequence of steps at each end; sub-streams are counted in     *)
(* frames, and the credit of CreditStream is taken as returned when a      *)
(* frame is read.                                                          *)
(***************************************************************************)
EXTENDS Naturals, Sequences, SequencesExt

CONSTANTS
  Kinds,    \* the kinds of operation made
  Window,   \* frames of one sub-stream one side may send ahead of its reader
  Frames    \* bound: frames of a body and of an output together

VARIABLES
  op,     \* the operation: its kind, the frames of its body or stdin and of its output, what its
          \* source and its driver do (a command may read its stdin to its end before it exits),
          \* and whether the stream has credit
  h,      \* the control plane's end: the caller, its channel, and its side of the connection
  w,      \* the worker's end
  down,   \* frames to the worker
  up      \* frames to the control plane

vars == <<op, h, w, down, up>>

-----------------------------------------------------------------------------
(* The calls, as the steps they take on the control plane *)

call == <<"result">>
Exec == <<"accepted", "read", "result">>
Attach == <<"accepted", "read", "result">>
Logs == <<"accepted", "read">>

ExportTar == <<"accepted", "read", "result">>
ImportTar == <<"copy", "end", "result">>
OpenFile == <<"result", "read">>
Write == <<"copy", "end", "result">>
Calls == [call |-> call, exec |-> Exec, attach |-> Attach, logs |-> Logs, export |-> ExportTar,
          import |-> ImportTar, open |-> OpenFile, write |-> Write]

(* and on the worker; every operation but one that failed early ends with its answer *)
Execute == <<"driver", "answer">>
execute == <<"begin", "out", "end", "answer">>
attach == <<"begin", "out", "end", "answer">>
logs == <<"begin", "out", "end", "answer">>
exportTar == <<"accept", "out", "end", "answer">>
files == <<"body", "answer">>
open == <<"find", "out", "end", "answer">>
Executes == [call |-> Execute, exec |-> execute, attach |-> attach, logs |-> logs, export |-> exportTar,
             import |-> files, open |-> open, write |-> files]

\* The errors that cross by name: the caller's own context first (sentinels).
sentinels == <<"canceled", "notFound", "tooLarge">>
EncodeError(e) == IF \E i \in DOMAIN sentinels : sentinels[i] = e THEN [kind |-> e, ok |-> FALSE] ELSE [kind |-> "none", ok |-> e = "ok"]
Err(m) == IF m.ok THEN "ok" ELSE IF m.kind = "none" THEN "message" ELSE m.kind

NoIn == [n |-> 0, eof |-> FALSE, err |-> FALSE]
Channel == [held |-> FALSE, cancelled |-> FALSE, in |-> NoIn, sent |-> 0, read |-> 0, link |-> "up"]
NoAnswer == [kind |-> "none", ok |-> FALSE, has |-> FALSE]

Init ==
  /\ op \in [kind : Kinds, body : 0..Frames, n : 0..Frames, fails : BOOLEAN, hangs : BOOLEAN, reads : BOOLEAN, credited : BOOLEAN]
  /\ op.body + op.n <= Frames
  /\ op.kind \in {"write", "import"} => op.n = 0 /\ ~op.reads
  /\ op.kind = "exec" => (op.fails => op.reads) /\ (op.reads => ~op.hangs)
  /\ op.kind = "attach" => ~op.fails /\ ~op.reads
  /\ op.kind \notin {"write", "import", "exec", "attach"} => op.body = 0 /\ ~op.fails /\ ~op.reads
  /\ h = [c |-> Channel, todo |-> <<"open">>, ctx |-> "live", closed |-> FALSE, stdin |-> "none",
          started |-> NoAnswer, result |-> NoAnswer, finished |-> FALSE, answer |-> "none"]
  /\ w = [c |-> Channel, todo |-> <<>>, outcome |-> "none", sent |-> 0, committed |-> FALSE]
  /\ down = <<>> /\ up = <<>>

-----------------------------------------------------------------------------
(* A channel's end, at either side *)

\* Channel.end: every sub-stream fails with the reason, one that ended whole keeps its end.
ended(c) == [c EXCEPT !.cancelled = TRUE, !.in.err = @ \/ ~c.in.eof]
Drop(c) == [ended(c) EXCEPT !.held = FALSE]

\* inbound.push on the read pump; without credit the pump waits for room.
CanPush(c) == op.credited \/ ~c.held \/ c.in.eof \/ c.in.err \/ c.in.n < Window
push(c) == IF ~c.held \/ c.in.eof \/ c.in.err THEN c ELSE [c EXCEPT !.in.n = @ + 1]
pushEnd(c) == IF ~c.held \/ c.in.err THEN c ELSE [c EXCEPT !.in.eof = TRUE]

\* Channel.spend: what may be sent before the far side read more.
Credit(sent, read) == ~op.credited \/ sent - read < Window

\* Link.Send: a connection that ended takes nothing.
SendDown(m) == down' = IF h.c.link = "up" THEN Append(down, m) ELSE down
SendUp(m) == up' = IF w.c.link = "up" THEN Append(up, m) ELSE up

-----------------------------------------------------------------------------
(* The control plane's end *)

Finish(a) == h' = [h EXCEPT !.todo = <<"close">>, !.answer = a]
Step == h' = [h EXCEPT !.todo = Tail(@), !.answer = IF Len(h.todo) = 1 THEN "ok" ELSE @]
At(step) == h.todo # <<>> /\ Head(h.todo) = step
Went == IF h.ctx = "ended" THEN "canceled" ELSE "link"

Open ==
  /\ At("open")
  /\ \/ /\ h.c.link = "up"
        /\ SendDown("op")
        /\ h' = [h EXCEPT !.c.held = TRUE, !.todo = Calls[op.kind]]
     \/ h.c.link = "down" /\ Finish("notRunning") /\ down' = down
  /\ UNCHANGED <<op, w, up>>

\* The body goes down frame by frame; a source that fails leaves its sub-stream unended.
\* A writer out of credit ends its wait on the operation's answer, its end, or the link's.
copyFails(e) == IF op.kind = "write" /\ e = "closed" THEN Step /\ down' = down ELSE Finish(e) /\ down' = down
\* Bug: a source that failed ends its sub-stream as one that is whole.
CopyBodyEnds ==
  /\ At("copy")
  /\ \/ /\ h.c.sent < op.body /\ Credit(h.c.sent, w.c.read) /\ h.c.link = "up"
        /\ SendDown("data") /\ h' = [h EXCEPT !.c.sent = @ + 1]
     \/ h.c.sent = op.body /\ Step /\ down' = down
  /\ UNCHANGED <<op, w, up>>

CopyBody ==
  /\ At("copy")
  /\ \/ /\ h.c.sent < op.body /\ Credit(h.c.sent, w.c.read) /\ h.c.link = "up"
        /\ SendDown("data") /\ h' = [h EXCEPT !.c.sent = @ + 1]
     \/ h.c.sent < op.body /\ h.c.link = "down" /\ copyFails(Went)
     \/ /\ h.c.sent < op.body /\ ~Credit(h.c.sent, w.c.read) /\ h.c.link = "up"
        /\ h.finished \/ h.c.cancelled
        /\ copyFails("closed")
     \/ h.c.sent = op.body /\ op.fails /\ Finish("source") /\ down' = down
     \/ h.c.sent = op.body /\ ~op.fails /\ Step /\ down' = down
  /\ UNCHANGED <<op, w, up>>
EndBody == At("end") /\ SendDown("eof") /\ Step /\ UNCHANGED <<op, w, up>>

\* Exec copies its caller's stdin beside the call and ends the sub-stream however
\* the copy went (its error is joined to the worker's own by Wait, and lost where
\* the command answers an exit code); in a terminal what is typed goes down until the session closes.
Typed == h.c.sent < op.body /\ Credit(h.c.sent, w.c.read) /\ h.c.link = "up"
CopyStdin ==
  /\ h.stdin = "open" /\ op.kind = "exec"
  /\ \/ Typed /\ SendDown("data") /\ h' = [h EXCEPT !.c.sent = @ + 1]
     \/ /\ h.c.sent = op.body \/ h.c.link = "down" \/ (~Typed /\ (h.finished \/ h.c.cancelled))
        /\ SendDown("eof") /\ h' = [h EXCEPT !.stdin = "shut"]
  /\ UNCHANGED <<op, w, up>>
Type ==
  /\ h.stdin = "open" /\ op.kind = "attach" /\ ~h.closed
  /\ Typed /\ SendDown("data") /\ h' = [h EXCEPT !.c.sent = @ + 1]
  /\ UNCHANGED <<op, w, up>>

\* Whichever is ready is taken, and a caller whose context ended reads its own error.
Running == h' = [h EXCEPT !.todo = Tail(@), !.stdin = IF op.kind \in {"exec", "attach"} THEN "open" ELSE @]
Accepted ==
  /\ At("accepted")
  /\ \/ h.ctx = "ended" /\ Finish("canceled")
     \/ h.ctx = "live" /\ h.started.has /\ h.started.ok /\ Running
     \/ h.ctx = "live" /\ h.started.has /\ ~h.started.ok /\ Finish(Err(h.started))
     \/ h.ctx = "live" /\ h.result.has /\ h.result.ok /\ Running
     \/ h.ctx = "live" /\ h.result.has /\ ~h.result.ok /\ Finish(Err(h.result))
     \/ h.ctx = "live" /\ (h.c.cancelled \/ h.c.link = "down") /\ Finish("link")
  /\ UNCHANGED <<op, w, down, up>>
Result ==
  /\ At("result")
  /\ \/ h.result.has /\ h.result.ok /\ Step
     \/ h.result.has /\ ~h.result.ok /\ Finish(IF h.ctx = "ended" THEN "canceled" ELSE Err(h.result))
     \/ (h.c.cancelled \/ h.c.link = "down" \/ h.ctx = "ended") /\ Finish(Went)
  /\ UNCHANGED <<op, w, down, up>>
Read ==
  /\ At("read")
  /\ \/ h.c.in.n > 0 /\ h' = [h EXCEPT !.c.in.n = @ - 1, !.c.read = @ + 1]
     \/ h.c.in.n = 0 /\ h.c.in.eof /\ Step
     \/ h.c.in.n = 0 /\ ~h.c.in.eof /\ h.c.in.err /\ Finish(Went)
  /\ UNCHANGED <<op, w, down, up>>

\* Close tells the worker and forgets the channel; it is what every call ends with,
\* and what a context that ended does beside it.  A terminal's own Close ends its
\* input first.
ShutInput(todo) == todo = <<>> /\ op.kind = "attach" /\ h.stdin = "open"
Close(todo) ==
  /\ down' = IF h.closed \/ ~h.c.held \/ h.c.link = "down" THEN down
             ELSE down \o (IF ShutInput(todo) THEN <<"eof", "cancel">> ELSE <<"cancel">>)
  /\ h' = [h EXCEPT !.closed = TRUE, !.c = Drop(h.c), !.todo = todo, !.answer = IF todo = <<>> /\ @ = "none" THEN "ok" ELSE @]
  /\ UNCHANGED <<op, w, up>>
Return == (h.todo = <<>> \/ At("close")) /\ ~h.closed /\ h.c.held /\ Close(<<>>)
ReturnLate == At("close") /\ (h.closed \/ ~h.c.held) /\ h' = [h EXCEPT !.todo = <<>>] /\ UNCHANGED <<op, w, down, up>>
Abandon == h.ctx = "live" /\ h.todo \notin {<<"open">>, <<>>} /\ h' = [h EXCEPT !.ctx = "ended"] /\ UNCHANGED <<op, w, down, up>>
CloseOnContext == h.ctx = "ended" /\ ~h.c.cancelled /\ ~h.closed /\ h.c.held /\ Close(h.todo)

\* The read pump routes what the worker sent; a frame of a channel that was dropped is discarded.
route ==
  /\ up # <<>> /\ h.c.link = "up"
  /\ LET m == Head(up) IN
     /\ up' = Tail(up)
     /\ \/ m.type = "data" /\ CanPush(h.c) /\ h' = [h EXCEPT !.c = push(@)]
        \/ m.type = "eof" /\ h' = [h EXCEPT !.c = pushEnd(@)]
        \/ m.type = "started" /\ h' = [h EXCEPT !.started = IF h.c.held THEN [m.error EXCEPT !.has = TRUE] ELSE @]
        \/ /\ m.type = "result"
           /\ h' = IF h.c.held /\ ~h.result.has THEN [h EXCEPT !.result = [m.error EXCEPT !.has = TRUE], !.finished = TRUE] ELSE h
  /\ UNCHANGED <<op, w, down>>

-----------------------------------------------------------------------------
(* The worker's end *)

WAt(step) == w.todo # <<>> /\ Head(w.todo) = step
Gone == w.c.cancelled \/ w.c.link = "down"
\* A driver that hangs returns only once its context ended.
Returns == op.hangs => Gone
Outcomes == {"ok", "notFound", "failed"} \cup (IF Gone THEN {"canceled"} ELSE {})
Message(type, e) == [type |-> type, error |-> [kind |-> EncodeError(e).kind, ok |-> EncodeError(e).ok, has |-> TRUE]]
Frame(type) == [type |-> type, error |-> NoAnswer]
Ends(e) == [w EXCEPT !.outcome = e, !.todo = <<"answer">>]

start ==
  /\ down # <<>> /\ w.c.link = "up" /\ Head(down) = "op"
  /\ down' = Tail(down)
  /\ w' = [w EXCEPT !.c.held = TRUE, !.todo = Executes[op.kind]]
  /\ UNCHANGED <<op, h, up>>
deliver ==
  /\ down # <<>> /\ w.c.link = "up" /\ Head(down) # "op"
  /\ down' = Tail(down)
  /\ \/ Head(down) = "data" /\ CanPush(w.c) /\ w' = [w EXCEPT !.c = push(@)]
     \/ Head(down) = "eof" /\ w' = [w EXCEPT !.c = pushEnd(@)]
     \/ Head(down) = "cancel" /\ w' = IF w.c.held THEN [w EXCEPT !.c = ended(@)] ELSE w
  /\ UNCHANGED <<op, h, up>>

\* A call with no sub-stream.
DriverCall ==
  /\ WAt("driver") /\ Returns
  /\ \E e \in Outcomes : w' = Ends(e)
  /\ UNCHANGED <<op, h, down, up>>
\* Exec, Attach and Logs: the driver's call is made, and the caller told how that went.
Begin ==
  /\ WAt("begin") /\ Returns
  /\ \E e \in Outcomes :
       /\ SendUp(Message("started", e))
       /\ w' = IF e = "ok" THEN [w EXCEPT !.todo = Tail(@)] ELSE Ends(e)
  /\ UNCHANGED <<op, h, down>>
Accept == WAt("accept") /\ SendUp(Message("started", "ok")) /\ w' = [w EXCEPT !.todo = Tail(@)] /\ UNCHANGED <<op, h, down>>
\* Bug: the entry is answered after the bytes.
FindLate ==
  /\ WAt("find") /\ Returns
  /\ \/ w' = [w EXCEPT !.todo = Tail(@)]
     \/ \E e \in Outcomes \ {"ok"} : w' = Ends(e)
  /\ UNCHANGED <<op, h, down, up>>

\* The file is found and its entry is the answer, before its bytes.
Find ==
  /\ WAt("find") /\ Returns
  /\ \/ SendUp(Message("result", "ok")) /\ w' = [w EXCEPT !.todo = SelectSeq(Tail(@), LAMBDA s : s # "answer") \o <<"gone">>]
     \/ \E e \in Outcomes \ {"ok"} : w' = Ends(e) /\ up' = up
  /\ UNCHANGED <<op, h, down>>
\* What an operation answers once the copy of its output ended with e: a terminal
\* drops the copy's error and answers how the session ended, and a follow nobody
\* wants any more is no failure.
copied(e) == CASE op.kind = "attach" -> {"ok", "failed"}
               [] op.kind = "logs" /\ Gone -> {"ok"}
               [] OTHER -> {e}
Copied(e) == \E o \in copied(e) : w' = [w EXCEPT !.outcome = o, !.todo = Tail(@)]

\* The driver's output goes up; the driver may fail part way, and a writer waits for credit.
Output ==
  /\ WAt("out") /\ w.c.sent < op.n
  /\ \/ Returns /\ Credit(w.c.sent, h.c.read) /\ w.c.link = "up" /\ SendUp(Frame("data")) /\ w' = [w EXCEPT !.c.sent = @ + 1]
     \/ Gone /\ Copied("canceled") /\ up' = up
     \/ Returns /\ Copied("failed") /\ up' = up
  /\ UNCHANGED <<op, h, down>>
\* A command that reads its stdin ends after it; the driver may fail as it ends.
ReadAll == op.reads => Gone \/ (w.c.in.n = 0 /\ (w.c.in.eof \/ w.c.in.err))
OutputEnds ==
  /\ WAt("out") /\ w.c.sent = op.n /\ Returns /\ ReadAll
  /\ \E e \in {"ok", "failed"} : Copied(e)
  /\ UNCHANGED <<op, h, down, up>>
\* attach leaves its loop before the output ended, on its context or a resize
\* that fails: the answer goes first, and the copy ends as the session is closed.
LeaveSession ==
  /\ WAt("out") /\ op.kind = "attach"
  /\ \E e \in {"failed"} \cup (IF Gone THEN {"canceled"} ELSE {}) :
       w' = [w EXCEPT !.outcome = e, !.todo = <<"answer", "end">>]
  /\ UNCHANGED <<op, h, down, up>>
\* A terminal, and a command that reads its input, take what the sub-stream holds.
ReadStdin ==
  /\ WAt("out") /\ (op.kind = "attach" \/ op.reads)
  /\ w.c.in.n > 0 /\ w' = [w EXCEPT !.c.in.n = @ - 1, !.c.read = @ + 1]
  /\ UNCHANGED <<op, h, down, up>>
EndOutput == WAt("end") /\ SendUp(Frame("eof")) /\ w' = [w EXCEPT !.todo = Tail(@)] /\ UNCHANGED <<op, h, down>>
\* A driver given a body reads it to its end and commits, or refuses it before that.
Body ==
  /\ WAt("body")
  /\ \/ Returns /\ w.c.in.n > 0 /\ w' = [w EXCEPT !.c.in.n = @ - 1, !.c.read = @ + 1]
     \/ Returns /\ w.c.in.n = 0 /\ w.c.in.eof /\ w' = [Ends("ok") EXCEPT !.committed = TRUE]
     \/ w.c.in.n = 0 /\ ~w.c.in.eof /\ w.c.in.err /\ w' = Ends("canceled")
     \/ Returns /\ w' = Ends("tooLarge")
  /\ UNCHANGED <<op, h, down, up>>
\* One operation answers once, and is dropped.
Dropped == [w EXCEPT !.c = Drop(@), !.todo = Tail(@)]
Answer ==
  /\ \/ WAt("answer") /\ SendUp(Message("result", w.outcome)) /\ w' = [Dropped EXCEPT !.sent = 1]
     \/ WAt("gone") /\ w' = Dropped /\ up' = up
  /\ UNCHANGED <<op, h, down>>

-----------------------------------------------------------------------------
(* The connection ends: first at one side, then at the other *)

Shutdown(c) == [Drop(c) EXCEPT !.link = "down"]
BreakHub == h.c.link = "up" /\ h' = [h EXCEPT !.c = Shutdown(@)] /\ UNCHANGED <<op, w, down, up>>
BreakWorker == w.c.link = "up" /\ w' = [w EXCEPT !.c = Shutdown(@)] /\ UNCHANGED <<op, h, down, up>>
Learn == (h.c.link = "down" /\ BreakWorker) \/ (w.c.link = "down" /\ BreakHub)

Caller == Open \/ CopyBody \/ EndBody \/ Accepted \/ Result \/ Read \/ Return \/ ReturnLate
Worker == DriverCall \/ Begin \/ Accept \/ Find \/ Output \/ OutputEnds \/ LeaveSession \/ EndOutput \/ Body \/ Answer
Next == Caller \/ CopyStdin \/ Type \/ ReadStdin \/ CloseOnContext \/ Abandon \/ route \/ start \/ deliver \/ Worker \/ BreakHub \/ BreakWorker

Fairness ==
  /\ WF_vars(Caller) /\ WF_vars(CloseOnContext) /\ WF_vars(route) /\ WF_vars(start \/ deliver)
  /\ WF_vars(Worker) /\ WF_vars(Learn) /\ WF_vars(CopyStdin) /\ WF_vars(ReadStdin)

Spec == Init /\ [][Next]_vars /\ Fairness

-----------------------------------------------------------------------------
(* Properties *)

Done == h.todo = <<>>

\* A reader never holds more than the window (inbound.push), and an operation
\* answers once: no second result is ever under way (Channel.Answer).
TypeOK ==
  /\ h.c.in.n <= Window /\ w.c.in.n <= Window
  /\ Len(SelectSeq(up, LAMBDA m : m.type = "result")) + (IF h.result.has THEN 1 ELSE 0) <= 1

\* A driver commits only a body whose source ended whole: one that failed part
\* way, or whose caller went away, is never taken for a finished one
\* (remote.go Write and ImportTar, "its zero-length frame is what says the
\* body is whole").
CommitsWhole == w.committed => ~op.fails /\ w.c.read = op.body

\* A caller told that its operation went well was told so by a driver for
\* which it did, and has read the whole of its output (remote.go call, Write,
\* ImportTar, ExportTar, and an exec's Wait).  A terminal answers how its
\* session ended: its caller has read everything the worker relayed.
OkMeansDone ==
  (Done /\ h.answer = "ok" /\ op.kind \notin {"logs", "open"}) =>
    /\ w.outcome = "ok"
    /\ op.kind \in {"write", "import"} => w.committed
    /\ op.kind \in {"export", "exec"} => h.c.read = op.n
    /\ op.kind = "attach" => h.c.read = w.c.sent

\* The caller of an operation whose connection held, whose source was whole and
\* who did not go away reads the driver's own refusal (protocol.go Error).  An
\* import refused while its writer waits for credit may read that its pipe was
\* closed instead: Write looks past that error for the answer, ImportTar does not.
Undisturbed == Done /\ h.c.link = "up" /\ w.c.link = "up" /\ h.ctx = "live" /\ ~op.fails
RefusalCrosses ==
  (Undisturbed /\ h.answer # "ok") =>
    \/ h.answer = Err(EncodeError(w.outcome))
    \/ op.kind = "import" /\ h.answer = "closed" /\ w.outcome # "ok"

\* What a caller is told is what the worker did: what was committed was whole,
\* what was said to be done was done, and a refusal is the driver's own.
CallsTruthful == TypeOK /\ CommitsWhole /\ OkMeansDone /\ RefusalCrosses

\* A call ends when its driver does, its caller goes away or its connection
\* ends, and no call waits on a worker that went away (Channel.Result): a
\* command that waits for the end of its input is given one, even by a source
\* that failed (remote.go Exec).
CallEnds == <>(Done \/ (op.hangs /\ h.ctx = "live" /\ h.c.link = "up"))

\* An operation nobody waits for ends on the worker as well, where the stream
\* has credit: a call that returned cancels it (Channel.Close, Server.start).
WorkerEnds == (Done /\ op.credited) ~> (w.todo = <<>>)

\* Both ends of every call end.
CallsEnd == CallEnds /\ WorkerEnds

=============================================================================
