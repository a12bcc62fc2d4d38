-------------------------------- MODULE Exec --------------------------------
\* The API's sessions with a sandbox, and one command answered as one result.
EXTENDS Naturals, Sequences, FiniteSets

-----------------------------------------------------------------------------
(***************************************************************************)
(* One session of the API between a client's socket and a sandbox: a       *)
(* terminal (attach), a command with input (exec), a port (dial) or the    *)
(* screen (internal/api/attach.go, dial.go, display.go).                   *)
(*                                                                         *)
(* Four goroutines share the session.  The pump reads the sandbox's output *)
(* and writes it to the client.  The reader reads the client's frames.     *)
(* The loop waits for the first of the output's end, a frame that could    *)
(* not be delivered, the client's end, and a frame to apply.  A watcher    *)
(* closes the socket when the server drains.  For exec, the driver copies  *)
(* what the loop writes into the command's input.                          *)
(***************************************************************************)

CONSTANTS Kinds, MaxOut, MaxFrames

VARIABLES kind, proc, copier, pump, chans, reader, loop, client, conn, record, past

sessionVars == <<kind, proc, copier, pump, chans, reader, loop, client, conn, record, past>>

Streams == kind \in {"attach", "exec"}

Up == conn = "open" /\ client.at = "there"
Gets(f) == client' = [client EXCEPT !.got = Append(@, f)]

-----------------------------------------------------------------------------
(* The sandbox's side.                                                     *)

\* The process ends, by itself or because its stream was closed.
Exits ==
  /\ proc.at = "running"
  /\ proc' = [proc EXCEPT !.at = "exited", !.stdin = "closed"]
  /\ UNCHANGED <<kind, copier, pump, chans, reader, loop, client, conn, record, past>>

\* A command may be done with its input before it ends.
ClosesInput ==
  /\ proc.at = "running" /\ proc.stdin = "open" /\ kind = "exec"
  /\ proc' = [proc EXCEPT !.stdin = "closed"]
  /\ UNCHANGED <<kind, copier, pump, chans, reader, loop, client, conn, record, past>>

-----------------------------------------------------------------------------
(* The pump.  A screen's loop is its own pump.                             *)

PumpRead ==
  /\ pump = "reading" /\ proc.out > 0
  /\ kind = "screen" => loop = "select"
  /\ proc' = [proc EXCEPT !.out = @ - 1]
  /\ pump' = "writing"
  /\ record' = [record EXCEPT !.out = IF kind = "dial" THEN @ + 1 ELSE @]
  /\ UNCHANGED <<kind, copier, chans, reader, loop, client, conn, past>>

\* A write to a client that left may still be taken by the connection.
PumpWrite ==
  /\ pump = "writing"
  /\ \/ Up /\ Gets("out") /\ pump' = "reading" /\ UNCHANGED <<chans, past>>
        /\ record' = [record EXCEPT !.out = IF kind = "screen" THEN @ + 1 ELSE @]
     \/ ~Up /\ conn = "open" /\ pump' = "reading" /\ UNCHANGED <<client, chans, record, past>>
     \/ /\ ~Up /\ pump' = "done"
        /\ chans' = [chans EXCEPT !.undelivered = TRUE]
        /\ record' = [record EXCEPT !.out = IF kind = "dial" THEN @ - 1 ELSE @]
        /\ UNCHANGED <<client, past>>
  /\ UNCHANGED <<kind, proc, copier, reader, loop, conn>>


PumpEnds ==
  /\ pump = "reading" /\ proc.at = "exited" /\ proc.out = 0
  /\ pump' = "done"
  /\ chans' = [chans EXCEPT !.ended = TRUE]
  /\ UNCHANGED <<kind, proc, copier, reader, loop, client, conn, record, past>>

\* A read that fails ends the output too, with some of it unread and the process
\* perhaps running; a command's output ends so when the copies that merge its
\* two streams do, whose errors nobody reads.
PumpBreaks ==
  /\ pump = "reading" /\ pump' = "done"
  /\ chans' = [chans EXCEPT !.ended = TRUE]
  /\ past' = [past EXCEPT !.broken = TRUE]
  /\ UNCHANGED <<kind, proc, copier, reader, loop, client, conn, record>>

-----------------------------------------------------------------------------
(* The reader.                                                             *)

ReaderReads ==
  /\ reader = "reading" /\ client.sent > 0 /\ conn = "open"
  /\ client' = [client EXCEPT !.sent = @ - 1]
  /\ reader' = IF kind = "screen" THEN "reading" ELSE "offering"
  /\ UNCHANGED <<kind, proc, copier, pump, chans, loop, conn, record, past>>

\* The socket is closed, or the client left; of one that is silent the idle
\* deadline says so.
ReaderFails ==
  /\ reader = "reading" /\ (conn = "closed" \/ (client.at = "left" /\ client.sent = 0))
  /\ reader' = "done"
  /\ chans' = [chans EXCEPT !.gone = TRUE]
  /\ UNCHANGED <<kind, proc, copier, pump, loop, client, conn, record, past>>

\* A frame past the read limit ends the reads of a client that is there.
ReaderRefuses ==
  /\ reader = "reading" /\ client.sent > 0 /\ conn = "open"
  /\ reader' = "done"
  /\ chans' = [chans EXCEPT !.gone = TRUE]
  /\ past' = [past EXCEPT !.refused = TRUE]
  /\ UNCHANGED <<kind, proc, copier, pump, loop, client, conn, record>>

\* A frame that was read while the output ended is dropped on the ended
\* channel, and the reader is done.
ReaderDrops ==
  /\ reader = "offering" /\ Streams /\ chans.ended
  /\ reader' = "done"
  /\ chans' = [chans EXCEPT !.gone = TRUE]
  /\ past' = [past EXCEPT !.crossed = TRUE]
  /\ UNCHANGED <<kind, proc, copier, pump, loop, client, conn, record>>

\* A port's frame is written by the reader itself.
DialWrites ==
  /\ reader = "offering" /\ kind = "dial"
  /\ \/ proc.at = "running" /\ reader' = "reading" /\ record' = [record EXCEPT !.in = @ + 1] /\ UNCHANGED chans
     \/ proc.at = "exited" /\ reader' = "done" /\ chans' = [chans EXCEPT !.gone = TRUE] /\ UNCHANGED record
  /\ UNCHANGED <<kind, proc, copier, pump, loop, client, conn, past>>

-----------------------------------------------------------------------------
(* The loop (drive, relay, pump's select).                                 *)

\* What is deferred: the stream is closed, the sandbox no longer held active,
\* the socket closed.
Returns ==
  /\ loop' = "returned"
  /\ conn' = "closed"
  /\ proc' = [proc EXCEPT !.at = "exited", !.stdin = "closed"]

TakesFrame ==
  /\ loop = "select" /\ reader = "offering" /\ Streams
  /\ loop' = "applying" /\ reader' = "reading"
  /\ UNCHANGED <<kind, proc, copier, pump, chans, client, conn, record, past>>

\* applyFrame writes the frame to the stream.  A terminal's write fails once its
\* process ended.  A command's goes through a pipe the driver's copy reads: the
\* copy takes it, and ends when the command's input is closed.  Without the
\* copy nobody reads the pipe, and the write does not return.
applyFrame ==
  /\ loop = "applying"
  /\ \/ /\ kind = "attach" /\ proc.at = "running"
        /\ loop' = "select" /\ UNCHANGED <<conn, proc, copier, past>>
     \/ /\ kind = "attach" /\ proc.at = "exited"
        /\ Returns /\ UNCHANGED copier
        /\ past' = [past EXCEPT !.crossed = TRUE]
     \/ /\ kind = "exec" /\ copier = "copying"
        /\ loop' = "select"
        /\ copier' = IF proc.stdin = "closed" THEN "done" ELSE "copying"
        /\ UNCHANGED <<conn, proc, past>>
  /\ UNCHANGED <<kind, pump, chans, reader, client, record>>

LoopEnded ==
  /\ loop = "select" /\ chans.ended
  /\ loop' = IF Streams THEN "waiting" ELSE "closing"
  /\ UNCHANGED <<kind, proc, copier, pump, chans, reader, client, conn, record, past>>

\* What an end reads as: the exit code of a process that ended, or the failure to
\* learn it in time; a port's failed read, and the close of a port or a screen.
EndFrame ==
  CASE loop = "waiting" -> {"error"} \cup {f \in {"exit"} : proc.at = "exited"}
    [] loop = "closing" /\ kind = "dial" /\ past.broken -> {"error"}
    [] OTHER -> {"close"}

LoopAnswers ==
  /\ loop \in {"waiting", "closing"}
  /\ Returns
  /\ \E f \in EndFrame : IF Up THEN Gets(f) ELSE UNCHANGED client
  /\ UNCHANGED <<kind, copier, pump, chans, reader, record, past>>

\* Bug: the client's end is not waited for.
LoopLeftUndelivered ==
  /\ loop = "select" /\ chans.undelivered
  /\ kind = "screen" => pump # "writing"
  /\ Returns
  /\ UNCHANGED <<kind, copier, pump, chans, reader, client, record, past>>

\* An output frame or a ping could not be written, or the reader is done.
LoopLeft ==
  /\ loop = "select" /\ (chans.undelivered \/ chans.gone \/ ~Up)
  /\ kind = "screen" => pump # "writing"
  /\ Returns
  /\ UNCHANGED <<kind, copier, pump, chans, reader, client, record, past>>

-----------------------------------------------------------------------------
(* The client and the drain.                                               *)

ClientSends ==
  /\ client.at = "there" /\ conn = "open" /\ client.left > 0
  /\ client' = [client EXCEPT !.sent = @ + 1, !.left = @ - 1]
  /\ UNCHANGED <<kind, proc, copier, pump, chans, reader, loop, conn, record, past>>

\* The client closes its socket, or goes silent: it reads nothing and answers no
\* ping.
ClientLeaves ==
  /\ client.at = "there"
  /\ client' = [client EXCEPT !.at = "left"]
  /\ UNCHANGED <<kind, proc, copier, pump, chans, reader, loop, conn, record, past>>

goingAway ==
  /\ conn = "open" /\ loop # "returned"
  /\ conn' = "closed"
  /\ client' = IF client.at = "there" THEN [client EXCEPT !.got = Append(@, "away")] ELSE client
  /\ UNCHANGED <<kind, proc, copier, pump, chans, reader, loop, record, past>>

-----------------------------------------------------------------------------
SessionInit ==
  /\ kind \in Kinds
  /\ proc = [at |-> "running", out |-> MaxOut, stdin |-> "open"]
  /\ copier = "copying" /\ pump = "reading" /\ reader = "reading" /\ loop = "select"
  /\ chans = [ended |-> FALSE, undelivered |-> FALSE, gone |-> FALSE]
  /\ client = [at |-> "there", sent |-> 0, left |-> MaxFrames, got |-> <<>>]
  /\ conn = "open"
  /\ record = [in |-> 0, out |-> 0]
  /\ past = [crossed |-> FALSE, broken |-> FALSE, refused |-> FALSE]

Pump == PumpRead \/ PumpWrite \/ PumpEnds
Reader == ReaderReads \/ ReaderRefuses \/ ReaderFails \/ ReaderDrops \/ DialWrites
Loop == TakesFrame \/ applyFrame \/ LoopEnded \/ LoopAnswers \/ LoopLeft
SessionNext == Exits \/ ClosesInput \/ PumpBreaks \/ Pump \/ Reader \/ Loop \/ ClientSends \/ ClientLeaves \/ goingAway

\* The three goroutines run; the client and the process do as they like.
SessionFairness ==
  /\ WF_sessionVars(Pump) /\ WF_sessionVars(Reader) /\ WF_sessionVars(Loop)

SessionSpec == SessionInit /\ [][SessionNext]_sessionVars /\ SessionFairness

-----------------------------------------------------------------------------
(* Properties.                                                             *)

Outs == SelectSeq(client.got, LAMBDA f : f = "out")
Last == client.got[Len(client.got)]

\* The bytes counted in a session's record are between none and all.
SessionTypeOK ==
  /\ record.out \in 0 .. MaxOut /\ record.in \in 0 .. MaxFrames
  /\ proc.out \in 0 .. MaxOut
  /\ loop = "returned" => conn = "closed" /\ proc.at = "exited"

\* An exit, error or close frame is the last a client gets, after all of the
\* output but of a stream whose read failed; and the close that says a port's
\* own end is after all of it (drive, relay, pump).
ExitIsLast ==
  \A k \in DOMAIN client.got :
    client.got[k] \in {"exit", "error", "close"} =>
      /\ k = Len(client.got)
      /\ ~past.broken \/ (kind = "dial" /\ client.got[k] = "close") => Len(Outs) = MaxOut

\* A dial session's record counts every byte its caller has read, also when
\* the caller's close ends the session.
RecordCounts == kind \in {"dial", "screen"} => record.out >= Len(Outs)

\* A session ends once its client left or its process ended, unless the loop is
\* writing to a command that closed its input.
SessionEnds ==
  (client.at = "left" \/ chans.ended) ~> (loop = "returned" \/ (kind = "exec" /\ loop = "applying"))

\* A client that is still there when its session returned was told the exit, the
\* failure or the drain, unless it sent a frame past the read limit, or a frame
\* of its own crossed the process's end: the select of drive may take that frame,
\* or the reader that dropped it, before the end.
ExitTold ==
  Streams /\ loop = "returned" /\ client.at = "there" /\ ~past.crossed /\ ~past.refused =>
    client.got # <<>> /\ Last \in {"exit", "error", "away"}

\* A session that returned leaves no goroutine of its own behind, unless its pump
\* ended on a write: then nothing closes ended, and a reader that holds a frame
\* waits on it.
NoneLeft == loop = "returned" ~> ((pump = "done" /\ reader = "done") \/ chans.undelivered \/ kind = "screen")

-----------------------------------------------------------------------------
(***************************************************************************)
(* POST /v1/sandboxes/{id}/exec: one command, answered as one result       *)
(* (?wait=1) or as a stream of frames (internal/api/api.go exec,           *)
(* execstream.go, operations.go holdActive).                               *)
(*                                                                         *)
(* The handler starts the command, two goroutines copy its output, the     *)
(* handler waits for both and then for the command.  A timeout, the        *)
(* caller's leaving and a failed copy end the command early.  While the    *)
(* handler runs, a third goroutine stamps the sandbox active.              *)
(***************************************************************************)

CONSTANTS Forms, Chunks, Cap

VARIABLES form, at, run, copy, joined, answer, caller, late, hold, stored

execVars == <<form, at, run, copy, joined, answer, caller, late, hold, stored>>

Chans == {"stdout", "stderr"}
Stream == form = "stream"

\* The context of the request under its timeout: over when either is.
Over == late \/ caller = "left"

Frame(f) == answer' = Append(answer, f)

-----------------------------------------------------------------------------
(* The command.                                                            *)

\* The driver ends a command whose context is over and one that was closed.
Ends ==
  /\ run.at = "running"
  /\ run' = [run EXCEPT !.at = "ended", !.own = ~(Over \/ run.closed)]
  /\ UNCHANGED <<form, at, copy, joined, answer, caller, late, hold, stored>>

TimesOut ==
  /\ at \notin {"asked", "done"} /\ ~late
  /\ late' = TRUE
  /\ UNCHANGED <<form, at, run, copy, joined, answer, caller, hold, stored>>

CallerLeaves ==
  /\ caller = "there" /\ at # "done"
  /\ caller' = "left"
  /\ UNCHANGED <<form, at, run, copy, joined, answer, late, hold, stored>>

-----------------------------------------------------------------------------
(* The handler.                                                            *)

\* exec and execRequest: the body, the command and the timeout are read once;
\* a refusal is the whole answer.
execRequest ==
  /\ at = "asked"
  /\ \/ at' = "starting" /\ UNCHANGED answer
     \/ at' = "done" /\ Frame("refused")
  /\ UNCHANGED <<form, run, copy, joined, caller, late, hold, stored>>

\* The sandbox is held active from before the command is started.
Start ==
  /\ at = "starting"
  /\ \/ /\ at' = "copying" /\ run' = [run EXCEPT !.at = "running"]
        /\ copy' = [c \in Chans |-> "reading"] /\ hold' = "held"
        /\ answer' = IF Stream THEN <<"status">> ELSE <<>>
     \/ /\ at' = "done" /\ Frame("refused") /\ UNCHANGED <<run, copy, hold>>
  /\ UNCHANGED <<form, joined, caller, late, stored>>

\* A read of one channel: a frame of the stream, or bytes of the capped buffer,
\* which keeps the head and takes the rest.
copyChunk(c) ==
  /\ copy[c] = "reading" /\ run.left[c] > 0
  /\ run' = [run EXCEPT !.left[c] = @ - 1]
  /\ \/ /\ Stream /\ caller = "left"
        /\ copy' = [copy EXCEPT ![c] = "failed"] /\ UNCHANGED <<answer, stored>>
     \/ /\ Stream
        /\ Frame(c) /\ UNCHANGED <<copy, stored>>
     \/ /\ ~Stream
        /\ stored' = [stored EXCEPT ![c] = IF @ < Cap THEN @ + 1 ELSE @]
        /\ UNCHANGED <<copy, answer>>
  /\ UNCHANGED <<form, at, joined, caller, late, hold>>

copyEnds(c) ==
  /\ copy[c] = "reading" /\ run.at = "ended"
  /\ \/ run.left[c] = 0 /\ copy' = [copy EXCEPT ![c] = "whole"]
     \/ ~run.own /\ copy' = [copy EXCEPT ![c] = "failed"]
     \/ ~run.own /\ copy' = [copy EXCEPT ![c] = "whole"]
  /\ UNCHANGED <<form, at, run, joined, answer, caller, late, hold, stored>>

\* The handler takes each copy's end; a failed one closes the command, which
\* ends the other.
Join(c) ==
  /\ at = "copying" /\ copy[c] \in {"whole", "failed"} /\ c \notin joined
  /\ joined' = joined \cup {c}
  /\ run' = [run EXCEPT !.closed = @ \/ copy[c] = "failed"]
  /\ at' = CASE joined' # Chans -> "copying"
             [] joined' = Chans /\ ~Stream /\ (\E d \in Chans : copy[d] = "failed") -> "failing"
             [] OTHER -> "waiting"
  /\ UNCHANGED <<form, copy, answer, caller, late, hold, stored>>

\* The output of the bounded form failed: no code is read.
Failing ==
  /\ at = "failing" /\ at' = "finishing"
  /\ Frame("error")
  /\ UNCHANGED <<form, run, copy, joined, caller, late, hold, stored>>

\* The command's end is waited for; then the deadline decides what it reads as.
Wait ==
  /\ at = "waiting" /\ (run.at = "ended" \/ Over)
  /\ at' = "answering"
  /\ UNCHANGED <<form, run, copy, joined, answer, caller, late, hold, stored>>

CopyFailed == \E c \in Chans : copy[c] = "failed"
Code == IF late THEN "124" ELSE "code"
Answer ==
  /\ at = "answering" /\ at' = "finishing"
  /\ \/ /\ (late \/ caller = "there") /\ ~(Stream /\ CopyFailed)
        /\ Frame(Code)
     \/ /\ (~late /\ caller = "left") \/ (Stream /\ CopyFailed)
        /\ Frame("error")
  /\ UNCHANGED <<form, run, copy, joined, caller, late, hold, stored>>

\* What is deferred: the command is closed, the context ended, the hold let go.
Finish ==
  /\ at = "finishing" /\ at' = "done"
  /\ run' = [run EXCEPT !.at = "ended", !.closed = TRUE]
  /\ hold' = "free"
  /\ UNCHANGED <<form, copy, joined, answer, caller, late, stored>>

\* holdActive's goroutine also ends with its caller.
HoldEnds ==
  /\ hold = "held" /\ caller = "left"
  /\ hold' = "free"
  /\ UNCHANGED <<form, at, run, copy, joined, answer, caller, late, stored>>

-----------------------------------------------------------------------------
ExecInit ==
  /\ form \in Forms
  /\ at = "asked"
  /\ run = [at |-> "none", own |-> FALSE, closed |-> FALSE, left |-> [c \in Chans |-> Chunks]]
  /\ copy = [c \in Chans |-> "none"]
  /\ joined = {} /\ answer = <<>> /\ caller = "there" /\ late = FALSE /\ hold = "free"
  /\ stored = [c \in Chans |-> 0]

Handler == execRequest \/ Start \/ (\E c \in Chans : Join(c)) \/ Failing \/ Wait \/ Answer \/ Finish
Copies == \E c \in Chans : copyChunk(c) \/ copyEnds(c)
Command == Ends /\ (Over \/ run.closed)
ExecNext == Handler \/ Copies \/ Ends \/ TimesOut \/ CallerLeaves \/ HoldEnds

\* The timeout is a timer, and a driver ends a command whose context is over.
ExecFairness ==
  /\ WF_execVars(Handler) /\ WF_execVars(Copies) /\ WF_execVars(Command) /\ WF_execVars(TimesOut)

ExecSpec == ExecInit /\ [][ExecNext]_execVars /\ ExecFairness

-----------------------------------------------------------------------------
(* Properties.                                                             *)

EndFrames == {"code", "124", "error", "refused"}

\* The capped buffer never holds more than its cap, and what a command that ended
\* by itself wrote is there up to the cap.
ExecTypeOK ==
  \A c \in Chans :
    /\ stored[c] \in 0 .. Cap
    /\ ~Stream /\ run.own /\ copy[c] = "whole" => stored[c] = IF Chunks < Cap THEN Chunks ELSE Cap

\* A stream has one end frame and it is the last, after all of the output of a
\* command that ended by itself with its caller there.
EndsOnce ==
  /\ \A k \in DOMAIN answer : answer[k] \in EndFrames => k = Len(answer)
  /\ at = "done" => answer # <<>> /\ answer[Len(answer)] \in EndFrames
  /\ Stream /\ at = "done" /\ run.own /\ answer[Len(answer)] = "code" =>
       \A c \in Chans : Len(SelectSeq(answer, LAMBDA f : f = c)) = Chunks

\* A sandbox whose command runs for a caller that is there is held active, and no
\* handler that returned holds one.
HeldWhileRuns ==
  /\ run.at = "running" /\ caller = "there" => hold = "held"
  /\ at = "done" => hold = "free" /\ run.at # "running"

\* Every exec is answered: the timeout bounds it.
Answered == <>(at = "done")

=============================================================================
