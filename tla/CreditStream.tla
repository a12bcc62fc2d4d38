---------------------------- MODULE CreditStream ----------------------------
(***************************************************************************)
(* One credited sub-stream of one operation on a worker stream             *)
(* (runtime/remote/link.go): the writer's half (Channel.spend, grant,      *)
(* substream.Write and Close), the receiver's half (inbound.push, Read and *)
(* fail), the frames one way and the credit messages the other, and the    *)
(* ways the operation ends under both.                                     *)
(*                                                                         *)
(* Bytes are counted, never carried.  A frame on the wire, and a frame in  *)
(* the receiver's buffer, is the offset of its last byte in the            *)
(* sub-stream, so its length is the difference to the offset before it and *)
(* a frame of length zero is the end of the sub-stream.  A credit message  *)
(* is the total granted once it is applied.  The connection is ordered     *)
(* both ways, as a WebSocket is.                                           *)
(***************************************************************************)
EXTENDS Integers, Sequences

CONSTANTS
    Window,     \* the credit the receiving side announced in its hello
    MaxFrame,   \* MaxFrameBytes
    MaxWrite,   \* bound: the longest slice one Write is handed
    MaxBytes    \* bound: the bytes written to the sub-stream in all

ASSUME CreditAssumption ==
    /\ Window \in Nat \ {0}
    /\ MaxFrame \in Nat \ {0}
    /\ MaxWrite \in Nat
    /\ MaxBytes \in Nat

VARIABLES
    \* the writer: substream.Write, Channel.outgoing
    credit,     \* outbound.credit
    pending,    \* len(p) still to be sent by the Write in progress, 0 between calls
    spent,      \* what spend took for the frame being built, 0 when none is
    sent,       \* bytes of every frame queued
    closed,     \* substream.closed
    writer,     \* "open", or why a wait for credit ends
    \* the connection
    wire,       \* data frames under way, by the offset of their last byte
    back,       \* credit messages under way, by the total they bring the grants to
    applied,    \* bytes of credit the writer has been granted
    link,       \* "up", "down", or "refused" when a side met ErrFrame
    \* the receiver: inbound
    frames,     \* inbound.frames, by the offset of their last byte
    held, received, granted, taken, eof,
    ended,      \* inbound.err is set: Drop, a cancel or the link's end
    owed        \* Read's grant, computed under the lock and sent after it

writerVars == <<credit, pending, spent, sent, closed, writer>>
readerVars == <<frames, held, received, granted, taken, eof, ended, owed>>
vars == <<credit, pending, spent, sent, closed, writer, wire, back, applied, link,
          frames, held, received, granted, taken, eof, ended, owed>>

Least(a, b) == IF a <= b THEN a ELSE b

\* inbound.grantAt: half the window, at most a frame, at least one byte.
grantAt ==
    LET half == Least(Window \div 2, MaxFrame)
    IN  IF half >= 1 THEN half ELSE 1

\* Counters never go below zero, and the two ends are in states of link.go.
TypeOK ==
    /\ credit \in Nat /\ pending \in Nat /\ spent \in Nat /\ sent \in Nat
    /\ closed \in BOOLEAN
    /\ writer \in {"open", "cancelled", "finished", "dropped"}
    /\ wire \in Seq(Nat) /\ back \in Seq(Nat) /\ applied \in Nat
    /\ link \in {"up", "down", "refused"}
    /\ frames \in Seq(Nat)
    /\ held \in Nat /\ received \in Nat /\ granted \in Nat /\ taken \in Nat
    /\ eof \in BOOLEAN /\ ended \in BOOLEAN
    /\ owed \in Nat

Init ==
    /\ credit = Window /\ pending = 0 /\ spent = 0 /\ sent = 0
    /\ closed = FALSE /\ writer = "open"
    /\ wire = <<>> /\ back = <<>> /\ applied = 0 /\ link = "up"
    /\ frames = <<>> /\ held = 0 /\ received = 0 /\ granted = 0 /\ taken = 0
    /\ eof = FALSE /\ ended = FALSE /\ owed = 0

-----------------------------------------------------------------------------
(* The writer. *)

\* The length spend allows the next frame: the slice, a frame, the credit.
allowed == Least(Least(pending, MaxFrame), credit)

\* A caller hands Write a slice of n bytes.
Write(n) ==
    /\ pending = 0 /\ spent = 0 /\ ~closed
    /\ n >= 1 /\ sent + n <= MaxBytes
    /\ pending' = n
    /\ UNCHANGED <<credit, spent, sent, closed, writer, wire, back, applied, link, readerVars>>

\* Channel.spend with credit left.
Spend ==
    /\ pending > 0 /\ spent = 0 /\ credit > 0
    /\ spent' = allowed
    /\ credit' = credit - allowed
    /\ UNCHANGED <<pending, sent, closed, writer, wire, back, applied, link, readerVars>>

\* Bug: the end of the operation wakes no waiter.
StopWaitingOnLink ==
    /\ pending > 0 /\ spent = 0 /\ credit = 0
    /\ link # "up"
    /\ pending' = 0
    /\ UNCHANGED <<credit, spent, sent, closed, writer, wire, back, applied, link, readerVars>>

\* Channel.spend with none left, in an operation that is over or on a
\* connection that ended: Write returns the error.
StopWaiting ==
    /\ pending > 0 /\ spent = 0 /\ credit = 0
    /\ writer # "open" \/ link # "up"
    /\ pending' = 0
    /\ UNCHANGED <<credit, spent, sent, closed, writer, wire, back, applied, link, readerVars>>

\* Link.SendFrame of what spend allowed.  A connection that ended refuses it,
\* and Write returns.
SendFrame ==
    /\ spent > 0
    /\ spent' = 0
    /\ IF link = "up"
       THEN /\ wire' = Append(wire, sent + spent)
            /\ sent' = sent + spent
            /\ pending' = pending - spent
       ELSE /\ pending' = 0
            /\ UNCHANGED <<wire, sent>>
    /\ UNCHANGED <<credit, closed, writer, back, applied, link, readerVars>>

\* Bug: a Close while a Write is in progress sends its end at once.
CloseMidWrite ==
    /\ ~closed
    /\ closed' = TRUE
    /\ wire' = IF link = "up" THEN Append(wire, sent) ELSE wire
    /\ UNCHANGED <<credit, pending, spent, sent, writer, back, applied, link, readerVars>>

\* substream.Close between two calls of Write: the zero-length frame, which
\* costs no credit.  That no Write is in progress is the callers' discipline
\* (io.Copy, then Close), not link.go's: only a terminal's Close may cross one,
\* and cancels the operation next.
CloseWriter ==
    /\ ~closed /\ pending = 0 /\ spent = 0
    /\ closed' = TRUE
    /\ wire' = IF link = "up" THEN Append(wire, sent) ELSE wire
    /\ UNCHANGED <<credit, pending, spent, sent, writer, back, applied, link, readerVars>>

\* Link.route to Channel.grant on the writer's read pump.  A message for an
\* operation dropped here is discarded; a grant that would leave more than the
\* window is ErrFrame and ends the connection.
Grant ==
    /\ link = "up" /\ back # <<>>
    /\ LET bytes == Head(back) - applied
       IN  IF writer = "dropped"
           THEN UNCHANGED <<credit, applied, link>>
           ELSE IF bytes <= 0 \/ bytes > Window - credit
           THEN /\ link' = "refused"
                /\ UNCHANGED <<credit, applied>>
           ELSE /\ credit' = credit + bytes
                /\ applied' = Head(back)
                /\ UNCHANGED link
    /\ back' = Tail(back)
    /\ UNCHANGED <<pending, spent, sent, closed, writer, wire, readerVars>>

-----------------------------------------------------------------------------
(* The receiver. *)

\* Bug: a frame that fills the window is refused.
pastWindowOffByOne(size) == received + size - granted >= Window

\* A frame of this size holds more than the window allows uncredited.
pastWindow(size) == received + size - granted > Window

\* Link.deliver to inbound.push on the receiver's read pump.  A sub-stream
\* that is over takes nothing, a frame past the window is ErrFrame.
Push ==
    /\ link = "up" /\ wire # <<>>
    /\ wire' = Tail(wire)
    /\ LET size == Head(wire) - received
       IN  IF eof \/ ended
           THEN UNCHANGED <<frames, held, received, eof, link>>
           ELSE IF size = 0
           THEN /\ eof' = TRUE
                /\ UNCHANGED <<frames, held, received, link>>
           ELSE IF pastWindow(size)
           THEN /\ link' = "refused"
                /\ UNCHANGED <<frames, held, received, eof>>
           ELSE /\ frames' = Append(frames, Head(wire))
                /\ held' = held + size
                /\ received' = received + size
                /\ UNCHANGED <<eof, link>>
    /\ UNCHANGED <<writerVars, back, applied, granted, taken, ended, owed>>

\* Bug: what is below grantAt is forgotten.
keptNever(n) == 0

\* What Read leaves uncredited after n bytes: nothing once it reaches grantAt.
kept(n) == IF taken + n >= grantAt THEN 0 ELSE taken + n

\* inbound.Read of n bytes of the first frame.  What was read is credited back
\* once it reaches grantAt, unless the operation stopped.
Read(n) ==
    /\ frames # <<>> /\ owed = 0
    /\ LET size == Head(frames) - (received - held)
       IN  /\ n <= size
           /\ frames' = IF n = size THEN Tail(frames) ELSE frames
    /\ held' = held - n
    /\ IF ended
       THEN UNCHANGED <<taken, granted, owed>>
       ELSE /\ owed' = IF taken + n >= grantAt THEN taken + n ELSE 0
            /\ granted' = granted + owed'
            /\ taken' = kept(n)
    /\ UNCHANGED <<writerVars, wire, back, applied, link, received, eof, ended>>

\* The end of Read: the credit is queued after the lock is released, and lost
\* on a connection that ended.
SendCredit ==
    /\ owed > 0
    /\ owed' = 0
    /\ back' = IF link = "up" THEN Append(back, granted) ELSE back
    /\ UNCHANGED <<writerVars, wire, applied, link, frames, held, received, granted, taken, eof, ended>>

-----------------------------------------------------------------------------
(* The operation and the connection ending. *)

\* The operation ends on the receiving side, by Channel.Close or Drop here or
\* a cancel from the far side: inbound.fail, unless the sub-stream ended whole.
EndReader ==
    /\ ~ended /\ ~eof
    /\ ended' = TRUE
    /\ UNCHANGED <<writerVars, wire, back, applied, link, frames, held, received, granted, taken, eof, owed>>

\* The far side cancelled the operation (Channel.end) or answered it
\* (Channel.answer), which wakes a writer waiting for credit.
EndWriter ==
    /\ writer = "open" /\ link = "up"
    /\ writer' \in {"cancelled", "finished"}
    /\ UNCHANGED <<credit, pending, spent, sent, closed, wire, back, applied, link, readerVars>>

\* The operation is closed or dropped on the writer's side: its channel is
\* forgotten, so later credits are discarded.
DropWriter ==
    /\ writer # "dropped"
    /\ writer' = "dropped"
    /\ UNCHANGED <<credit, pending, spent, sent, closed, wire, back, applied, link, readerVars>>

\* Link.Shutdown for a reason that is not this sub-stream's: every operation
\* ends on both sides and nothing under way arrives.
Shutdown ==
    /\ link = "up"
    /\ link' = "down"
    /\ writer' = "dropped"
    /\ ended' = (ended \/ ~eof)
    /\ wire' = <<>> /\ back' = <<>>
    /\ UNCHANGED <<credit, pending, spent, sent, closed, applied,
                   frames, held, received, granted, taken, eof, owed>>

Next ==
    \/ \E n \in 1..MaxWrite : Write(n)
    \/ Spend \/ StopWaiting \/ SendFrame \/ CloseWriter \/ Grant
    \/ Push
    \/ \E n \in 1..Window : Read(n)
    \/ SendCredit
    \/ EndReader \/ EndWriter \/ DropWriter \/ Shutdown

Spec == Init /\ [][Next]_vars

\* The reader and the two pumps run, and a Write in progress goes on.  Whatever
\* ends the receiving side of an operation sends the cancel or the answer
\* first, so the writer hears of it.  Nothing obliges a caller to write, to
\* close or to end the operation.
Fairness ==
    /\ WF_vars(Spend) /\ WF_vars(SendFrame) /\ WF_vars(StopWaiting)
    /\ WF_vars(Grant) /\ WF_vars(Push)
    /\ WF_vars(\E n \in 1..Window : Read(n)) /\ WF_vars(SendCredit)
    /\ WF_vars(ended /\ EndWriter)

FairSpec == Spec /\ Fairness

-----------------------------------------------------------------------------
(* Properties. *)

\* Two sides that follow the protocol never refuse each other: no frame
\* arrives past the window (inbound.push) and no credit leaves a sub-stream
\* more than the window (Channel.grant), whatever the lengths written and read.
NeverRefused == link # "refused"

\* The receiver never holds more of a sub-stream than the window it announced
\* (Link's bound, measured by notePeak).
HeldWithinWindow == held <= Window

\* Both at once, over values in their ranges: the window is kept, so neither
\* side ever ends the connection on the other (inbound.push, Channel.grant).
WindowKept == TypeOK /\ NeverRefused /\ HeldWithinWindow

\* Credit is never lost: while the sub-stream is live on both sides, a writer
\* waiting for credit with nothing under way either way waits for the reader,
\* which has bytes to read (the batching of grantAt strands no credit).
NoStall ==
    (/\ link = "up" /\ writer = "open" /\ ~ended /\ ~eof
     /\ pending > 0 /\ spent = 0 /\ credit = 0
     /\ wire = <<>> /\ back = <<>> /\ owed = 0)
    => held > 0

\* A sub-stream that ended whole was received whole: the zero-length frame
\* never overtakes the bytes written before it.
EndIsComplete == eof => received = sent

\* A Write always returns: it sends all it was given, or the operation or the
\* connection ends and wakes it (Channel.spend), while the reader reads.
WriteReturns == (pending > 0) ~> (pending = 0)

=============================================================================
