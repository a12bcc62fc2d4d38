------------------------- MODULE CreditStreamProofs -------------------------
(***************************************************************************)
(* For every window, frame bound and sequence of writes and reads, the two *)
(* sides of a credited sub-stream never refuse each other, the receiver    *)
(* holds at most the window, and no credit is stranded.                    *)
(*                                                                         *)
(* The argument is a balance.  While the connection is up, what the writer *)
(* may still send, has spent and has sent is the window plus the credit it *)
(* was granted; the grants under way lead from what it applied to what the *)
(* receiver granted; and what the receiver granted and took is what was    *)
(* read, until the operation ends.  The two ErrFrame checks follow.        *)
(***************************************************************************)
EXTENDS CreditStream, SequenceTheorems, TLAPS

\* The writer's side: the balance of its credit, and a frame being built is
\* part of the Write in progress.
WriterInv ==
    /\ spent <= pending
    /\ closed => pending = 0 /\ spent = 0
    /\ link = "up" => credit + sent + spent = Window + applied

\* The credit messages under way: each grants something, the first on top of
\* what is applied, the last up to what was granted less what is not sent yet.
BackInv ==
    /\ applied <= granted
    /\ (link = "up" /\ writer # "dropped") =>
         /\ Len(back) = 0 => applied + owed = granted
         /\ Len(back) > 0 => /\ applied < back[1]
                             /\ back[Len(back)] + owed = granted
         /\ \A i \in 1..(Len(back) - 1) : back[i] < back[i + 1]
         /\ \A i \in 1..Len(back) : back[i] <= granted

\* The data frames under way, while the receiver takes them: each carries
\* something but the last one of a closed sub-stream.
WireInv ==
    (link = "up" /\ ~ended /\ ~eof) =>
      /\ Len(wire) = 0 => received = sent
      /\ Len(wire) > 0 => /\ received <= wire[1]
                          /\ wire[Len(wire)] = sent
                          /\ Len(wire) > 1 \/ ~closed => received < wire[1]
      /\ \A i \in 1..Len(wire) : wire[i] <= sent
      /\ \A i \in 1..(Len(wire) - 1) :
            \/ wire[i] < wire[i + 1]
            \/ closed /\ i + 1 = Len(wire) /\ wire[i] <= wire[i + 1]

\* The receiver's side: what it granted and took is what was read.
ReaderInv ==
    /\ held <= received /\ received <= sent
    /\ \A i \in 1..Len(frames) : frames[i] <= received
    /\ granted + taken <= received - held
    /\ ~ended => granted + taken = received - held
    /\ taken < grantAt
    /\ received <= Window + granted
    /\ eof => closed /\ received = sent

\* The counters of both sides are natural numbers.
Counts ==
    /\ Window \in Nat /\ credit \in Nat /\ pending \in Nat /\ spent \in Nat /\ sent \in Nat
    /\ applied \in Nat /\ held \in Nat /\ received \in Nat /\ granted \in Nat
    /\ taken \in Nat /\ owed \in Nat

IInv == TypeOK /\ NeverRefused /\ WriterInv /\ BackInv /\ WireInv /\ ReaderInv

-----------------------------------------------------------------------------
(* The inductive invariant. *)

\* The threshold of inbound.grantAt is a positive number, at most the window,
\* and at most half of it where the window is more than one byte.
LEMMA GrantAtType == /\ grantAt \in Nat \ {0}
                     /\ grantAt = 1 \/ grantAt + grantAt <= Window
<1>1. Window \div 2 \in Nat /\ 2 * (Window \div 2) <= Window
  BY CreditAssumption, SMT
<1>2. QED
  BY <1>1, CreditAssumption, SMT DEF grantAt, Least

\* What is left of a non-empty sequence of offsets once its first is taken.
LEMMA CountsType == ASSUME TypeOK PROVE Counts
  BY CreditAssumption DEF TypeOK, Counts

\* What the read pumps (Link.route, Link.deliver) and Read take off the front
\* of a sequence of offsets, and what is left.
LEMMA TailOffsets ==
  ASSUME NEW s \in Seq(Nat), s # <<>>
  PROVE  /\ Head(s) = s[1] /\ s[1] \in Nat /\ Len(s) \in Nat /\ Len(s) >= 1
         /\ Tail(s) \in Seq(Nat) /\ Len(Tail(s)) = Len(s) - 1
         /\ \A i \in 1..(Len(s) - 1) : Tail(s)[i] = s[i + 1]
         /\ \A i \in 1..Len(s) : s[i] \in Nat
<1>1. Len(s) \in Nat /\ Len(s) >= 1
  BY EmptySeq
<1>2. Tail(s) \in Seq(Nat) /\ Len(Tail(s)) = Len(s) - 1
  BY HeadTailProperties
<1>3. \A i \in 1..(Len(s) - 1) : Tail(s)[i] = s[i + 1]
  BY HeadTailProperties
<1>4. QED
  BY <1>1, <1>2, <1>3

\* A sequence of offsets with one more.
LEMMA AppendOffset ==
  ASSUME NEW s \in Seq(Nat), NEW x \in Nat
  PROVE  /\ Append(s, x) \in Seq(Nat) /\ Append(s, x) # <<>>
         /\ Len(s) \in Nat /\ Len(Append(s, x)) = Len(s) + 1
         /\ Append(s, x)[Len(s) + 1] = x
         /\ \A i \in 1..Len(s) : Append(s, x)[i] = s[i] /\ s[i] \in Nat
         /\ (s = <<>>) <=> (Len(s) = 0)
OBVIOUS

\* A sub-stream starts balanced: the whole window is the writer's.
LEMMA InitInv == Init => IInv
<1>. SUFFICES ASSUME Init PROVE IInv
  OBVIOUS
<1>. USE CreditAssumption, GrantAtType DEF Init
<1>1. TypeOK /\ NeverRefused
  <2>1. <<>> \in Seq(Nat)
    OBVIOUS
  <2>2. QED
    BY <2>1 DEF TypeOK, NeverRefused
<1>2. WriterInv /\ BackInv /\ WireInv
  BY DEF WriterInv, BackInv, WireInv
<1>3. ReaderInv
  BY DEF ReaderInv
<1>4. QED
  BY <1>1, <1>2, <1>3 DEF IInv

\* Handing Write a slice keeps the balance: nothing is spent yet.
LEMMA WriteInv == ASSUME NEW n \in 1..MaxWrite, IInv, Write(n) PROVE IInv'
<1>. USE CreditAssumption, GrantAtType DEF IInv, Write, writerVars, readerVars
<1>1. TypeOK' /\ NeverRefused'
  BY SMT DEF TypeOK, NeverRefused, WriterInv, ReaderInv, BackInv, WireInv
<1>2. WriterInv'
  BY SMT DEF TypeOK, NeverRefused, WriterInv, ReaderInv, BackInv
<1>3. BackInv'
  BY SMT DEF TypeOK, NeverRefused, BackInv
<1>4. WireInv'
  BY SMT DEF TypeOK, NeverRefused, WriterInv, WireInv, ReaderInv
<1>5. ReaderInv'
  BY SMT DEF TypeOK, NeverRefused, WriterInv, BackInv, WireInv, ReaderInv
<1>6. QED
  BY <1>1, <1>2, <1>3, <1>4, <1>5 DEF IInv

\* Channel.spend moves credit to the frame being built and keeps the sum.
LEMMA SpendInv == ASSUME IInv, Spend PROVE IInv'
<1>. USE CreditAssumption, GrantAtType DEF IInv, Spend, writerVars, readerVars, Least, allowed
<1>1. TypeOK' /\ NeverRefused'
  BY SMT DEF TypeOK, NeverRefused, WriterInv, ReaderInv, BackInv, WireInv
<1>2. WriterInv'
  BY SMT DEF TypeOK, NeverRefused, WriterInv, ReaderInv, BackInv
<1>3. BackInv'
  BY SMT DEF TypeOK, NeverRefused, BackInv
<1>4. WireInv'
  BY SMT DEF TypeOK, NeverRefused, WriterInv, WireInv, ReaderInv
<1>5. ReaderInv'
  BY SMT DEF TypeOK, NeverRefused, WriterInv, BackInv, WireInv, ReaderInv
<1>6. QED
  BY <1>1, <1>2, <1>3, <1>4, <1>5 DEF IInv

\* A Write that gives up waiting for credit has spent nothing.
LEMMA StopWaitingInv == ASSUME IInv, StopWaiting PROVE IInv'
<1>. USE CreditAssumption, GrantAtType DEF IInv, StopWaiting, writerVars, readerVars
<1>1. TypeOK' /\ NeverRefused'
  BY SMT DEF TypeOK, NeverRefused, WriterInv, ReaderInv, BackInv, WireInv
<1>2. WriterInv'
  BY SMT DEF TypeOK, NeverRefused, WriterInv, ReaderInv, BackInv
<1>3. BackInv'
  BY SMT DEF TypeOK, NeverRefused, BackInv
<1>4. WireInv'
  BY SMT DEF TypeOK, NeverRefused, WriterInv, WireInv, ReaderInv
<1>5. ReaderInv'
  BY SMT DEF TypeOK, NeverRefused, WriterInv, BackInv, WireInv, ReaderInv
<1>6. QED
  BY <1>1, <1>2, <1>3, <1>4, <1>5 DEF IInv

\* Queueing a frame moves what was spent to what was sent, at the end of the
\* wire.
LEMMA SendFrameInv == ASSUME IInv, SendFrame PROVE IInv'
<1>. USE CreditAssumption DEF IInv, SendFrame, readerVars
<1>1. CASE link = "up"
  <2>. DEFINE end == sent + spent
  <2>1. end \in Nat /\ sent < end /\ pending - spent \in Nat /\ sent \in Nat /\ spent \in Nat
    BY DEF TypeOK, WriterInv
  <2>2. /\ wire' = Append(wire, end) /\ sent' = end /\ pending' = pending - spent /\ spent' = 0
        /\ wire \in Seq(Nat)
    BY <1>1 DEF TypeOK
  <2>. HIDE DEF end
  <2>3. /\ wire' \in Seq(Nat) /\ Len(wire') = Len(wire) + 1 /\ wire'[Len(wire) + 1] = end
        /\ \A i \in 1..Len(wire) : wire'[i] = wire[i]
        /\ wire' # <<>>
    BY <2>1, <2>2
  <2>4. TypeOK' /\ NeverRefused'
    BY <2>1, <2>2, <2>3 DEF TypeOK, NeverRefused
  <2>5. WriterInv'
    BY <1>1, <2>1, <2>2 DEF WriterInv, TypeOK, end
  <2>6. BackInv'
    BY DEF BackInv
  <2>7. WireInv'
    BY <1>1, <2>1, <2>2, <2>3 DEF WireInv, WriterInv, ReaderInv, TypeOK
  <2>8. ReaderInv'
    BY <2>1, <2>2 DEF ReaderInv, WriterInv, TypeOK
  <2>9. QED
    BY <2>4, <2>5, <2>6, <2>7, <2>8 DEF IInv
<1>2. CASE link # "up"
  BY <1>2 DEF TypeOK, NeverRefused, WriterInv, BackInv, WireInv, ReaderInv
<1>3. QED
  BY <1>1, <1>2

\* substream.Close queues the zero-length frame, the last of the sub-stream.
LEMMA CloseWriterInv == ASSUME IInv, CloseWriter PROVE IInv'
<1>1. /\ TypeOK /\ NeverRefused /\ WriterInv /\ BackInv /\ WireInv /\ ReaderInv
      /\ ~closed /\ pending = 0 /\ spent = 0 /\ closed'
      /\ credit' = credit /\ pending' = pending /\ spent' = spent /\ sent' = sent /\ writer' = writer /\ back' = back /\ applied' = applied /\ link' = link
      /\ frames' = frames /\ held' = held /\ received' = received /\ granted' = granted /\ taken' = taken /\ eof' = eof /\ ended' = ended /\ owed' = owed
  BY DEF IInv, CloseWriter, readerVars
<1>2. /\ Append(wire, sent) \in Seq(Nat) /\ Len(Append(wire, sent)) = Len(wire) + 1
      /\ Len(wire) \in Nat /\ Append(wire, sent)[Len(wire) + 1] = sent
      /\ \A i \in 1..Len(wire) : Append(wire, sent)[i] = wire[i] /\ wire[i] \in Nat
  BY <1>1, AppendOffset DEF TypeOK
<1>3. TypeOK' /\ NeverRefused'
  BY <1>1, <1>2 DEF TypeOK, NeverRefused, CloseWriter
<1>4. WriterInv' /\ BackInv' /\ ReaderInv'
  BY <1>1 DEF WriterInv, BackInv, ReaderInv, TypeOK
<1>5. CASE link = "up"
  <2>1. wire' = Append(wire, sent)
    BY <1>5 DEF CloseWriter
  <2>2. WireInv'
    <3>1. SUFFICES ASSUME ~ended, ~eof
                   PROVE  /\ Len(wire') > 0 /\ received <= wire'[1] /\ wire'[Len(wire')] = sent
                          /\ Len(wire') > 1 => received < wire'[1]
                          /\ \A i \in 1..Len(wire') : wire'[i] <= sent
                          /\ \A i \in 1..(Len(wire') - 1) :
                                \/ wire'[i] < wire'[i + 1]
                                \/ i + 1 = Len(wire') /\ wire'[i] <= wire'[i + 1]
      <4>1. Len(wire') = Len(wire) + 1 /\ Len(wire) \in Nat
        BY <1>2, <2>1
      <4>2. QED
        BY <1>1, <3>1, <4>1 DEF WireInv
    <3>2. /\ Len(wire) = 0 => received = sent
          /\ Len(wire) > 0 => received < wire[1]
          /\ \A i \in 1..Len(wire) : wire[i] <= sent
          /\ \A i \in 1..(Len(wire) - 1) : wire[i] < wire[i + 1]
      BY <1>1, <1>5, <3>1 DEF WireInv
    <3>3. /\ Len(wire) \in Nat /\ Len(wire') = Len(wire) + 1 /\ wire'[Len(wire) + 1] = sent
          /\ \A i \in 1..Len(wire) : wire'[i] = wire[i]
          /\ sent \in Nat /\ received \in Nat
      BY <1>1, <1>2, <2>1 DEF TypeOK
    <3>4. /\ Len(wire') > 0 /\ wire'[Len(wire')] = sent
          /\ received <= wire'[1] /\ (Len(wire') > 1 => received < wire'[1])
      <4>1. CASE Len(wire) = 0
        BY <3>2, <3>3, <4>1
      <4>2. CASE Len(wire) > 0
        <5>1. 1 \in 1..Len(wire) /\ wire'[1] = wire[1] /\ wire[1] \in Nat
          BY <1>2, <3>3, <4>2
        <5>2. QED
          BY <3>2, <3>3, <4>2, <5>1
      <4>3. QED
        BY <3>3, <4>1, <4>2
    <3>5. \A i \in 1..Len(wire') : wire'[i] <= sent
      <4>1. \A i \in 1..Len(wire') : i \in 1..Len(wire) \/ i = Len(wire) + 1
        BY <3>3
      <4>2. QED
        BY <3>2, <3>3, <4>1
    <3>6. \A i \in 1..(Len(wire') - 1) :
             \/ wire'[i] < wire'[i + 1]
             \/ i + 1 = Len(wire') /\ wire'[i] <= wire'[i + 1]
      <4>1. SUFFICES ASSUME NEW i \in 1..(Len(wire') - 1)
                     PROVE  \/ wire'[i] < wire'[i + 1]
                            \/ i + 1 = Len(wire') /\ wire'[i] <= wire'[i + 1]
        OBVIOUS
      <4>2. i \in 1..Len(wire) /\ wire'[i] = wire[i]
        BY <3>3
      <4>3. CASE i = Len(wire)
        BY <3>2, <3>3, <4>2, <4>3
      <4>4. CASE i # Len(wire)
        <5>1. i \in 1..(Len(wire) - 1) /\ i + 1 \in 1..Len(wire)
          BY <3>3, <4>2, <4>4
        <5>2. QED
          BY <3>2, <3>3, <4>2, <5>1
      <4>5. QED
        BY <4>3, <4>4
    <3>7. QED
      BY <3>4, <3>5, <3>6
  <2>3. QED
    BY <1>3, <1>4, <2>2 DEF IInv
<1>6. CASE link # "up"
  BY <1>1, <1>3, <1>4, <1>6 DEF IInv, WireInv
<1>7. QED
  BY <1>5, <1>6

\* Channel.grant never meets a grant past the window: the grant is read bytes,
\* and read bytes were sent within the window.
LEMMA GrantInv == ASSUME IInv, Grant PROVE IInv'
<1>1. /\ TypeOK /\ NeverRefused /\ WriterInv /\ BackInv /\ WireInv /\ ReaderInv
      /\ back # <<>> /\ link = "up" /\ back' = Tail(back)
      /\ pending' = pending /\ spent' = spent /\ sent' = sent /\ closed' = closed /\ writer' = writer /\ wire' = wire
      /\ frames' = frames /\ held' = held /\ received' = received /\ granted' = granted /\ taken' = taken /\ eof' = eof /\ ended' = ended /\ owed' = owed
  BY DEF IInv, Grant, readerVars
<1>2. /\ Head(back) = back[1] /\ back[1] \in Nat /\ Len(back) \in Nat /\ Len(back) >= 1
      /\ back' \in Seq(Nat) /\ Len(back') = Len(back) - 1
      /\ \A i \in 1..(Len(back) - 1) : back'[i] = back[i + 1]
      /\ \A i \in 1..Len(back) : back[i] \in Nat
  BY <1>1, TailOffsets DEF TypeOK
<1>3. CASE writer = "dropped"
  <2>1. credit' = credit /\ applied' = applied /\ link' = link
    BY <1>3 DEF Grant
  <2>2. TypeOK' /\ NeverRefused'
    BY <1>1, <1>2, <2>1 DEF TypeOK, NeverRefused
  <2>3. QED
    BY <1>1, <1>3, <2>1, <2>2 DEF IInv, WriterInv, BackInv, WireInv, ReaderInv
<1>4. CASE writer # "dropped"
  <2>1. /\ applied < back[1] /\ back[1] <= granted
        /\ \A i \in 1..(Len(back) - 1) : back[i] < back[i + 1]
        /\ \A i \in 1..Len(back) : back[i] <= granted
        /\ back[Len(back)] + owed = granted
    BY <1>1, <1>2, <1>4 DEF BackInv
  <2>2. /\ credit \in Nat /\ sent \in Nat /\ spent \in Nat /\ applied \in Nat
        /\ granted \in Nat /\ Window \in Nat /\ credit + sent + spent = Window + applied
    BY <1>1, CreditAssumption DEF TypeOK, WriterInv
  <2>3. granted <= sent
    BY <1>1 DEF TypeOK, ReaderInv
  <2>4. back[1] - applied > 0 /\ back[1] - applied <= Window - credit
    BY <1>2, <2>1, <2>2, <2>3
  <2>5. ~(back[1] - applied <= 0 \/ back[1] - applied > Window - credit)
    BY <1>2, <2>2, <2>4
  <2>6. credit' = credit + (back[1] - applied) /\ applied' = back[1] /\ link' = link
    BY <1>2, <1>4, <2>5 DEF Grant
  <2>7. credit' \in Nat /\ applied' \in Nat
    BY <1>2, <2>2, <2>4, <2>6
  <2>8. TypeOK' /\ NeverRefused'
    BY <1>1, <1>2, <2>6, <2>7 DEF TypeOK, NeverRefused
  <2>9. WriterInv'
    <3>1. spent <= pending /\ (closed => pending = 0 /\ spent = 0)
      BY <1>1 DEF WriterInv
    <3>2. credit' + sent + spent = Window + applied'
      BY <1>2, <2>2, <2>6
    <3>3. QED
      BY <1>1, <3>1, <3>2 DEF WriterInv
  <2>10. BackInv'
    <3>1. applied' <= granted' /\ owed' = owed /\ granted' = granted
      BY <1>1, <2>1, <2>6
    <3>2. Len(back') = 0 => applied' + owed = granted
      <4>1. Len(back') = 0 => Len(back) = 1
        BY <1>2
      <4>2. QED
        BY <2>1, <2>6, <4>1
    <3>3. Len(back') > 0 => applied' < back'[1] /\ back'[Len(back')] + owed = granted
      <4>1. Len(back') > 0 => /\ 1 \in 1..(Len(back) - 1) /\ Len(back) - 1 \in 1..(Len(back) - 1)
                              /\ (Len(back) - 1) + 1 = Len(back)
        BY <1>2
      <4>2. Len(back') > 0 => back'[1] = back[2] /\ back'[Len(back')] = back[Len(back)]
        BY <1>2, <4>1
      <4>3. QED
        BY <2>1, <2>6, <4>1, <4>2
    <3>4. \A i \in 1..(Len(back') - 1) : back'[i] < back'[i + 1]
      <4>1. \A i \in 1..(Len(back') - 1) : i \in 1..(Len(back) - 1) /\ i + 1 \in 1..(Len(back) - 1)
        BY <1>2
      <4>2. QED
        BY <1>2, <2>1, <4>1
    <3>5. \A i \in 1..Len(back') : back'[i] <= granted
      <4>1. \A i \in 1..Len(back') : i \in 1..(Len(back) - 1) /\ i + 1 \in 1..Len(back)
        BY <1>2
      <4>2. \A i \in 1..Len(back') : back'[i] = back[i + 1]
        BY <1>2, <4>1
      <4>3. \A i \in 1..Len(back) : back[i] <= granted
        BY <2>1
      <4>4. QED
        BY <4>1, <4>2, <4>3
    <3>6. QED
      BY <3>1, <3>2, <3>3, <3>4, <3>5 DEF BackInv
  <2>11. WireInv' /\ ReaderInv'
    BY <1>1, <2>6 DEF WireInv, ReaderInv
  <2>12. QED
    BY <2>8, <2>9, <2>10, <2>11 DEF IInv
<1>5. QED
  BY <1>3, <1>4

\* inbound.push never meets a frame past the window: what was sent and is not
\* granted back was within the credit.
LEMMA PushInv == ASSUME IInv, Push PROVE IInv'
<1>1. /\ TypeOK /\ NeverRefused /\ WriterInv /\ BackInv /\ WireInv /\ ReaderInv
      /\ wire # <<>> /\ link = "up" /\ wire' = Tail(wire)
      /\ credit' = credit /\ pending' = pending /\ spent' = spent /\ sent' = sent /\ closed' = closed /\ writer' = writer
      /\ back' = back /\ applied' = applied /\ granted' = granted /\ taken' = taken /\ ended' = ended /\ owed' = owed
  BY DEF IInv, Push, writerVars
<1>2. /\ Head(wire) = wire[1] /\ wire[1] \in Nat /\ Len(wire) \in Nat /\ Len(wire) >= 1
      /\ wire' \in Seq(Nat) /\ Len(wire') = Len(wire) - 1
      /\ \A i \in 1..(Len(wire) - 1) : wire'[i] = wire[i + 1]
      /\ \A i \in 1..Len(wire) : wire[i] \in Nat
  BY <1>1, TailOffsets DEF TypeOK
<1>3. /\ sent \in Nat /\ received \in Nat /\ held \in Nat /\ granted \in Nat /\ taken \in Nat
      /\ Window \in Nat /\ applied \in Nat /\ credit \in Nat /\ spent \in Nat
      /\ credit + sent + spent = Window + applied /\ applied <= granted
  BY <1>1, CreditAssumption DEF TypeOK, WriterInv, BackInv
<1>4. CASE eof \/ ended
  <2>1. frames' = frames /\ held' = held /\ received' = received /\ eof' = eof /\ link' = link
    BY <1>4 DEF Push
  <2>2. TypeOK' /\ NeverRefused'
    BY <1>1, <1>2, <2>1 DEF TypeOK, NeverRefused
  <2>3. QED
    BY <1>1, <1>4, <2>1, <2>2 DEF IInv, WriterInv, BackInv, WireInv, ReaderInv
<1>5. CASE ~eof /\ ~ended /\ wire[1] = received
  <2>1. wire[1] - received = 0
    BY <1>2, <1>3, <1>5
  <2>2. eof' = TRUE /\ frames' = frames /\ held' = held /\ received' = received /\ link' = link
    BY <1>2, <1>5, <2>1 DEF Push
  <2>3. /\ Len(wire) > 1 \/ ~closed => received < wire[1]
        /\ wire[Len(wire)] = sent
    <3>1. Len(wire) > 0
      BY <1>2
    <3>2. QED
      BY <1>1, <1>5, <3>1 DEF WireInv
  <2>4. closed /\ received = sent
    <3>1. ~(received < wire[1])
      BY <1>3, <1>5
    <3>2. closed /\ Len(wire) = 1
      BY <1>2, <2>3, <3>1
    <3>3. QED
      BY <1>5, <2>3, <3>2
  <2>5. TypeOK' /\ NeverRefused'
    BY <1>1, <1>2, <2>2 DEF TypeOK, NeverRefused
  <2>6. QED
    BY <1>1, <2>2, <2>4, <2>5 DEF IInv, WriterInv, BackInv, WireInv, ReaderInv
<1>6. CASE ~eof /\ ~ended /\ wire[1] # received
  <2>1. /\ received <= wire[1] /\ wire[Len(wire)] = sent
        /\ \A i \in 1..Len(wire) : wire[i] <= sent
        /\ \A i \in 1..(Len(wire) - 1) :
              \/ wire[i] < wire[i + 1]
              \/ closed /\ i + 1 = Len(wire) /\ wire[i] <= wire[i + 1]
    <3>1. Len(wire) > 0
      BY <1>2
    <3>2. QED
      BY <1>1, <1>6, <3>1 DEF WireInv
  <2>2. wire[1] <= Window + granted /\ received < wire[1]
    <3>1. wire[1] <= sent /\ wire[1] \in Nat
      BY <1>2, <2>1
    <3>2. received <= wire[1] /\ received # wire[1]
      BY <1>6, <2>1
    <3>3. QED
      BY <1>3, <3>1, <3>2
  <2>3. /\ wire[1] - received \in Nat /\ wire[1] - received # 0
        /\ ~(received + (wire[1] - received) - granted > Window)
        /\ received + (wire[1] - received) = wire[1]
    <3>1. wire[1] \in Nat /\ received \in Nat /\ granted \in Nat /\ Window \in Nat
      BY <1>2, <1>3
    <3>2. QED
      BY <2>2, <3>1
  <2>4. /\ frames' = Append(frames, wire[1]) /\ held' = held + (wire[1] - received)
        /\ received' = wire[1] /\ eof' = eof /\ link' = link
    BY <1>2, <1>6, <2>3 DEF Push, pastWindow
  <2>5. /\ frames' \in Seq(Nat) /\ Len(frames') = Len(frames) + 1 /\ Len(frames) \in Nat
        /\ frames'[Len(frames) + 1] = wire[1]
        /\ \A i \in 1..Len(frames) : frames'[i] = frames[i] /\ frames[i] \in Nat
    BY <1>1, <1>2, <2>4, AppendOffset DEF TypeOK
  <2>6. held' \in Nat /\ received' \in Nat
    <3>1. held \in Nat /\ wire[1] \in Nat /\ wire[1] - received \in Nat
      BY <1>2, <1>3, <2>3
    <3>2. held' = held + (wire[1] - received) /\ received' = wire[1]
      BY <2>4
    <3>3. held + (wire[1] - received) \in Nat
      BY <3>1
    <3>4. QED
      BY <3>1, <3>2, <3>3
  <2>7. TypeOK' /\ NeverRefused'
    BY <1>1, <1>2, <2>4, <2>5, <2>6 DEF TypeOK, NeverRefused
  <2>8. WriterInv' /\ BackInv'
    BY <1>1, <2>4 DEF WriterInv, BackInv
  <2>9. WireInv'
    <3>1. Len(wire') = 0 => received' = sent
      <4>1. Len(wire') = 0 => Len(wire) = 1
        BY <1>2
      <4>2. QED
        BY <2>1, <2>4, <4>1
    <3>2. Len(wire') > 0 => /\ received' <= wire'[1] /\ wire'[Len(wire')] = sent
                            /\ Len(wire') > 1 \/ ~closed => received' < wire'[1]
      <4>1. Len(wire') > 0 => /\ 1 \in 1..(Len(wire) - 1) /\ Len(wire) - 1 \in 1..(Len(wire) - 1)
                              /\ (Len(wire) - 1) + 1 = Len(wire) /\ 2 \in 1..Len(wire)
        BY <1>2
      <4>2. Len(wire') > 0 => wire'[1] = wire[2] /\ wire'[Len(wire')] = wire[Len(wire)]
        BY <1>2, <4>1
      <4>3. Len(wire') > 0 => /\ wire[1] <= wire[2]
                              /\ Len(wire) > 2 \/ ~closed => wire[1] < wire[2]
        BY <1>2, <2>1, <4>1
      <4>4. QED
        BY <1>2, <2>1, <2>4, <4>2, <4>3
    <3>3. \A i \in 1..Len(wire') : wire'[i] <= sent
      BY <1>2, <2>1
    <3>4. \A i \in 1..(Len(wire') - 1) :
              \/ wire'[i] < wire'[i + 1]
              \/ closed /\ i + 1 = Len(wire') /\ wire'[i] <= wire'[i + 1]
      <4>1. \A i \in 1..(Len(wire') - 1) :
               /\ i \in 1..(Len(wire) - 1) /\ i + 1 \in 1..(Len(wire) - 1)
               /\ ((i + 1) + 1 = Len(wire)) <=> (i + 1 = Len(wire'))
        BY <1>2
      <4>2. QED
        BY <1>2, <2>1, <4>1
    <3>5. QED
      BY <1>1, <3>1, <3>2, <3>3, <3>4 DEF WireInv
  <2>10. ReaderInv'
    <3>1. \A i \in 1..Len(frames) : frames[i] <= received
      BY <1>1 DEF ReaderInv
    <3>2. \A i \in 1..Len(frames') : frames'[i] <= received'
      BY <1>2, <1>3, <2>2, <2>4, <2>5, <3>1
    <3>3. /\ held <= received /\ granted + taken = received - held /\ taken < grantAt
      BY <1>1, <1>6 DEF ReaderInv
    <3>4. /\ held' <= received' /\ received' <= sent' /\ received' <= Window + granted'
          /\ granted' + taken' = received' - held'
      <4>1. 1 \in 1..Len(wire)
        BY <1>2
      <4>2. wire[1] <= sent /\ wire[1] \in Nat
        BY <1>2, <2>1, <4>1
      <4>3. sent' = sent /\ granted' = granted /\ taken' = taken
        BY <1>1
      <4>4. /\ held + (wire[1] - received) <= wire[1] /\ wire[1] <= sent
            /\ wire[1] <= Window + granted
            /\ granted + taken = wire[1] - (held + (wire[1] - received))
        BY <1>3, <2>2, <3>3, <4>2
      <4>5. QED
        BY <2>4, <4>3, <4>4
    <3>5. granted' + taken' <= received' - held'
      <4>1. granted' + taken' \in Int
        BY <1>1, <1>3
      <4>2. QED
        BY <3>4, <4>1
    <3>6. eof' = FALSE /\ taken' < grantAt
      BY <1>1, <1>6, <2>4, <3>3 DEF TypeOK
    <3>7. QED
      BY <3>2, <3>4, <3>5, <3>6 DEF ReaderInv
  <2>11. QED
    BY <2>7, <2>8, <2>9, <2>10 DEF IInv
<1>7. QED
  BY <1>4, <1>5, <1>6

\* inbound.Read moves bytes from held to taken or granted, and leaves taken
\* below grantAt.
LEMMA ReadInv == ASSUME NEW n \in 1..Window, IInv, Read(n) PROVE IInv'
<1>1. /\ TypeOK /\ NeverRefused /\ WriterInv /\ BackInv /\ WireInv /\ ReaderInv
      /\ frames # <<>> /\ owed = 0 /\ held' = held - n
      /\ credit' = credit /\ pending' = pending /\ spent' = spent /\ sent' = sent
      /\ closed' = closed /\ writer' = writer /\ wire' = wire /\ back' = back
      /\ applied' = applied /\ link' = link /\ received' = received /\ eof' = eof /\ ended' = ended
  BY DEF IInv, Read, writerVars
<1>2. Counts /\ n \in Nat /\ n >= 1 /\ grantAt \in Nat /\ grantAt > 0
  BY <1>1, CountsType, GrantAtType DEF Counts
<1>3. /\ Head(frames) = frames[1] /\ frames[1] \in Nat /\ Len(frames) \in Nat /\ Len(frames) >= 1
      /\ Tail(frames) \in Seq(Nat) /\ Len(Tail(frames)) = Len(frames) - 1
      /\ \A i \in 1..(Len(frames) - 1) : Tail(frames)[i] = frames[i + 1]
      /\ \A i \in 1..Len(frames) : frames[i] \in Nat
  BY <1>1, TailOffsets DEF TypeOK
<1>4. /\ held <= received /\ received <= sent /\ received <= Window + granted
      /\ \A i \in 1..Len(frames) : frames[i] <= received
      /\ granted + taken <= received - held
      /\ ~ended => granted + taken = received - held
      /\ taken < grantAt
  BY <1>1 DEF ReaderInv
<1>5. n <= held
  <2>1. n <= frames[1] - (received - held) /\ frames[1] <= received
    BY <1>3, <1>4 DEF Read
  <2>2. QED
    BY <1>2, <1>3, <2>1 DEF Counts
<1>6. frames' \in Seq(Nat) /\ \A i \in 1..Len(frames') : frames'[i] <= received
  <2>1. frames' = Tail(frames) \/ frames' = frames
    BY DEF Read
  <2>2. \A i \in 1..Len(Tail(frames)) : Tail(frames)[i] <= received
    <3>1. \A i \in 1..Len(Tail(frames)) : i \in 1..(Len(frames) - 1) /\ i + 1 \in 1..Len(frames)
      BY <1>3
    <3>2. QED
      BY <1>3, <1>4, <3>1
  <2>3. QED
    BY <1>1, <1>3, <1>4, <2>1, <2>2 DEF TypeOK
<1>7. held' \in Nat /\ held' <= received /\ received - held' = (received - held) + n
  BY <1>1, <1>2, <1>4, <1>5 DEF Counts
\* What was read is kept, granted, or neither once the operation ended.
<1>8. PICK o \in Nat, k \in Nat :
        /\ owed' = o /\ taken' = k /\ k < grantAt /\ granted' = granted + o
        /\ (granted + o) + k <= (received - held) + n
        /\ ~ended => (granted + o) + k = (received - held) + n
  <2>1. CASE ended
    <3>1. taken' = taken /\ granted' = granted + 0 /\ owed' = 0
      BY <1>1, <1>2, <2>1 DEF Read, Counts
    <3>2. /\ taken < grantAt /\ (granted + 0) + taken <= (received - held) + n
      BY <1>2, <1>4 DEF Counts
    <3>3. QED
      BY <1>2, <2>1, <3>1, <3>2 DEF Counts
  <2>2. CASE ~ended /\ taken + n >= grantAt
    <3>1. owed' = taken + n /\ granted' = granted + (taken + n) /\ taken' = 0
      BY <2>2 DEF Read, kept
    <3>2. /\ taken + n \in Nat
          /\ (granted + (taken + n)) + 0 = (received - held) + n
          /\ (granted + (taken + n)) + 0 <= (received - held) + n
      BY <1>2, <1>4, <2>2 DEF Counts
    <3>3. QED
      BY <1>2, <3>1, <3>2
  <2>3. CASE ~ended /\ ~(taken + n >= grantAt)
    <3>1. owed' = 0 /\ granted' = granted + 0 /\ taken' = taken + n
      BY <2>3 DEF Read, kept
    <3>2. /\ taken + n \in Nat /\ taken + n < grantAt
          /\ (granted + 0) + (taken + n) = (received - held) + n
          /\ (granted + 0) + (taken + n) <= (received - held) + n
      BY <1>2, <1>4, <2>3 DEF Counts
    <3>3. QED
      BY <3>1, <3>2
  <2>4. QED
    BY <2>1, <2>2, <2>3
<1>9. TypeOK' /\ NeverRefused'
  <2>1. granted' \in Nat /\ taken' \in Nat /\ owed' \in Nat
    BY <1>2, <1>8 DEF Counts
  <2>2. QED
    BY <1>1, <1>6, <1>7, <2>1 DEF TypeOK, NeverRefused
<1>10. WriterInv' /\ WireInv'
  BY <1>1 DEF WriterInv, WireInv
<1>11. BackInv'
  <2>1. granted \in Nat /\ applied \in Nat /\ granted <= granted + o
    BY <1>2 DEF Counts
  <2>2. applied' <= granted'
    <3>1. applied <= granted
      BY <1>1 DEF BackInv
    <3>2. applied <= granted + o
      BY <2>1, <3>1
    <3>3. QED
      BY <1>1, <1>8, <3>2
  <2>3. CASE link = "up" /\ writer # "dropped"
    <3>1. /\ Len(back) = 0 => applied = granted
          /\ Len(back) > 0 => applied < back[1] /\ back[Len(back)] = granted
          /\ \A i \in 1..(Len(back) - 1) : back[i] < back[i + 1]
          /\ \A i \in 1..Len(back) : back[i] <= granted /\ back[i] \in Nat
          /\ Len(back) \in Nat
      <4>1. Len(back) \in Nat /\ \A i \in 1..Len(back) : back[i] \in Nat
        BY <1>1 DEF TypeOK
      <4>2. Len(back) > 0 => Len(back) \in 1..Len(back)
        BY <4>1
      <4>3. QED
        BY <1>1, <1>2, <2>3, <4>1, <4>2 DEF BackInv, Counts
    <3>2. \A i \in 1..Len(back) : back[i] <= granted + o
      BY <2>1, <3>1
    <3>3. /\ Len(back) = 0 => applied + o = granted + o
          /\ Len(back) > 0 => back[Len(back)] + o = granted + o
      BY <3>1
    <3>4. QED
      BY <1>1, <1>8, <2>2, <3>1, <3>2, <3>3 DEF BackInv
  <2>4. QED
    BY <1>1, <2>2, <2>3 DEF BackInv
<1>12. ReaderInv'
  <2>1. received <= Window + (granted + o)
    BY <1>2, <1>4 DEF Counts
  <2>2. eof => closed /\ received = sent
    BY <1>1 DEF ReaderInv
  <2>3. /\ granted' + taken' <= received' - held'
        /\ ~ended => granted' + taken' = received' - held'
    BY <1>1, <1>7, <1>8
  <2>4. QED
    BY <1>1, <1>4, <1>6, <1>7, <1>8, <2>1, <2>2, <2>3 DEF ReaderInv
<1>13. QED
  BY <1>9, <1>10, <1>11, <1>12 DEF IInv

\* The credit message Read queues after its lock carries the receiver's grants
\* on from the last message under way.
LEMMA SendCreditInv == ASSUME IInv, SendCredit PROVE IInv'
<1>1. /\ TypeOK /\ NeverRefused /\ WriterInv /\ BackInv /\ WireInv /\ ReaderInv
      /\ owed > 0 /\ owed' = 0
      /\ credit' = credit /\ pending' = pending /\ spent' = spent /\ sent' = sent
      /\ closed' = closed /\ writer' = writer /\ wire' = wire /\ applied' = applied
      /\ link' = link /\ frames' = frames /\ held' = held /\ received' = received
      /\ granted' = granted /\ taken' = taken /\ eof' = eof /\ ended' = ended
  BY DEF IInv, SendCredit, writerVars
<1>2. Counts
  BY <1>1, CountsType
<1>3. /\ Append(back, granted) \in Seq(Nat) /\ Len(Append(back, granted)) = Len(back) + 1
      /\ Len(back) \in Nat /\ Append(back, granted)[Len(back) + 1] = granted
      /\ \A i \in 1..Len(back) : Append(back, granted)[i] = back[i] /\ back[i] \in Nat
  BY <1>1, AppendOffset DEF TypeOK
<1>4. TypeOK' /\ NeverRefused'
  BY <1>1, <1>3 DEF TypeOK, NeverRefused, SendCredit
<1>5. WriterInv' /\ WireInv' /\ ReaderInv'
  BY <1>1 DEF WriterInv, WireInv, ReaderInv
<1>6. CASE link = "up" /\ writer # "dropped"
  <2>1. back' = Append(back, granted)
    BY <1>6 DEF SendCredit
  <2>2. /\ applied <= granted
        /\ Len(back) = 0 => applied + owed = granted
        /\ Len(back) > 0 => applied < back[1] /\ back[Len(back)] + owed = granted
        /\ \A i \in 1..(Len(back) - 1) : back[i] < back[i + 1]
        /\ \A i \in 1..Len(back) : back[i] <= granted
    BY <1>1, <1>6 DEF BackInv
  <2>3. /\ Len(back) = 0 => applied < granted
        /\ Len(back) > 0 => Len(back) \in 1..Len(back) /\ back[Len(back)] < granted /\ 1 \in 1..Len(back)
    <3>1. Len(back) = 0 => applied < granted
      BY <1>1, <1>2, <2>2 DEF Counts
    <3>2. Len(back) > 0 => Len(back) \in 1..Len(back) /\ 1 \in 1..Len(back)
      BY <1>3
    <3>3. Len(back) > 0 => back[Len(back)] < granted
      BY <1>1, <1>2, <1>3, <2>2, <3>2 DEF Counts
    <3>4. QED
      BY <3>1, <3>2, <3>3
  <2>4. Len(back') = Len(back) + 1 /\ applied' < back'[1] /\ back'[Len(back')] = granted
    BY <1>1, <1>3, <2>1, <2>2, <2>3
  <2>5. \A i \in 1..(Len(back') - 1) : back'[i] < back'[i + 1]
    <3>1. ASSUME NEW i \in 1..(Len(back') - 1)
          PROVE  back'[i] < back'[i + 1]
      <4>1. i \in 1..Len(back)
        BY <1>3, <2>4
      <4>2. CASE i = Len(back)
        BY <1>3, <2>1, <2>3, <4>1, <4>2
      <4>3. CASE i # Len(back)
        <5>1. i \in 1..(Len(back) - 1) /\ i + 1 \in 1..Len(back)
          BY <1>3, <4>1, <4>3
        <5>2. QED
          BY <1>3, <2>1, <2>2, <4>1, <5>1
      <4>4. QED
        BY <4>2, <4>3
    <3>2. QED
      BY <3>1
  <2>6. \A i \in 1..Len(back') : back'[i] <= granted
    BY <1>2, <1>3, <2>1, <2>2 DEF Counts
  <2>7. BackInv'
    BY <1>1, <1>2, <1>3, <2>2, <2>4, <2>5, <2>6 DEF BackInv, Counts
  <2>8. QED
    BY <1>4, <1>5, <2>7 DEF IInv
<1>7. CASE ~(link = "up" /\ writer # "dropped")
  BY <1>1, <1>4, <1>5, <1>7 DEF IInv, BackInv
<1>8. QED
  BY <1>6, <1>7

\* inbound.fail frees the receiver's counts from the balance of reads.
LEMMA EndReaderInv == ASSUME IInv, EndReader PROVE IInv'
<1>. USE CreditAssumption, GrantAtType DEF IInv, EndReader, writerVars, readerVars
<1>1. TypeOK' /\ NeverRefused'
  BY SMT DEF TypeOK, NeverRefused, WriterInv, ReaderInv, BackInv, WireInv
<1>2. WriterInv'
  BY SMT DEF TypeOK, NeverRefused, WriterInv, ReaderInv, BackInv
<1>3. BackInv'
  BY SMT DEF TypeOK, NeverRefused, BackInv
<1>4. WireInv'
  BY SMT DEF TypeOK, NeverRefused, WriterInv, WireInv, ReaderInv
<1>5. ReaderInv'
  BY SMT DEF TypeOK, NeverRefused, WriterInv, BackInv, WireInv, ReaderInv
<1>6. QED
  BY <1>1, <1>2, <1>3, <1>4, <1>5 DEF IInv

\* Channel.end and Channel.answer leave every count alone.
LEMMA EndWriterInv == ASSUME IInv, EndWriter PROVE IInv'
<1>. USE CreditAssumption, GrantAtType DEF IInv, EndWriter, writerVars, readerVars
<1>1. TypeOK' /\ NeverRefused'
  BY SMT DEF TypeOK, NeverRefused, WriterInv, ReaderInv, BackInv, WireInv
<1>2. WriterInv'
  BY SMT DEF TypeOK, NeverRefused, WriterInv, ReaderInv, BackInv
<1>3. BackInv'
  BY SMT DEF TypeOK, NeverRefused, BackInv
<1>4. WireInv'
  BY SMT DEF TypeOK, NeverRefused, WriterInv, WireInv, ReaderInv
<1>5. ReaderInv'
  BY SMT DEF TypeOK, NeverRefused, WriterInv, BackInv, WireInv, ReaderInv
<1>6. QED
  BY <1>1, <1>2, <1>3, <1>4, <1>5 DEF IInv

\* Link.Drop leaves every count alone: later credits are discarded.
LEMMA DropWriterInv == ASSUME IInv, DropWriter PROVE IInv'
<1>. USE CreditAssumption, GrantAtType DEF IInv, DropWriter, writerVars, readerVars
<1>1. TypeOK' /\ NeverRefused'
  BY SMT DEF TypeOK, NeverRefused, WriterInv, ReaderInv, BackInv, WireInv
<1>2. WriterInv'
  BY SMT DEF TypeOK, NeverRefused, WriterInv, ReaderInv, BackInv
<1>3. BackInv'
  BY SMT DEF TypeOK, NeverRefused, BackInv
<1>4. WireInv'
  BY SMT DEF TypeOK, NeverRefused, WriterInv, WireInv, ReaderInv
<1>5. ReaderInv'
  BY SMT DEF TypeOK, NeverRefused, WriterInv, BackInv, WireInv, ReaderInv
<1>6. QED
  BY <1>1, <1>2, <1>3, <1>4, <1>5 DEF IInv

\* Link.Shutdown ends both sides and empties the connection.
LEMMA ShutdownInv == ASSUME IInv, Shutdown PROVE IInv'
<1>. USE CreditAssumption, GrantAtType DEF IInv, Shutdown
<1>1. TypeOK' /\ NeverRefused'
  BY SMT DEF TypeOK, NeverRefused, WriterInv, ReaderInv, BackInv, WireInv
<1>2. WriterInv'
  BY SMT DEF TypeOK, NeverRefused, WriterInv, ReaderInv, BackInv
<1>3. BackInv'
  BY SMT DEF TypeOK, NeverRefused, BackInv
<1>4. WireInv'
  BY SMT DEF TypeOK, NeverRefused, WriterInv, WireInv, ReaderInv
<1>5. ReaderInv'
  BY SMT DEF TypeOK, NeverRefused, WriterInv, BackInv, WireInv, ReaderInv
<1>6. QED
  BY <1>1, <1>2, <1>3, <1>4, <1>5 DEF IInv

\* Every step of the sub-stream keeps the balance.
LEMMA StepInv == IInv /\ [Next]_vars => IInv'
<1>1. SUFFICES ASSUME IInv, [Next]_vars
               PROVE  IInv'
  OBVIOUS
<1>2. CASE \E n \in 1..MaxWrite : Write(n)
  BY <1>1, <1>2, WriteInv
<1>3. CASE \E n \in 1..Window : Read(n)
  BY <1>1, <1>3, ReadInv
<1>4. CASE Spend \/ StopWaiting \/ SendFrame \/ CloseWriter \/ Grant
  BY <1>1, <1>4, SpendInv, StopWaitingInv, SendFrameInv, CloseWriterInv, GrantInv
<1>5. CASE Push \/ SendCredit
  BY <1>1, <1>5, PushInv, SendCreditInv
<1>6. CASE EndReader \/ EndWriter \/ DropWriter \/ Shutdown
  BY <1>1, <1>6, EndReaderInv, EndWriterInv, DropWriterInv, ShutdownInv
<1>7. CASE UNCHANGED vars
  BY <1>1, <1>7 DEF IInv, TypeOK, NeverRefused, WriterInv, BackInv, WireInv, ReaderInv, vars
<1>8. QED
  BY <1>1, <1>2, <1>3, <1>4, <1>5, <1>6, <1>7 DEF Next

-----------------------------------------------------------------------------
(* What follows from it. *)

\* The balance of a sub-stream (WriterInv, BackInv, WireInv, ReaderInv) holds
\* in every state of Channel and inbound.
THEOREM Balance == Spec => []IInv
  BY InitInv, StepInv, PTL DEF Spec

\* The counters and buffers of both sides keep their types.
THEOREM Types == Spec => []TypeOK
<1>1. IInv => TypeOK
  BY DEF IInv
<1>2. QED
  BY <1>1, Balance, PTL

\* For every window and frame size, neither ErrFrame of a sub-stream (the
\* receiver's in inbound.push, the writer's in Channel.grant) is ever met by
\* two sides that follow the protocol.
THEOREM NoRefusal == Spec => []NeverRefused
<1>1. IInv => NeverRefused
  BY DEF IInv
<1>2. QED
  BY <1>1, Balance, PTL

\* The receiver never buffers more of a sub-stream than the window it
\* announced (inbound.held).
THEOREM BufferBounded == Spec => []HeldWithinWindow
<1>1. ASSUME IInv PROVE HeldWithinWindow
  <2>1. Counts
    BY <1>1, CountsType DEF IInv
  <2>2. granted + taken <= received - held /\ received <= Window + granted
    BY <1>1 DEF IInv, ReaderInv
  <2>3. QED
    BY <2>1, <2>2 DEF Counts, HeldWithinWindow
<1>2. QED
  BY <1>1, Balance, PTL

\* The three together: counters keep their types, no frame or grant is refused,
\* and the receiver buffers at most its window.
THEOREM WindowHeld == Spec => []WindowKept
<1>1. TypeOK /\ NeverRefused /\ HeldWithinWindow => WindowKept
  BY DEF WindowKept
<1>2. QED
  BY <1>1, Types, NoRefusal, BufferBounded, PTL

\* The batching of inbound.grantAt strands no credit: a writer that waits in
\* Channel.spend with nothing under way waits for bytes the reader can read.
THEOREM NoCreditStranded == Spec => []NoStall
<1>1. ASSUME IInv PROVE NoStall
  <2>1. SUFFICES ASSUME link = "up", writer = "open", ~ended, ~eof,
                        pending > 0, spent = 0, credit = 0,
                        wire = <<>>, back = <<>>, owed = 0
                 PROVE  held > 0
    BY DEF NoStall
  <2>2. Counts /\ grantAt \in Nat /\ grantAt <= Window
    <3>1. Counts
      BY <1>1, CountsType DEF IInv
    <3>2. QED
      BY <3>1, GrantAtType, CreditAssumption
  <2>3. Len(wire) = 0 /\ Len(back) = 0
    BY <2>1
  <2>4. received = sent /\ applied = granted
    BY <1>1, <2>1, <2>2, <2>3 DEF IInv, WireInv, BackInv, Counts
  <2>5. sent = Window + applied
    BY <1>1, <2>1, <2>2 DEF IInv, WriterInv, Counts
  <2>6. granted + taken = received - held /\ taken < grantAt
    BY <1>1, <2>1 DEF IInv, ReaderInv
  <2>7. QED
    BY <2>2, <2>4, <2>5, <2>6 DEF Counts
<1>2. QED
  BY <1>1, Balance, PTL

\* A reader that meets the end of a sub-stream has received every byte that
\* was written before substream.Close.
THEOREM EndsWhole == Spec => []EndIsComplete
<1>1. IInv => EndIsComplete
  BY DEF IInv, ReaderInv, EndIsComplete
<1>2. QED
  BY <1>1, Balance, PTL

=============================================================================
