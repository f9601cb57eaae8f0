----------------------------- MODULE BufferedStream -----------------------------
(***************************************************************************)
(* utl::BufferedStream (uio/BufferedStream): an input and an output buffer *)
(* in front of another stream, which reads less than it was asked for      *)
(* whenever it likes and, at its end, throws.                              *)
(*                                                                         *)
(* A byte is its number in the stream, so that its order shows; some are   *)
(* line ends (or nuls, which end a line too).  read(), readLine() and      *)
(* write() take one step for each time around their loops.  Left out are   *)
(* the calls that the code breaks on: read() with no minimum at the end of *)
(* the stream, put() after a write that failed, and bits, for which reading*)
(* and writing share their state.                                          *)
(***************************************************************************)
EXTENDS Integers, SequenceTheorems, TLAPS

CONSTANTS InBytes,          \* the bytes there are to read
          LineEnds,         \* those of them that end a line
          OutBytes,         \* the bytes there are to write
          InSize, OutSize   \* _iBuf.size(), _oBuf.size()

StreamAssumption ==
  /\ InBytes \in Nat /\ OutBytes \in Nat
  /\ InSize \in Nat \ {0} /\ OutSize \in Nat \ {0}

VARIABLES given,            \* the bytes that the other stream has given
          iBuf, iBufPos, iBufLim,
          received,         \* the bytes that the caller got or threw away
          sink,             \* the bytes that the other stream was given
          oBuf,             \* _oBuf up to _oBufPos
          written,          \* the bytes that the caller has written
          call,             \* what the caller waits for
          answer            \* what it got last: the bytes from..to, atEnd if cut short

streamVars == <<given, iBuf, iBufPos, iBufLim, received, sink, oBuf, written, call, answer>>
inVars  == <<given, iBuf, iBufPos, iBufLim, received>>
outVars == <<sink, oBuf, written>>

Lesser(a, b) == IF a < b THEN a ELSE b
Run(from, to) == [i \in 1..(to + 1 - from) |-> from + i - 1]

Idle == [op |-> "none", least |-> 0, most |-> 0, left |-> 0]
NoResult == [op |-> "none", from |-> 1, to |-> 0, least |-> 0, most |-> 0, atEnd |-> FALSE]

StreamInit ==
  /\ given = 0 /\ received = <<>>
  /\ iBuf = [i \in 0..(InSize - 1) |-> 0] /\ iBufPos = 0 /\ iBufLim = 0
  /\ sink = <<>> /\ oBuf = <<>> /\ written = 0
  /\ call = Idle /\ answer = NoResult

Ready == call = Idle /\ UNCHANGED outVars
ForgetResult == answer' = NoResult

-------------------------------------------------------------------------------
(* Input *)

\* what is between the other stream and the caller
Buffered == [i \in 1..(iBufLim - iBufPos) |-> iBuf[iBufPos + i - 1]]

\* underflow(), of which the buffer, its limit and what was given are the result
Refills ==
  {[buf |-> [i \in 0..(InSize - 1) |-> IF i < n THEN given + i + 1 ELSE iBuf[i]],
    lim |-> n] : n \in 1..Lesser(InSize, InBytes - given)}

\* mutant: whatever was left in the buffer makes place for more
AvailableAgain(n) ==
  IF n <= iBufLim - iBufPos THEN {[buf |-> iBuf, pos |-> iBufPos, lim |-> iBufLim, more |-> 0]}
  ELSE {[buf |-> r.buf, pos |-> 0, lim |-> r.lim, more |-> r.lim] : r \in Refills}

\* the buffer with something in it, for one who would like n bytes: it is filled
\* when it is empty, and only then; none at the end of the stream
Available(n) ==
  IF iBufPos < iBufLim THEN {[buf |-> iBuf, pos |-> iBufPos, lim |-> iBufLim, more |-> 0]}
  ELSE {[buf |-> r.buf, pos |-> 0, lim |-> r.lim, more |-> r.lim] : r \in Refills}

\* n bytes go to the caller from what is available
Consume(a, n) ==
  /\ iBuf' = a.buf /\ iBufPos' = a.pos + n /\ iBufLim' = a.lim
  /\ given' = given + a.more
  /\ received' = received \o [i \in 1..n |-> a.buf[a.pos + i - 1]]

\* an underflow() that throws has emptied the buffer
AtEnd ==
  /\ iBufPos = iBufLim /\ given = InBytes
  /\ iBufPos' = 0 /\ iBufLim' = 0
  /\ UNCHANGED <<given, iBuf, received>>

Get ==
  /\ Ready
  /\ \/ \E a \in Available(1) : Consume(a, 1)
     \/ AtEnd
  /\ call' = [Idle EXCEPT !.op = "get"] /\ ForgetResult

\* unget(), also as the end of peek(): the byte that was got last goes back
Unget ==
  /\ call.op = "get" /\ iBufPos > 0
  /\ iBufPos' = iBufPos - 1
  /\ iBuf' = [iBuf EXCEPT ![iBufPos - 1] = received[Len(received)]]
  /\ received' = SubSeq(received, 1, Len(received) - 1)
  /\ call' = Idle
  /\ UNCHANGED <<given, iBufLim, outVars, answer>>

KeepGot == call.op = "get" /\ call' = Idle /\ UNCHANGED <<inVars, outVars, answer>>

EofBlocking ==
  /\ Ready
  /\ \/ \E a \in Available(1) : Consume(a, 0)
     \/ AtEnd
  /\ UNCHANGED call /\ ForgetResult

Read(least, most) ==
  /\ Ready
  /\ call' = [op |-> "read", least |-> least, most |-> most, left |-> Len(received)]
  /\ UNCHANGED inVars /\ ForgetResult

ReadLine ==
  /\ Ready
  /\ call' = [op |-> "readLine", least |-> 0, most |-> 0, left |-> Len(received)]
  /\ UNCHANGED inVars /\ ForgetResult

\* what a call that began with `left' bytes received has got by now
Got == Len(received) - call.left

Returns(atEnd) ==
  /\ call' = Idle
  /\ answer' = [op |-> call.op, from |-> call.left + 1, to |-> Len(received'),
                least |-> call.least, most |-> call.most, atEnd |-> atEnd]

ReadStep ==
  /\ call.op = "read"
  /\ \E a \in Available(call.most - Got) :
       LET n == Lesser(a.lim - a.pos, call.most - Got)
       IN /\ Consume(a, n)
          /\ IF Got + n >= call.least THEN Returns(FALSE) ELSE UNCHANGED <<call, answer>>
  /\ UNCHANGED outVars

\* the bytes up to the first line's end, or all that are available
ReadLineStep ==
  /\ call.op = "readLine"
  /\ \E a \in Available(1), n \in 1..InSize :
       /\ n <= a.lim - a.pos
       /\ \A i \in a.pos..(a.pos + n - 2) : a.buf[i] \notin LineEnds
       /\ Consume(a, n)
       /\ IF a.buf[a.pos + n - 1] \in LineEnds THEN Returns(FALSE)
          ELSE n = a.lim - a.pos /\ UNCHANGED <<call, answer>>
  /\ UNCHANGED outVars

\* the end of the stream in either: read() throws, and readLine() does when it got nothing
CutShort ==
  /\ call.op \in {"read", "readLine"}
  /\ AtEnd
  /\ Returns(TRUE)
  /\ UNCHANGED outVars

FlushInput ==
  /\ Ready
  /\ received' = received \o Buffered
  /\ iBufPos' = 0 /\ iBufLim' = 0
  /\ UNCHANGED <<given, iBuf, call>> /\ ForgetResult

-------------------------------------------------------------------------------
(* Output *)

\* the buffer with the next n bytes, written out when that fills it
Fill(n) ==
  LET buf == oBuf \o Run(written + 1, written + n)
  IN /\ written' = written + n
     /\ IF Len(buf) = OutSize THEN sink' = sink \o buf /\ oBuf' = <<>>
        ELSE oBuf' = buf /\ UNCHANGED sink

Put ==
  /\ call = Idle /\ written < OutBytes
  /\ Fill(1)
  /\ UNCHANGED <<inVars, call>> /\ ForgetResult

Write(n) ==
  /\ call = Idle /\ written + n <= OutBytes
  /\ call' = [Idle EXCEPT !.op = "write", !.left = n]
  /\ UNCHANGED <<inVars, outVars>> /\ ForgetResult

WriteStep ==
  /\ call.op = "write"
  /\ LET n == Lesser(OutSize - Len(oBuf), call.left)
     IN /\ Fill(n)
        /\ call' = IF n = call.left THEN Idle ELSE [call EXCEPT !.left = @ - n]
  /\ UNCHANGED <<inVars, answer>>

Flush ==
  /\ call = Idle
  /\ sink' = sink \o oBuf /\ oBuf' = <<>>
  /\ UNCHANGED <<inVars, written, call>> /\ ForgetResult

StreamNext ==
  \/ \E most \in 1..InBytes : \E least \in 1..most : Read(least, most)
  \/ \E n \in 1..OutBytes : Write(n)
  \/ Get \/ Unget \/ KeepGot \/ EofBlocking \/ ReadLine \/ ReadStep \/ ReadLineStep \/ CutShort
  \/ FlushInput \/ Put \/ WriteStep \/ Flush

StreamSpec == StreamInit /\ [][StreamNext]_streamVars

-------------------------------------------------------------------------------
(* Properties *)

\* read() returns as much as it has to and not more, and readLine() a line and the end
\* of it, unless the stream ended first
AnswerExact ==
  LET size == answer.to + 1 - answer.from
  IN /\ answer.atEnd => answer.to = InBytes
     /\ answer.op = "read" => IF answer.atEnd THEN size < answer.least
                              ELSE size \in answer.least..answer.most
     /\ answer.op = "readLine" =>
          \A i \in answer.from..answer.to :
            i \in LineEnds <=> i = answer.to /\ ~answer.atEnd

\* However short the other stream's reads are, and whatever calls are mixed, no byte
\* is lost, repeated or passed by another between it and the caller, in either
\* direction; read() returns as much as it has to and not more, and readLine() a line
\* and the end of it, unless the stream ended first.
StreamExact ==
  /\ received \o Buffered = Run(1, given)
  /\ iBufPos <= iBufLim /\ iBufLim <= InSize
  /\ sink \o oBuf = Run(1, written)
  /\ Len(oBuf) < OutSize
  /\ AnswerExact

-------------------------------------------------------------------------------
(* The invariant that StreamExact follows from: where every byte is that   *)
(* was given or written, and what the loops of read() and readLine() know. *)

CallTypes ==
  /\ call \in [op : {"none", "get", "read", "readLine", "write"}, least : Nat, most : Nat, left : Nat]
  /\ answer \in [op : {"none", "read", "readLine"}, from : Nat, to : Nat, least : Nat, most : Nat,
                 atEnd : BOOLEAN]

\* the caller's bytes are the first ones, and the buffer's those behind them
InputInOrder ==
  /\ given \in 0..InBytes
  /\ iBuf \in [0..(InSize - 1) -> Nat] /\ iBufPos \in Nat /\ iBufLim \in Nat
  /\ iBufPos <= iBufLim /\ iBufLim <= InSize
  /\ received \in Seq(Nat) /\ Len(received) + (iBufLim - iBufPos) = given
  /\ \A i \in 1..Len(received) : received[i] = i
  /\ \A i \in iBufPos..(iBufLim - 1) : iBuf[i] = Len(received) + (i - iBufPos) + 1

OutputInOrder ==
  /\ sink \in Seq(Nat) /\ oBuf \in Seq(Nat) /\ written \in Nat
  /\ Len(oBuf) < OutSize /\ Len(sink) + Len(oBuf) = written
  /\ \A i \in 1..Len(sink) : sink[i] = i
  /\ \A i \in 1..Len(oBuf) : oBuf[i] = Len(sink) + i

\* a byte that may be put back was got; a loop that goes on has not got enough
CallInOrder ==
  /\ call.op = "get" /\ iBufPos > 0 => Len(received) > 0
  /\ call.op \in {"read", "readLine"} => call.left <= Len(received)
  /\ call.op = "read" => Got < call.least /\ call.least <= call.most
  /\ call.op = "readLine" => \A i \in (call.left + 1)..Len(received) : i \notin LineEnds

StreamInv == CallTypes /\ InputInOrder /\ OutputInOrder /\ CallInOrder /\ AnswerExact

-------------------------------------------------------------------------------
(* Sequences *)

\* Bytes that are put behind a sequence.
LEMMA PutBehind ==
  ASSUME NEW s \in Seq(Nat), NEW n \in Nat, NEW t \in [1..n -> Nat]
  PROVE  /\ s \o t \in Seq(Nat) /\ Len(s \o t) = Len(s) + n
         /\ \A i \in 1..Len(s) : (s \o t)[i] = s[i]
         /\ \A i \in 1..n : (s \o t)[Len(s) + i] = t[i]
<1>1. t \in Seq(Nat) /\ Len(t) = n
  OBVIOUS
<1>. QED
  BY <1>1, SMTT(30)

\* A sequence in which every byte is its number is a run from the first one.
LEMMA RunFromFirst ==
  ASSUME NEW s \in Seq(Nat), NEW n \in Nat, Len(s) = n, \A i \in 1..n : s[i] = i
  PROVE  s = Run(1, n)
<1>1. Run(1, n) \in Seq(Nat) /\ Len(Run(1, n)) = n /\ \A i \in 1..n : Run(1, n)[i] = i
  BY DEF Run
<1>. QED
  BY <1>1

-------------------------------------------------------------------------------
(* Input *)

\* What is available starts at the first byte that the caller has not got.
LEMMA AvailableNext ==
  ASSUME StreamAssumption, InputInOrder, NEW k, NEW a \in Available(k)
  PROVE  /\ a.buf \in [0..(InSize - 1) -> Nat] /\ a.pos \in Nat /\ a.lim \in Nat /\ a.more \in Nat
         /\ a.pos < a.lim /\ a.lim <= InSize
         /\ Len(received) + (a.lim - a.pos) = given + a.more /\ given + a.more <= InBytes
         /\ \A i \in a.pos..(a.lim - 1) : a.buf[i] = Len(received) + (i - a.pos) + 1
<1>1. CASE iBufPos < iBufLim
  <2>1. a.buf = iBuf /\ a.pos = iBufPos /\ a.lim = iBufLim /\ a.more = 0
    BY <1>1 DEF Available
  <2>. QED
    BY <1>1, <2>1 DEF InputInOrder, StreamAssumption
<1>2. CASE ~(iBufPos < iBufLim)
  <2>1. PICK r \in Refills : a = [buf |-> r.buf, pos |-> 0, lim |-> r.lim, more |-> r.lim]
    BY <1>2 DEF Available
  <2>2. PICK n \in 1..Lesser(InSize, InBytes - given) :
          r = [buf |-> [i \in 0..(InSize - 1) |-> IF i < n THEN given + i + 1 ELSE iBuf[i]], lim |-> n]
    BY DEF Refills
  <2>3. n \in Nat /\ n > 0 /\ n <= InSize /\ given + n <= InBytes
    BY DEF Lesser, InputInOrder, StreamAssumption
  <2>4. given \in Nat /\ Len(received) = given /\ iBuf \in [0..(InSize - 1) -> Nat]
    BY <1>2 DEF InputInOrder, StreamAssumption
  <2>5. /\ a.buf = [i \in 0..(InSize - 1) |-> IF i < n THEN given + i + 1 ELSE iBuf[i]]
        /\ a.pos = 0 /\ a.lim = n /\ a.more = n
    BY <2>1, <2>2
  <2>6. a.buf \in [0..(InSize - 1) -> Nat]
    BY <2>4, <2>5
  <2>7. \A i \in 0..(n - 1) : a.buf[i] = given + i + 1
    BY <2>3, <2>5 DEF StreamAssumption
  <2>. QED
    BY <2>3, <2>4, <2>5, <2>6, <2>7
<1>. QED
  BY <1>1, <1>2

\* The caller gets the first bytes of what is available.
LEMMA ConsumeStep ==
  ASSUME StreamAssumption, InputInOrder, NEW k, NEW a \in Available(k),
         NEW n \in 0..(a.lim - a.pos), Consume(a, n)
  PROVE  InputInOrder' /\ Len(received') = Len(received) + n
<1>. DEFINE got == [i \in 1..n |-> a.buf[a.pos + i - 1]]
<1>1. /\ a.buf \in [0..(InSize - 1) -> Nat] /\ a.pos \in Nat /\ a.lim \in Nat /\ a.more \in Nat
      /\ a.pos < a.lim /\ a.lim <= InSize
      /\ Len(received) + (a.lim - a.pos) = given + a.more /\ given + a.more <= InBytes
      /\ \A i \in a.pos..(a.lim - 1) : a.buf[i] = Len(received) + (i - a.pos) + 1
  BY AvailableNext
<1>2. received \in Seq(Nat) /\ Len(received) \in Nat /\ given \in Nat /\ \A i \in 1..Len(received) : received[i] = i
  BY DEF InputInOrder
<1>3. n \in Nat /\ got \in [1..n -> Nat] /\ \A i \in 1..n : got[i] = Len(received) + i
  <2>1. n \in Nat /\ n <= a.lim - a.pos
    BY <1>1
  <2>2. \A i \in 1..n : Len(received) + i \in Nat
    BY <1>2, <2>1
  <2>3. ASSUME NEW i \in 1..n PROVE a.buf[a.pos + i - 1] = Len(received) + i
    <3>. DEFINE at == a.pos + i - 1
    <3>1. at \in a.pos..(a.lim - 1) /\ Len(received) + (at - a.pos) + 1 = Len(received) + i
      BY <1>1, <1>2, <2>1, SMTT(30)
    <3>. HIDE DEF at
    <3>2. a.buf[at] = Len(received) + i
      BY <1>1, <3>1
    <3>. QED
      BY <3>2 DEF at
  <2>. QED
    BY <2>1, <2>2, <2>3
<1>4. received' = received \o got
  BY DEF Consume
<1>5. /\ received' \in Seq(Nat) /\ Len(received') = Len(received) + n
      /\ \A i \in 1..Len(received) : received'[i] = received[i]
      /\ \A i \in 1..n : received'[Len(received) + i] = got[i]
  BY <1>2, <1>3, <1>4, PutBehind
<1>6. \A i \in 1..Len(received') : received'[i] = i
  <2>. TAKE i \in 1..Len(received')
  <2>1. CASE i <= Len(received)
    BY <1>2, <1>5, <2>1, SMTT(30)
  <2>2. CASE i > Len(received)
    <3>1. i - Len(received) \in 1..n /\ Len(received) + (i - Len(received)) = i
      BY <1>2, <1>3, <1>5, <2>2
    <3>. QED
      BY <1>2, <1>3, <1>5, <3>1
  <2>. QED
    BY <1>2, <1>5, <2>1, <2>2
<1>7. /\ iBuf' = a.buf /\ iBufPos' = a.pos + n /\ iBufLim' = a.lim /\ given' = given + a.more
  BY DEF Consume
<1>8. \A i \in iBufPos'..(iBufLim' - 1) : iBuf'[i] = Len(received') + (i - iBufPos') + 1
  <2>1. \A i \in (a.pos + n)..(a.lim - 1) :
          i \in a.pos..(a.lim - 1)
            /\ Len(received) + (i - a.pos) + 1 = (Len(received) + n) + (i - (a.pos + n)) + 1
    BY <1>1, <1>2, <1>3
  <2>. QED
    BY <1>1, <1>5, <1>7, <2>1
<1>9. given' \in 0..InBytes /\ Len(received') + (iBufLim' - iBufPos') = given'
  <2>1. given' \in Nat /\ given' <= InBytes
    BY <1>1, <1>2, <1>7
  <2>2. (Len(received) + n) + (a.lim - (a.pos + n)) = Len(received) + (a.lim - a.pos)
    BY <1>1, <1>2, <1>3
  <2>. QED
    BY <1>1, <1>5, <1>7, <2>1, <2>2 DEF StreamAssumption
<1>10. iBufPos' \in Nat /\ iBufPos' <= iBufLim'
  BY <1>1, <1>3, <1>7
<1>. QED
  BY <1>1, <1>5, <1>6, <1>7, <1>8, <1>9, <1>10 DEF InputInOrder

\* At the end of the stream the caller has got all of it.
LEMMA AtEndStep ==
  ASSUME StreamAssumption, InputInOrder, AtEnd
  PROVE  InputInOrder' /\ Len(received) = InBytes /\ received' = received
<1>1. iBufPos = iBufLim /\ given = InBytes /\ iBufPos' = 0 /\ iBufLim' = 0
      /\ UNCHANGED <<given, iBuf, received>>
  BY DEF AtEnd
<1>2. /\ received \in Seq(Nat) /\ Len(received) = given /\ given \in 0..InBytes /\ InSize >= 0
      /\ iBuf \in [0..(InSize - 1) -> Nat] /\ \A i \in 1..Len(received) : received[i] = i
  BY <1>1 DEF InputInOrder, StreamAssumption
<1>3. Len(received') + (iBufLim' - iBufPos') = given'
  BY <1>1, <1>2
<1>4. \A i \in iBufPos'..(iBufLim' - 1) : iBuf'[i] = Len(received') + (i - iBufPos') + 1
  BY <1>1
<1>. QED
  BY <1>1, <1>2, <1>3, <1>4 DEF InputInOrder

\* The byte that goes back is the one in front of those in the buffer.
LEMMA UngetStep ==
  ASSUME StreamAssumption, InputInOrder, CallInOrder, Unget
  PROVE  InputInOrder'
<1>. DEFINE last == Len(received)
<1>1. /\ iBufPos \in Nat /\ iBufPos > 0 /\ iBufLim \in Nat /\ iBufPos <= iBufLim /\ iBufLim <= InSize
      /\ last \in Nat /\ last > 0 /\ last + (iBufLim - iBufPos) = given /\ given \in 0..InBytes
  BY DEF Unget, CallInOrder, InputInOrder
<1>2. received \in Seq(Nat) /\ (\A i \in 1..last : received[i] = i) /\ received[last] = last
  BY <1>1 DEF InputInOrder
<1>3. received' = SubSeq(received, 1, last - 1)
  BY DEF Unget
<1>4. received' \in Seq(Nat) /\ Len(received') = last - 1 /\ \A i \in 1..(last - 1) : received'[i] = received[i]
  <2>1. last - 1 \in Int /\ \A i \in 1..(last - 1) : i \in 1..last /\ received[i] \in Nat /\ 1 + i - 1 = i
    BY <1>1, <1>2
  <2>2. /\ received' \in Seq(Nat) /\ Len(received') = IF 1 <= last - 1 THEN last - 1 - 1 + 1 ELSE 0
        /\ \A i \in 1..(last - 1 - 1 + 1) : received'[i] = received[1 + i - 1]
    BY <1>3, <2>1, SubSeqProperties
  <2>3. last - 1 - 1 + 1 = last - 1 /\ (IF 1 <= last - 1 THEN last - 1 - 1 + 1 ELSE 0) = last - 1
    <3>1. last \in Nat /\ last > 0
      BY <1>1
    <3>. HIDE DEF last
    <3>. QED
      BY <3>1
  <2>4. received' \in Seq(Nat) /\ Len(received') = last - 1 /\ \A i \in 1..(last - 1) : received'[i] = received[1 + i - 1]
    BY <2>2, <2>3
  <2>. QED
    BY <2>1, <2>4
<1>5. \A i \in 1..Len(received') : received'[i] = i
  <2>. \A i \in 1..(last - 1) : i \in 1..last
    BY <1>1
  <2>. QED
    BY <1>2, <1>4
<1>6. /\ iBufPos' = iBufPos - 1 /\ iBufLim' = iBufLim /\ given' = given
      /\ iBuf' = [iBuf EXCEPT ![iBufPos - 1] = last]
  BY <1>2 DEF Unget
<1>7. /\ iBufPos - 1 \in 0..(InSize - 1) /\ iBuf \in [0..(InSize - 1) -> Nat]
      /\ \A i \in iBufPos..(iBufLim - 1) : i \in 0..(InSize - 1) /\ iBuf[i] = last + (i - iBufPos) + 1
  BY <1>1 DEF InputInOrder, StreamAssumption
<1>8. /\ iBuf' \in [0..(InSize - 1) -> Nat] /\ iBuf'[iBufPos - 1] = last
      /\ \A i \in iBufPos..(iBufLim - 1) : iBuf'[i] = iBuf[i]
  BY <1>1, <1>6, <1>7
<1>9. ASSUME NEW i \in iBufPos'..(iBufLim' - 1)
      PROVE  iBuf'[i] = Len(received') + (i - iBufPos') + 1
  <2>1. CASE i = iBufPos - 1
    BY <1>1, <1>4, <1>6, <1>8, <2>1
  <2>2. CASE i # iBufPos - 1
    <3>1. i \in iBufPos..(iBufLim - 1) /\ last + (i - iBufPos) + 1 = last - 1 + (i - (iBufPos - 1)) + 1
      BY <1>1, <1>6, <2>2
    <3>. QED
      BY <1>4, <1>6, <1>7, <1>8, <3>1
  <2>. QED
    BY <2>1, <2>2
<1>10. Len(received') + (iBufLim' - iBufPos') = given'
  BY <1>1, <1>4, <1>6
<1>11. iBufPos' \in Nat /\ iBufPos' <= iBufLim'
  BY <1>1, <1>6
<1>. QED
  BY <1>1, <1>4, <1>5, <1>6, <1>8, <1>9, <1>10, <1>11 DEF InputInOrder

\* The buffer has the bytes behind those that the caller has got.
LEMMA BufferedNext ==
  ASSUME StreamAssumption, InputInOrder
  PROVE  /\ Buffered \in [1..(iBufLim - iBufPos) -> Nat]
         /\ \A i \in 1..(iBufLim - iBufPos) : Buffered[i] = Len(received) + i
<1>1. Len(received) \in Nat /\ iBufPos \in Nat /\ iBufLim \in Nat
  BY DEF InputInOrder
<1>2. ASSUME NEW i \in 1..(iBufLim - iBufPos)
      PROVE  iBuf[iBufPos + i - 1] = Len(received) + i /\ Len(received) + i \in Nat
  <2>. DEFINE at == iBufPos + i - 1
  <2>1. at \in iBufPos..(iBufLim - 1) /\ Len(received) + (at - iBufPos) + 1 = Len(received) + i
    BY <1>1
  <2>. HIDE DEF at
  <2>2. iBuf[at] = Len(received) + i
    BY <2>1 DEF InputInOrder
  <2>. QED
    BY <1>1, <2>2 DEF at
<1>. QED
  BY <1>2 DEF Buffered

\* The buffer is thrown away up to its limit.
LEMMA FlushInputStep ==
  ASSUME StreamAssumption, InputInOrder, FlushInput
  PROVE  InputInOrder'
<1>. DEFINE n == iBufLim - iBufPos
<1>1. /\ n \in Nat /\ Len(received) \in Nat /\ Len(received) + n = given /\ given \in 0..InBytes
      /\ received \in Seq(Nat) /\ InSize >= 0 /\ iBuf \in [0..(InSize - 1) -> Nat]
  BY DEF InputInOrder, StreamAssumption
<1>2. \A i \in 1..Len(received) : received[i] = i
  BY DEF InputInOrder
<1>3. Buffered \in [1..n -> Nat] /\ \A i \in 1..n : Buffered[i] = Len(received) + i
  BY BufferedNext
<1>4. received' = received \o Buffered /\ iBufPos' = 0 /\ iBufLim' = 0 /\ UNCHANGED <<given, iBuf>>
  BY DEF FlushInput
<1>. HIDE DEF n
<1>5. /\ received' \in Seq(Nat) /\ Len(received') = Len(received) + n
      /\ \A i \in 1..Len(received) : received'[i] = received[i]
      /\ \A i \in 1..n : received'[Len(received) + i] = Buffered[i]
  BY <1>1, <1>3, <1>4, PutBehind
<1>6. \A i \in 1..Len(received') : received'[i] = i
  <2>. TAKE i \in 1..Len(received')
  <2>1. CASE i <= Len(received)
    BY <1>1, <1>2, <1>5, <2>1
  <2>2. CASE i > Len(received)
    <3>1. i - Len(received) \in 1..n /\ Len(received) + (i - Len(received)) = i
      BY <1>1, <1>5, <2>2
    <3>. QED
      BY <1>3, <1>5, <3>1
  <2>. QED
    BY <1>1, <1>5, <2>1, <2>2
<1>7. Len(received') + (iBufLim' - iBufPos') = given'
  BY <1>1, <1>4, <1>5
<1>8. \A i \in iBufPos'..(iBufLim' - 1) : iBuf'[i] = Len(received') + (i - iBufPos') + 1
  BY <1>4
<1>. QED
  BY <1>1, <1>4, <1>5, <1>6, <1>7, <1>8 DEF InputInOrder

-------------------------------------------------------------------------------
(* Output *)

\* Bytes that follow those of the other stream are put behind them.
LEMMA WriteOutStep ==
  ASSUME NEW s \in Seq(Nat), NEW buf \in Seq(Nat),
         \A i \in 1..Len(s) : s[i] = i, \A i \in 1..Len(buf) : buf[i] = Len(s) + i
  PROVE  /\ s \o buf \in Seq(Nat) /\ Len(s \o buf) = Len(s) + Len(buf)
         /\ \A i \in 1..Len(s \o buf) : (s \o buf)[i] = i
OBVIOUS

\* The next bytes go behind those that were written.
LEMMA FillStep ==
  ASSUME StreamAssumption, OutputInOrder, NEW n \in 0..(OutSize - Len(oBuf)), Fill(n)
  PROVE  OutputInOrder'
<1>. DEFINE new == Run(written + 1, written + n)
            buf == oBuf \o new
<1>1. /\ n \in Nat /\ written \in Nat /\ Len(oBuf) \in Nat /\ Len(sink) \in Nat
      /\ Len(oBuf) + n <= OutSize /\ OutSize \in Nat /\ 0 < OutSize /\ Len(sink) + Len(oBuf) = written
  BY DEF OutputInOrder, StreamAssumption
<1>2. new \in [1..n -> Nat] /\ \A i \in 1..n : new[i] = written + i
  BY <1>1 DEF Run
<1>. HIDE DEF new
<1>3. /\ buf \in Seq(Nat) /\ Len(buf) = Len(oBuf) + n
      /\ \A i \in 1..Len(oBuf) : buf[i] = oBuf[i]
      /\ \A i \in 1..n : buf[Len(oBuf) + i] = new[i]
  BY <1>1, <1>2, PutBehind, ZenonT(30) DEF OutputInOrder
<1>. HIDE DEF buf
<1>4. ASSUME NEW i \in 1..Len(buf) PROVE buf[i] = Len(sink) + i
  <2>. i \in Nat /\ i >= 1 /\ i <= Len(oBuf) + n
    BY <1>1, <1>3
  <2>1. CASE i <= Len(oBuf)
    BY <1>1, <1>3, <2>1 DEF OutputInOrder
  <2>2. CASE i > Len(oBuf)
    <3>1. i - Len(oBuf) \in 1..n /\ Len(oBuf) + (i - Len(oBuf)) = i
      BY <1>1, <1>3, <2>2
    <3>2. written + (i - Len(oBuf)) = Len(sink) + i
      BY <1>1
    <3>. QED
      BY <1>2, <1>3, <3>1, <3>2
  <2>. QED
    BY <1>1, <1>3, <2>1, <2>2
<1>5. /\ written' = written + n
      /\ IF Len(buf) = OutSize THEN sink' = sink \o buf /\ oBuf' = <<>>
         ELSE oBuf' = buf /\ UNCHANGED sink
  BY DEF Fill, new, buf
<1>8. /\ Len(buf) \in Nat /\ Len(buf) <= OutSize
      /\ written' \in Nat /\ Len(sink) + Len(buf) = written'
  <2>1. Len(buf) = Len(oBuf) + n /\ written' = written + n
    BY <1>3, <1>5
  <2>. QED
    BY <1>1, <2>1
<1>6. CASE Len(buf) = OutSize
  <2>1. sink \in Seq(Nat) /\ \A i \in 1..Len(sink) : sink[i] = i
    BY DEF OutputInOrder
  <2>2. /\ sink' \in Seq(Nat) /\ Len(sink') = Len(sink) + Len(buf) /\ oBuf' = <<>>
        /\ \A i \in 1..Len(sink') : sink'[i] = i
    BY <1>3, <1>4, <1>5, <1>6, <2>1, WriteOutStep, ZenonT(30)
  <2>3. oBuf' \in Seq(Nat) /\ Len(oBuf') = 0
    BY <2>2
  <2>4. written' \in Nat /\ Len(sink') + Len(oBuf') = written'
    BY <1>1, <1>8, <2>2, <2>3
  <2>. QED
    BY <1>1, <2>2, <2>3, <2>4 DEF OutputInOrder
<1>7. CASE Len(buf) # OutSize
  <2>1. oBuf' = buf /\ sink' = sink /\ sink \in Seq(Nat) /\ \A i \in 1..Len(sink) : sink[i] = i
    BY <1>5, <1>7 DEF OutputInOrder
  <2>2. Len(buf) < OutSize
    BY <1>1, <1>7, <1>8
  <2>. QED
    BY <1>3, <1>4, <1>8, <2>1, <2>2 DEF OutputInOrder
<1>. QED
  BY <1>6, <1>7

-------------------------------------------------------------------------------
(* Steps *)

LEMMA StreamInvInit == StreamAssumption /\ StreamInit => StreamInv
BY DEF StreamAssumption, StreamInit, StreamInv, CallTypes, InputInOrder, OutputInOrder, CallInOrder,
       AnswerExact, Idle, NoResult

\* A call that returns at once, or that only begins, has no result yet.
LEMMA NoResultExact ==
  ASSUME ForgetResult
  PROVE  /\ AnswerExact'
         /\ answer' \in [op : {"none", "read", "readLine"}, from : Nat, to : Nat, least : Nat, most : Nat,
                         atEnd : BOOLEAN]
BY DEF ForgetResult, NoResult, AnswerExact

\* read(): it returns when it has at least what it needs, and never asks for too much.
LEMMA ReadStepStep ==
  ASSUME StreamAssumption, StreamInv, ReadStep
  PROVE  StreamInv'
<1>1. PICK a \in Available(call.most - Got) :
        LET n == Lesser(a.lim - a.pos, call.most - Got)
        IN /\ Consume(a, n)
           /\ IF Got + n >= call.least THEN Returns(FALSE) ELSE UNCHANGED <<call, answer>>
  BY DEF ReadStep
<1>. DEFINE n == Lesser(a.lim - a.pos, call.most - Got)
<1>2. call.op = "read" /\ UNCHANGED outVars
  BY DEF ReadStep
<1>3. a.lim \in Nat /\ a.pos \in Nat /\ a.pos < a.lim
  BY AvailableNext DEF StreamInv
<1>4. /\ Len(received) \in Nat /\ call.left \in Nat /\ call.least \in Nat /\ call.most \in Nat
      /\ call.left <= Len(received) /\ Len(received) - call.left < call.least /\ call.least <= call.most
  BY <1>2 DEF StreamInv, CallTypes, CallInOrder, InputInOrder, Got
<1>5. n \in 0..(a.lim - a.pos) /\ n \in Nat /\ Got + n <= call.most /\ Got \in Nat /\ Got = Len(received) - call.left
  <2>1. Got = Len(received) - call.left /\ Got \in Nat /\ call.most - Got \in Nat
    BY <1>4 DEF Got
  <2>. HIDE DEF Got
  <2>2. n \in Nat /\ n <= a.lim - a.pos /\ n <= call.most - Got
    BY <1>3, <2>1 DEF Lesser
  <2>. HIDE DEF n
  <2>. QED
    BY <1>3, <1>4, <2>1, <2>2
<1>6. Consume(a, n) /\ IF Got + n >= call.least THEN Returns(FALSE) ELSE UNCHANGED <<call, answer>>
  BY <1>1
<1>. HIDE DEF n
<1>7. InputInOrder' /\ Len(received') = Len(received) + n
  BY <1>5, <1>6, ConsumeStep DEF StreamInv
<1>8. OutputInOrder'
  BY <1>2 DEF StreamInv, OutputInOrder, outVars
<1>9. CASE Got + n >= call.least
  <2>1. /\ call' = Idle
        /\ answer' = [op |-> "read", from |-> call.left + 1, to |-> Len(received'), least |-> call.least,
                      most |-> call.most, atEnd |-> FALSE]
    BY <1>2, <1>6, <1>9 DEF Returns
  <2>2. Len(received') \in Nat /\ Len(received') + 1 - (call.left + 1) = Got + n
    BY <1>4, <1>5, <1>7
  <2>3. CallTypes' /\ CallInOrder'
    BY <1>4, <2>1, <2>2 DEF CallTypes, CallInOrder, Idle
  <2>4. AnswerExact'
    BY <1>4, <1>5, <1>9, <2>1, <2>2, SMTT(30) DEF AnswerExact
  <2>. QED
    BY <1>7, <1>8, <2>3, <2>4 DEF StreamInv
<1>10. CASE ~(Got + n >= call.least)
  <2>1. UNCHANGED <<call, answer>>
    BY <1>6, <1>10
  <2>2. call.left <= Len(received') /\ Len(received') - call.left < call.least
    BY <1>4, <1>5, <1>7, <1>10, SMTT(30)
  <2>3. CallInOrder'
    BY <1>2, <1>4, <2>1, <2>2 DEF CallInOrder, Got
  <2>. QED
    BY <1>7, <1>8, <2>1, <2>3 DEF StreamInv, CallTypes, AnswerExact
<1>. QED
  BY <1>9, <1>10

\* readLine(): the bytes up to a line's end are not line ends.
LEMMA ReadLineStepStep ==
  ASSUME StreamAssumption, StreamInv, ReadLineStep
  PROVE  StreamInv'
<1>1. PICK a \in Available(1), n \in 1..InSize :
        /\ n <= a.lim - a.pos
        /\ \A i \in a.pos..(a.pos + n - 2) : a.buf[i] \notin LineEnds
        /\ Consume(a, n)
        /\ IF a.buf[a.pos + n - 1] \in LineEnds THEN Returns(FALSE)
           ELSE n = a.lim - a.pos /\ UNCHANGED <<call, answer>>
  BY DEF ReadLineStep
<1>. DEFINE last == Len(received) + n
<1>2. call.op = "readLine" /\ UNCHANGED outVars
  BY DEF ReadLineStep
<1>3. /\ a.lim \in Nat /\ a.pos \in Nat /\ n \in Nat /\ n >= 1 /\ n <= a.lim - a.pos
      /\ \A i \in a.pos..(a.lim - 1) : a.buf[i] = Len(received) + (i - a.pos) + 1
  BY <1>1, AvailableNext DEF StreamInv, StreamAssumption
<1>4. /\ Len(received) \in Nat /\ call.left \in Nat /\ call.least \in Nat /\ call.most \in Nat
      /\ call.left <= Len(received) /\ \A i \in (call.left + 1)..Len(received) : i \notin LineEnds
  BY <1>2 DEF StreamInv, CallTypes, CallInOrder, InputInOrder
<1>5. InputInOrder' /\ Len(received') = last
  <2>1. n \in 0..(a.lim - a.pos)
    BY <1>3
  <2>. QED
    BY <1>1, <2>1, ConsumeStep DEF StreamInv
<1>6. OutputInOrder'
  BY <1>2 DEF StreamInv, OutputInOrder, outVars
<1>7. a.buf[a.pos + n - 1] = last
  <2>. DEFINE at == a.pos + n - 1
  <2>1. at \in a.pos..(a.lim - 1) /\ Len(received) + (at - a.pos) + 1 = last
    BY <1>3, <1>4
  <2>. HIDE DEF at, last
  <2>2. a.buf[at] = last
    BY <1>3, <2>1
  <2>. QED
    BY <2>2 DEF at
<1>8. ASSUME NEW i \in (call.left + 1)..(last - 1) PROVE i \notin LineEnds
  <2>1. CASE i <= Len(received)
    BY <1>3, <1>4, <2>1
  <2>2. CASE i > Len(received)
    <3>. DEFINE at == a.pos + (i - Len(received)) - 1
    <3>1. /\ at \in a.pos..(a.pos + n - 2) /\ at \in a.pos..(a.lim - 1)
          /\ Len(received) + (at - a.pos) + 1 = i
      <4>1. i \in Int /\ i <= Len(received) + n - 1
        BY <1>3, <1>4
      <4>2. at \in Int /\ a.pos <= at /\ at <= a.pos + n - 2 /\ Len(received) + (at - a.pos) + 1 = i
        BY <1>3, <1>4, <2>2, <4>1, SMTT(30)
      <4>. HIDE DEF at
      <4>. QED
        BY <1>3, <4>2, SMTT(30)
    <3>. HIDE DEF at
    <3>. QED
      BY <1>1, <1>3, <3>1
  <2>. QED
    BY <1>3, <1>4, <2>1, <2>2
<1>9. last \in Nat /\ call.left <= last /\ call.left + 1 \in Nat
  BY <1>3, <1>4
<1>. HIDE DEF last
<1>10. CASE last \in LineEnds
  <2>1. /\ call' = Idle
        /\ answer' = [op |-> "readLine", from |-> call.left + 1, to |-> last, least |-> call.least,
                      most |-> call.most, atEnd |-> FALSE]
    BY <1>1, <1>2, <1>5, <1>7, <1>10 DEF Returns
  <2>2. CallTypes' /\ CallInOrder'
    BY <1>4, <1>9, <2>1 DEF CallTypes, CallInOrder, Idle
  <2>3. \A i \in (call.left + 1)..last : i \in LineEnds <=> i = last
    BY <1>8, <1>9, <1>10
  <2>4. AnswerExact'
    BY <2>1, <2>3 DEF AnswerExact
  <2>. QED
    BY <1>5, <1>6, <2>2, <2>4 DEF StreamInv
<1>11. CASE last \notin LineEnds
  <2>1. UNCHANGED <<call, answer>>
    BY <1>1, <1>7, <1>11
  <2>2. \A i \in (call.left + 1)..last : i \notin LineEnds
    BY <1>8, <1>9, <1>11
  <2>3. CallInOrder'
    BY <1>2, <1>5, <1>9, <2>1, <2>2 DEF CallInOrder, Got
  <2>. QED
    BY <1>5, <1>6, <2>1, <2>3 DEF StreamInv, CallTypes, AnswerExact
<1>. QED
  BY <1>10, <1>11

\* The end of the stream: read() has not got enough, and readLine() no line's end.
LEMMA CutShortStep ==
  ASSUME StreamAssumption, StreamInv, CutShort
  PROVE  StreamInv'
<1>1. call.op \in {"read", "readLine"} /\ Returns(TRUE) /\ UNCHANGED outVars
  BY DEF CutShort
<1>2. InputInOrder' /\ Len(received) = InBytes /\ received' = received
  BY AtEndStep DEF StreamInv, CutShort
<1>3. /\ InBytes \in Nat /\ call.left \in Nat /\ call.least \in Nat /\ call.most \in Nat
      /\ call.left <= InBytes
      /\ call.op = "read" => InBytes - call.left < call.least
      /\ call.op = "readLine" => \A i \in (call.left + 1)..InBytes : i \notin LineEnds
  BY <1>1, <1>2 DEF StreamInv, StreamAssumption, CallTypes, CallInOrder, Got
<1>4. /\ call' = Idle
      /\ answer' = [op |-> call.op, from |-> call.left + 1, to |-> InBytes, least |-> call.least,
                    most |-> call.most, atEnd |-> TRUE]
  BY <1>1, <1>2 DEF Returns
<1>5. CallTypes' /\ CallInOrder'
  BY <1>1, <1>3, <1>4 DEF CallTypes, CallInOrder, Idle
<1>6. InBytes + 1 - (call.left + 1) = InBytes - call.left
  BY <1>3
<1>7. AnswerExact'
  BY <1>1, <1>3, <1>4, <1>6 DEF AnswerExact
<1>8. OutputInOrder'
  BY <1>1 DEF StreamInv, OutputInOrder, outVars
<1>. QED
  BY <1>2, <1>5, <1>7, <1>8 DEF StreamInv

\* Input that nothing touches, and output that nothing touches.
LEMMA InputKept ==
  ASSUME InputInOrder, UNCHANGED inVars
  PROVE  InputInOrder'
BY DEF InputInOrder, inVars

LEMMA OutputKept ==
  ASSUME OutputInOrder, UNCHANGED outVars
  PROVE  OutputInOrder'
BY DEF OutputInOrder, outVars

\* Every call, and every turn of a loop, keeps the bytes in order.
LEMMA StreamInvStep == StreamAssumption /\ StreamInv /\ [StreamNext]_streamVars => StreamInv'
<1>. SUFFICES ASSUME StreamAssumption, StreamInv, [StreamNext]_streamVars PROVE StreamInv'
  OBVIOUS
<1>. USE DEF StreamInv
<1>1. CASE UNCHANGED streamVars
  <2>1. UNCHANGED inVars /\ UNCHANGED outVars /\ UNCHANGED <<call, answer, received>>
    BY <1>1 DEF streamVars, inVars, outVars
  <2>. QED
    BY <1>1, <2>1, InputKept, OutputKept DEF CallTypes, CallInOrder, AnswerExact, Got, streamVars
<1>2. ASSUME NEW most \in 1..InBytes, NEW least \in 1..most, Read(least, most) PROVE StreamInv'
  <2>1. /\ call' = [op |-> "read", least |-> least, most |-> most, left |-> Len(received)]
        /\ UNCHANGED inVars /\ UNCHANGED outVars /\ ForgetResult
    BY <1>2 DEF Read, Ready
  <2>2. Len(received) \in Nat /\ received' = received /\ most \in Nat /\ least \in Nat /\ 0 < least /\ least <= most
    BY <2>1 DEF InputInOrder, inVars, StreamAssumption
  <2>3. CallTypes' /\ CallInOrder'
    BY <2>1, <2>2, NoResultExact DEF CallTypes, CallInOrder, Got
  <2>. QED
    BY <2>1, <2>3, InputKept, OutputKept, NoResultExact
<1>3. ASSUME NEW n \in 1..OutBytes, Write(n) PROVE StreamInv'
  <2>1. /\ call' = [Idle EXCEPT !.op = "write", !.left = n]
        /\ UNCHANGED inVars /\ UNCHANGED outVars /\ ForgetResult /\ n \in Nat
    BY <1>3 DEF Write, StreamAssumption
  <2>2. CallTypes' /\ CallInOrder'
    BY <2>1, NoResultExact DEF CallTypes, CallInOrder, Idle
  <2>. QED
    BY <2>1, <2>2, InputKept, OutputKept, NoResultExact
<1>4. CASE Get
  <2>1. UNCHANGED outVars /\ call' = [Idle EXCEPT !.op = "get"] /\ ForgetResult
    BY <1>4 DEF Get, Ready
  <2>2. CallTypes'
    BY <2>1, NoResultExact DEF CallTypes, Idle
  <2>3. InputInOrder' /\ (iBufPos' > 0 => Len(received') > 0)
    <3>1. ASSUME NEW a \in Available(1), Consume(a, 1)
          PROVE  InputInOrder' /\ Len(received') > 0
      <4>1. 1 \in 0..(a.lim - a.pos)
        BY AvailableNext
      <4>2. Len(received) \in Nat
        BY DEF InputInOrder
      <4>. QED
        BY <3>1, <4>1, <4>2, ConsumeStep
    <3>2. CASE AtEnd
      BY <3>2, AtEndStep DEF AtEnd
    <3>. QED
      BY <1>4, <3>1, <3>2 DEF Get
  <2>4. CallInOrder'
    BY <2>1, <2>3 DEF CallInOrder, Idle
  <2>. QED
    BY <2>1, <2>2, <2>3, <2>4, OutputKept, NoResultExact
<1>5. CASE Unget
  <2>1. call' = Idle /\ answer' = answer /\ UNCHANGED outVars
    BY <1>5 DEF Unget
  <2>2. CallTypes' /\ CallInOrder' /\ AnswerExact'
    BY <2>1 DEF CallTypes, CallInOrder, AnswerExact, Idle
  <2>. QED
    BY <1>5, <2>1, <2>2, UngetStep, OutputKept
<1>6. CASE KeepGot
  <2>1. call' = Idle /\ answer' = answer /\ UNCHANGED outVars /\ UNCHANGED inVars
    BY <1>6 DEF KeepGot
  <2>2. CallTypes' /\ CallInOrder' /\ AnswerExact'
    BY <2>1 DEF CallTypes, CallInOrder, AnswerExact, Idle
  <2>. QED
    BY <2>1, <2>2, InputKept, OutputKept
<1>7. CASE EofBlocking
  <2>1. call = Idle /\ UNCHANGED outVars /\ call' = call /\ ForgetResult
    BY <1>7 DEF EofBlocking, Ready
  <2>2. CallTypes' /\ CallInOrder'
    BY <2>1, NoResultExact DEF CallTypes, CallInOrder, Idle
  <2>3. InputInOrder'
    <3>1. ASSUME NEW a \in Available(1), Consume(a, 0) PROVE InputInOrder'
      <4>1. 0 \in 0..(a.lim - a.pos)
        BY AvailableNext
      <4>. QED
        BY <3>1, <4>1, ConsumeStep
    <3>. QED
      BY <1>7, <3>1, AtEndStep DEF EofBlocking
  <2>. QED
    BY <2>1, <2>2, <2>3, OutputKept, NoResultExact
<1>8. CASE ReadLine
  <2>1. /\ call' = [op |-> "readLine", least |-> 0, most |-> 0, left |-> Len(received)]
        /\ UNCHANGED inVars /\ UNCHANGED outVars /\ ForgetResult
    BY <1>8 DEF ReadLine, Ready
  <2>2. Len(received) \in Nat /\ received' = received
    BY <2>1 DEF InputInOrder, inVars
  <2>3. \A i \in (Len(received) + 1)..Len(received) : FALSE
    BY <2>2
  <2>4. CallTypes' /\ CallInOrder'
    BY <2>1, <2>2, <2>3, NoResultExact DEF CallTypes, CallInOrder
  <2>. QED
    BY <2>1, <2>4, InputKept, OutputKept, NoResultExact
<1>9. CASE FlushInput
  <2>1. call = Idle /\ UNCHANGED outVars /\ call' = call /\ ForgetResult
    BY <1>9 DEF FlushInput, Ready
  <2>2. CallTypes' /\ CallInOrder'
    BY <2>1, NoResultExact DEF CallTypes, CallInOrder, Idle
  <2>. QED
    BY <1>9, <2>1, <2>2, FlushInputStep, OutputKept, NoResultExact
<1>10. CASE Put
  <2>1. call = Idle /\ call' = call /\ UNCHANGED inVars /\ Fill(1) /\ ForgetResult
    BY <1>10 DEF Put
  <2>2. CallTypes' /\ CallInOrder'
    BY <2>1, NoResultExact DEF CallTypes, CallInOrder, Idle
  <2>3. 1 \in 0..(OutSize - Len(oBuf))
    BY DEF OutputInOrder, StreamAssumption
  <2>. QED
    BY <2>1, <2>2, <2>3, InputKept, FillStep, NoResultExact
<1>11. CASE WriteStep
  <2>. DEFINE n == Lesser(OutSize - Len(oBuf), call.left)
  <2>1. /\ call.op = "write" /\ UNCHANGED inVars /\ answer' = answer /\ Fill(n)
        /\ call' = IF n = call.left THEN Idle ELSE [call EXCEPT !.left = @ - n]
    BY <1>11 DEF WriteStep
  <2>2. /\ n \in 0..(OutSize - Len(oBuf)) /\ call.left - n \in Nat
    BY DEF Lesser, OutputInOrder, StreamAssumption, CallTypes
  <2>. HIDE DEF n
  <2>3. CallTypes' /\ CallInOrder' /\ AnswerExact'
    BY <2>1, <2>2 DEF CallTypes, CallInOrder, AnswerExact, Idle
  <2>. QED
    BY <2>1, <2>2, <2>3, InputKept, FillStep
<1>12. CASE Flush
  <2>1. call = Idle /\ call' = call /\ UNCHANGED inVars /\ ForgetResult
        /\ sink' = sink \o oBuf /\ oBuf' = <<>> /\ written' = written
    BY <1>12 DEF Flush
  <2>2. CallTypes' /\ CallInOrder'
    BY <2>1, NoResultExact DEF CallTypes, CallInOrder, Idle
  <2>3. OutputInOrder'
    BY <2>1, WriteOutStep DEF OutputInOrder, StreamAssumption
  <2>. QED
    BY <2>1, <2>2, <2>3, InputKept, NoResultExact
<1>. QED
  BY <1>1, <1>2, <1>3, <1>4, <1>5, <1>6, <1>7, <1>8, <1>9, <1>10, <1>11, <1>12,
     ReadStepStep, ReadLineStepStep, CutShortStep DEF StreamNext

\* For buffers of any size, in front of a stream that reads as short as it likes and
\* in any sequence of calls, no byte is lost, repeated or moved in either direction,
\* and read() and readLine() return what they promise (BufferedStream.cpp).
THEOREM StreamBytesExact == ASSUME StreamAssumption PROVE StreamSpec => []StreamExact
<1>1. StreamInv => StreamExact
  <2>. SUFFICES ASSUME StreamInv PROVE StreamExact
    OBVIOUS
  <2>. DEFINE n == iBufLim - iBufPos
              all == received \o Buffered
  <2>1. n \in Nat /\ Buffered \in [1..n -> Nat] /\ \A i \in 1..n : Buffered[i] = Len(received) + i
    BY BufferedNext DEF StreamInv, InputInOrder
  <2>2. received \in Seq(Nat) /\ Len(received) \in Nat /\ \A i \in 1..Len(received) : received[i] = i
    BY DEF StreamInv, InputInOrder
  <2>3. Len(received) + n = given /\ given \in Nat /\ iBufPos <= iBufLim /\ iBufLim <= InSize
    BY DEF StreamInv, InputInOrder
  <2>4. Buffered \in Seq(Nat) /\ Len(Buffered) = n
    BY <2>1
  <2>. HIDE DEF n
  <2>5. all \in Seq(Nat) /\ Len(all) = given /\ \A i \in 1..Len(all) : all[i] = i
    BY <2>1, <2>2, <2>3, <2>4, WriteOutStep
  <2>6. all = Run(1, given)
    BY <2>3, <2>5, RunFromFirst
  <2>7. sink \o oBuf = Run(1, written)
    <3>1. /\ sink \o oBuf \in Seq(Nat) /\ Len(sink \o oBuf) = written /\ written \in Nat
          /\ \A i \in 1..Len(sink \o oBuf) : (sink \o oBuf)[i] = i
      BY WriteOutStep DEF StreamInv, OutputInOrder
    <3>. QED
      BY <3>1, RunFromFirst
  <2>. QED
    BY <2>3, <2>6, <2>7 DEF StreamInv, StreamExact, OutputInOrder
<1>2. StreamInit => StreamInv
  BY StreamInvInit
<1>3. StreamInv /\ [StreamNext]_streamVars => StreamInv'
  BY StreamInvStep
<1>. QED
  BY <1>1, <1>2, <1>3, PTL DEF StreamSpec

===============================================================================
