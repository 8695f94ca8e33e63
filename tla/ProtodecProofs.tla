--------------------------- MODULE ProtodecProofs ---------------------------
(***************************************************************************)
(* Proofs about the deframer, for every bit stream and every value of the  *)
(* constants, and about a sender and the deframer together.                *)
(*                                                                         *)
(* The inductive invariant of the deframer ties its own counters to the    *)
(* number of ones on the air: neither EndsAtFlag nor StartsAtFlag is       *)
(* inductive, because both speak of run, which the decoder does not keep.  *)
(* That of the link says where in the burst the decoder is; that the       *)
(* payload comes out as it went in is induction over its bits, for the     *)
(* checksum, for the stuffing and for the order of bits.                   *)
(***************************************************************************)
EXTENDS AisLink, SequenceTheorems, WellFoundedInduction, TLAPS

\* The hunt: enough alternations are missed only if they end in a 1, so that
\* the next alternation is always accepted.
Hunt ==
  /\ antallpreamble <= PreambleMin + 1
  /\ state = "SKURR" /\ antallpreamble > PreambleMin => last = 1

\* The start flag: nstartsign counts the 0 before the ones, and the ones.
\* A stale 1 left by ST_STARTSIGN enters ST_PREAMBLE only on a 0.
StartCount ==
  /\ state = "PREAMBLE" /\ nstartsign = 0 => run = last
  /\ state = "PREAMBLE" /\ nstartsign # 0 => run = nstartsign - 1 /\ nstartsign <= 5
  /\ state = "STARTSIGN" => run = nstartsign - 1 /\ nstartsign \in {6, 7}
  /\ state = "SKURR" => nstartsign \in {0, 1}

\* The data: antallenner counts the ones that follow a one.
OnesCount ==
  /\ state = "DATA" /\ ~bitstuff => run = IF last = 1 THEN antallenner + 1 ELSE 0
  /\ bitstuff => state = "DATA" /\ run = 5
  /\ state = "STOPSIGN" => run = 6

\* Every zero on the air clears the count of ones.
RunLast == last = 0 <=> run = 0

IInv ==
  /\ TypeOK
  /\ Hunt
  /\ bufferpos < BufLimit
  /\ StartCount
  /\ OnesCount
  /\ RunLast

-----------------------------------------------------------------------------

(***************************************************************************)
(* The initial state, what protodec_initialize() makes, satisfies the      *)
(* invariant.                                                              *)
(***************************************************************************)
LEMMA InitIInv == Init => IInv
<1> SUFFICES ASSUME Init PROVE IInv
  OBVIOUS
<1>1. TypeOK
  <2>1. buffer \in Seq(Bit) /\ out \in Seq(Seq(Bit))
    BY DEF Init
  <2>2. frames \in [received : Nat, lost : Nat, lost2 : Nat]
    BY DEF Init
  <2>3. bitstuff \in BOOLEAN
    BY DEF Init
  <2>4. state \in {"SKURR", "PREAMBLE", "STARTSIGN", "DATA", "STOPSIGN"}
    BY DEF Init
  <2>5. /\ nstartsign \in 0 .. 7 /\ antallpreamble \in 0 .. PreambleMin + 2
        /\ antallenner \in 0 .. 3 /\ last \in Bit /\ run \in 0 .. MaxRun
    BY ProtodecAssumption DEF Init, Bit, MaxRun
  <2> QED
    BY <2>1, <2>2, <2>3, <2>4, <2>5 DEF TypeOK
<1>2. Hunt /\ bufferpos < BufLimit
  BY ProtodecAssumption DEF Init, bufferpos, Hunt
<1>3. StartCount /\ OnesCount /\ RunLast
  BY DEF Init, StartCount, OnesCount, RunLast
<1> QED
  BY <1>1, <1>2, <1>3 DEF IInv

(***************************************************************************)
(* d->rbuffer, built from a buffer of bits, is a string of bits: the       *)
(* reversal of each byte reads inside the buffer.                          *)
(***************************************************************************)
LEMMA RBufferType ==
  ASSUME NEW buf \in Seq(Bit), NEW n \in Nat, n <= Len(buf)
  PROVE  RBuffer(buf, n) \in Seq(Bit)
<1> DEFINE q == n \div ByteLen
           Src(i) == ByteLen * ((i - 1) \div ByteLen) + ByteLen - ((i - 1) % ByteLen)
<1>1. ASSUME NEW i \in 1 .. n, i <= ByteLen * q
      PROVE  Src(i) \in 1 .. Len(buf)
  <2> DEFINE d == (i - 1) \div ByteLen
             r == (i - 1) % ByteLen
  <2>1. ByteLen \in Nat \ {0} /\ i - 1 \in Nat
    BY ProtodecAssumption
  <2>2. d \in Nat /\ r \in 0 .. ByteLen - 1 /\ i - 1 = ByteLen * d + r
    BY <2>1
  <2>3. q \in Nat /\ ByteLen * q <= n
    BY <2>1
  <2>4. ByteLen * d < ByteLen * q
    BY <2>1, <2>2, <2>3, <1>1
  <2>5. d < q
    BY <2>1, <2>2, <2>3, <2>4
  <2>6. ByteLen * d + ByteLen <= ByteLen * q
    BY <2>1, <2>2, <2>3, <2>5
  <2> QED
    BY <2>1, <2>2, <2>3, <2>6
<1>2. ASSUME NEW i \in 1 .. n
      PROVE  (IF i <= ByteLen * q THEN buf[Src(i)] ELSE 0) \in Bit
  BY <1>1 DEF Bit
<1> QED
  BY <1>2 DEF RBuffer

(***************************************************************************)
(* Every pass of protodec_decode() stores the bit in d->last, whichever    *)
(* branch it took, and the history counts the ones.                        *)
(***************************************************************************)
LEMMA ConsumeRun ==
  ASSUME IInv, NEW b \in Bit, Consume(b)
  PROVE  /\ last' \in Bit /\ run' \in 0 .. MaxRun
         /\ RunLast'
         /\ last' = b
         /\ b = 0 => run' = 0
         /\ b = 1 /\ run < MaxRun => run' = run + 1
  BY DEF IInv, TypeOK, Consume, Bit, MaxRun, RunLast

(***************************************************************************)
(* What protodec_reset() leaves is well typed and hunting.                 *)
(***************************************************************************)
LEMMA ResetFacts ==
  ASSUME protodec_reset
  PROVE  /\ state' = "SKURR" /\ antallpreamble' = 0 /\ antallenner' = 0
         /\ ~bitstuff' /\ bitstuff' \in BOOLEAN
         /\ buffer' \in Seq(Bit) /\ Len(buffer') = 0
<1>1. buffer' = <<>> /\ bitstuff' = FALSE
  BY DEF protodec_reset
<1>2. buffer' \in Seq(Bit) /\ Len(buffer') = 0
  BY <1>1
<1>3. ~bitstuff' /\ bitstuff' \in BOOLEAN
  BY <1>1
<1> QED
  BY <1>2, <1>3 DEF protodec_reset

(***************************************************************************)
(* ST_SKURR preserves the invariant: the count of alternations stops one   *)
(* above the limit, on a 1.                                                *)
(***************************************************************************)
LEMMA SkurrIInv ==
  ASSUME IInv, NEW b \in Bit, Skurr(b), Consume(b) PROVE IInv'
<1> USE ConsumeRun
<1>1. bitstuff = FALSE
  BY DEF IInv, TypeOK, OnesCount, Skurr
<1>2. antallpreamble' \in 0 .. PreambleMin + 1 /\ Hunt'
  BY ProtodecAssumption DEF IInv, TypeOK, Skurr, Alternations, Bit, RunLast, Hunt
<1>3. TypeOK'
  BY <1>2, ProtodecAssumption DEF IInv, TypeOK, Skurr, NoFrame
<1> QED
  BY <1>1, <1>2, <1>3 DEF IInv, TypeOK, Skurr, NoFrame, StartCount, OnesCount, bufferpos, Bit, RunLast

(***************************************************************************)
(* ST_PREAMBLE preserves the invariant: nstartsign keeps pace with the     *)
(* ones heard, from the 3 that stands for a 0 and two ones.                *)
(***************************************************************************)
LEMMA PreambleIInv ==
  ASSUME IInv, NEW b \in Bit, Consume(b),
         PreambleGoesOn(b) \/ PreambleOne(b) \/ PreambleZero(b)
  PROVE  IInv'
<1> USE ConsumeRun
<1>1. bitstuff = FALSE /\ state = "PREAMBLE"
  BY DEF IInv, TypeOK, OnesCount, PreambleGoesOn, PreambleOne, PreambleZero
<1>2. CASE PreambleGoesOn(b)
  <2>1. TypeOK'
    BY <1>2 DEF IInv, TypeOK, PreambleGoesOn, NoFrame
  <2> QED
    BY <2>1, <1>1, <1>2 DEF IInv, TypeOK, PreambleGoesOn, NoFrame, StartCount,
       OnesCount, bufferpos, Bit, RunLast, Hunt, MaxRun
<1>3. CASE PreambleOne(b)
  <2>1. nstartsign' \in 0 .. 7 /\ antallpreamble' \in 0 .. PreambleMin + 1
    BY <1>3, <1>1, ProtodecAssumption DEF IInv, TypeOK, PreambleOne, StartCount, Hunt
  <2>2. TypeOK'
    BY <2>1, <1>3, ProtodecAssumption DEF IInv, TypeOK, PreambleOne, NoFrame
  <2> QED
    BY <2>1, <2>2, <1>1, <1>3, ProtodecAssumption DEF IInv, TypeOK, PreambleOne,
       NoFrame, StartCount, OnesCount, bufferpos, Bit, RunLast, Hunt, MaxRun
<1>4. CASE PreambleZero(b)
  <2>1. CASE nstartsign = 0
    <3>1. /\ nstartsign' = 1 /\ b = 0 /\ last = 0
          /\ UNCHANGED <<state, antallpreamble, antallenner, bitstuff, buffer, frames, out>>
      BY <1>4, <2>1 DEF PreambleZero, NoFrame, IInv, TypeOK, Bit
    <3>2. TypeOK'
      BY <3>1 DEF IInv, TypeOK
    <3> QED
      BY <3>1, <3>2, <1>1, <2>1 DEF IInv, TypeOK, StartCount, OnesCount, bufferpos,
         Bit, RunLast, Hunt
  <2>2. CASE nstartsign # 0
    <3>1. protodec_reset /\ nstartsign' = 0 /\ UNCHANGED <<frames, out>>
      BY <1>4, <2>2 DEF PreambleZero, NoFrame
    <3>2. TypeOK'
      BY <3>1, ResetFacts, ProtodecAssumption DEF IInv, TypeOK
    <3> QED
      BY <3>1, <3>2, ResetFacts, ProtodecAssumption DEF IInv, StartCount, OnesCount,
         bufferpos, Hunt
  <2> QED
    BY <2>1, <2>2
<1> QED
  BY <1>2, <1>3, <1>4

(***************************************************************************)
(* ST_STARTSIGN preserves the invariant: it is left after the sixth one,   *)
(* to ST_DATA by a 0 and to ST_SKURR, with a stale nstartsign, otherwise.  *)
(***************************************************************************)
LEMMA StartSignIInv ==
  ASSUME IInv, NEW b \in Bit, Consume(b), StartSign(b) PROVE IInv'
<1> USE ConsumeRun
<1>1. bitstuff = FALSE /\ state = "STARTSIGN"
  BY DEF IInv, TypeOK, OnesCount, StartSign
<1>2. CASE protodec_reset
  <2>1. nstartsign' = 1 /\ UNCHANGED <<frames, out>>
    BY <1>2, ResetFacts DEF StartSign, NoFrame
  <2>2. TypeOK'
    BY <2>1, <1>2, ResetFacts, ProtodecAssumption DEF IInv, TypeOK
  <2> QED
    BY <2>1, <2>2, <1>2, ResetFacts, ProtodecAssumption DEF IInv, StartCount, OnesCount,
       bufferpos, Hunt
<1>3. CASE nstartsign >= 7 /\ b = 0
  <2>1. /\ state' = "DATA" /\ nstartsign' = 1 /\ antallenner' = 0 /\ buffer' = <<>>
        /\ UNCHANGED <<antallpreamble, bitstuff, frames, out>>
    <3>1. nstartsign \in 0 .. 7 /\ ~(nstartsign < 7) /\ b # 1
      BY <1>3 DEF IInv, TypeOK
    <3> QED
      BY <3>1, <1>3 DEF StartSign, NoFrame
  <2>2. buffer' \in Seq(Bit) /\ Len(buffer') = 0
    BY <2>1
  <2>3. TypeOK'
    BY <2>1, <2>2, ProtodecAssumption DEF IInv, TypeOK
  <2> QED
    BY <2>1, <2>2, <2>3, <1>1, <1>3, ProtodecAssumption DEF IInv, TypeOK, StartCount,
       OnesCount, bufferpos, Hunt
<1>4. CASE nstartsign < 7 /\ b = 1
  <2>1. /\ nstartsign' = nstartsign + 1
        /\ UNCHANGED <<state, antallpreamble, antallenner, bitstuff, buffer, frames, out>>
    <3>1. nstartsign \in 0 .. 7 /\ ~(nstartsign >= 7) /\ b # 0
      BY <1>4 DEF IInv, TypeOK
    <3> QED
      BY <3>1, <1>4 DEF StartSign, NoFrame
  <2>2. TypeOK'
    BY <2>1, <1>4 DEF IInv, TypeOK
  <2> QED
    BY <2>1, <2>2, <1>1, <1>4 DEF IInv, TypeOK, StartCount, OnesCount, bufferpos, Hunt, MaxRun
<1> QED
  BY <1>2, <1>3, <1>4 DEF StartSign

(***************************************************************************)
(* ST_DATA preserves the invariant: antallenner and bitstuff together      *)
(* count the ones, and a full buffer is given up.                          *)
(***************************************************************************)
LEMMA DataIInv ==
  ASSUME IInv, NEW b \in Bit, Consume(b), DataStuffed(b) \/ DataStore(b)
  PROVE  IInv'
<1> USE ConsumeRun
<1>1. state = "DATA"
  BY DEF DataStuffed, DataStore
<1>2. CASE DataStuffed(b)
  <2>1. run = 5 /\ bitstuff' = FALSE
    BY <1>2 DEF IInv, OnesCount, DataStuffed
  <2>2. TypeOK'
    BY <1>1, <1>2, <2>1 DEF IInv, TypeOK, DataStuffed, NoFrame
  <2> QED
    BY <2>1, <2>2, <1>1, <1>2 DEF IInv, TypeOK, DataStuffed, StartCount, OnesCount,
       bufferpos, Bit, RunLast, Hunt, MaxRun
<1>3. CASE DataStore(b) /\ bufferpos + 1 >= BufLimit
  <2>1. protodec_reset /\ nstartsign' = 0 /\ UNCHANGED <<frames, out>>
    BY <1>3 DEF DataStore, NoFrame
  <2>2. TypeOK'
    BY <2>1, ResetFacts, ProtodecAssumption DEF IInv, TypeOK
  <2> QED
    BY <2>1, <2>2, ResetFacts, ProtodecAssumption DEF IInv, StartCount, OnesCount,
       bufferpos, Hunt
<1>4. CASE DataStore(b) /\ ~(bufferpos + 1 >= BufLimit)
  <2>1. buffer' \in Seq(Bit) /\ Len(buffer') < BufLimit
    <3>1. buffer' = Append(buffer, b)
      BY <1>4 DEF DataStore
    <3> QED
      BY <3>1, <1>4, ProtodecAssumption DEF IInv, TypeOK, bufferpos
  <2>2. RepeatedOnes(b) \in 0 .. 4 /\ bitstuff' = (RepeatedOnes(b) = 4)
    BY <1>4 DEF IInv, TypeOK, DataStore, RepeatedOnes
  <2>3. /\ ~bitstuff' => antallenner' = RepeatedOnes(b)
        /\ bitstuff' => antallenner' = 0
    BY <1>4, <2>2 DEF DataStore
  <2>4. antallenner' \in 0 .. 3 /\ bitstuff' \in BOOLEAN
    <3>1. bitstuff' \in BOOLEAN
      BY <2>2
    <3>2. CASE RepeatedOnes(b) = 4
      <4>1. antallenner' = 0
        BY <2>2, <2>3, <3>2
      <4> QED
        BY <3>1, <4>1
    <3>3. CASE RepeatedOnes(b) # 4
      <4>1. antallenner' = RepeatedOnes(b)
        BY <2>2, <2>3, <3>3
      <4>2. antallenner' \in 0 .. 3
        BY <2>2, <3>3, <4>1
      <4> QED
        BY <3>1, <4>2
    <3> QED
      BY <3>2, <3>3
  <2>5. TypeOK'
    BY <2>1, <2>4, <1>4 DEF IInv, TypeOK, DataStore, NoFrame
  <2>6. run = IF last = 1 THEN antallenner + 1 ELSE 0
    BY <1>4 DEF IInv, OnesCount, DataStore
  <2>7. state' = "DATA" /\ nstartsign' = nstartsign /\ antallpreamble' = antallpreamble
    BY <1>4 DEF DataStore
  <2>8. OnesCount'
    BY <2>2, <2>3, <2>6, <2>7 DEF IInv, TypeOK, OnesCount, RepeatedOnes, Bit, MaxRun
  <2> QED
    BY <2>1, <2>5, <2>7, <2>8 DEF IInv, StartCount, Hunt, bufferpos
<1> QED
  BY <1>2, <1>3, <1>4

(***************************************************************************)
(* ST_STOPSIGN preserves the invariant: whatever the frame was worth, the  *)
(* decoder goes back to the hunt.                                          *)
(***************************************************************************)
LEMMA StopSignIInv ==
  ASSUME IInv, NEW b \in Bit, Consume(b), StopSign(b) PROVE IInv'
<1> USE ConsumeRun
<1>1. protodec_reset /\ nstartsign' = 0
  BY DEF StopSign
<1>2. frames' \in [received : Nat, lost : Nat, lost2 : Nat]
  <2>1. frames \in [received : Nat, lost : Nat, lost2 : Nat]
    BY DEF IInv, TypeOK
  <2>2. \/ frames' = [frames EXCEPT !.received = @ + 1]
        \/ frames' = [frames EXCEPT !.lost = @ + 1]
        \/ frames' = [frames EXCEPT !.lost2 = @ + 1]
    BY DEF StopSign
  <2> QED
    BY <2>1, <2>2
<1>3. out' \in Seq(Seq(Bit))
  <2>1. CASE UNCHANGED out
    BY <2>1 DEF IInv, TypeOK
  <2>2. CASE bufferlength > 0 /\ out' = Append(out, RBuffer(buffer, bufferlength))
    <3>1. bufferlength \in Nat /\ bufferlength <= Len(buffer)
      BY <2>2, ProtodecAssumption DEF bufferlength, bufferpos, IInv, TypeOK
    <3>2. RBuffer(buffer, bufferlength) \in Seq(Bit)
      BY <3>1, RBufferType DEF IInv, TypeOK
    <3> QED
      BY <2>2, <3>2 DEF IInv, TypeOK
  <2> QED
    BY <2>1, <2>2 DEF StopSign
<1>4. TypeOK'
  BY <1>1, <1>2, <1>3, ResetFacts, ProtodecAssumption DEF IInv, TypeOK
<1> QED
  BY <1>1, <1>4, ResetFacts, ProtodecAssumption DEF IInv, StartCount, OnesCount,
     bufferpos, Hunt

(***************************************************************************)
(* The invariant is inductive.                                             *)
(***************************************************************************)
LEMMA NextIInv == IInv /\ [Next]_vars => IInv'
<1> SUFFICES ASSUME IInv, [Next]_vars PROVE IInv'
  OBVIOUS
<1>1. CASE Next
  <2> PICK b \in Bit : protodec_decode(b)
    BY <1>1 DEF Next
  <2> QED
    BY SkurrIInv, PreambleIInv, StartSignIInv, DataIInv, StopSignIInv DEF protodec_decode
<1>2. CASE UNCHANGED vars
  BY <1>2 DEF vars, IInv, TypeOK, Hunt, bufferpos, StartCount, OnesCount, RunLast
<1> QED
  BY <1>1, <1>2

-----------------------------------------------------------------------------

(***************************************************************************)
(* Every reachable state of the deframer satisfies the invariant.          *)
(***************************************************************************)
THEOREM Inductive == Spec => []IInv
  BY InitIInv, NextIInv, PTL DEF Spec

(***************************************************************************)
(* The deframer's variables keep their types: no counter runs away.        *)
(***************************************************************************)
THEOREM TypeCorrect == Spec => []TypeOK
<1>1. IInv => TypeOK
  BY DEF IInv
<1> QED
  BY <1>1, Inductive, PTL

(***************************************************************************)
(* ST_DATA never writes and protodec_calculate_crc() never reads beyond    *)
(* the frame's own bits of d->buffer, whatever bits arrive.                *)
(***************************************************************************)
THEOREM MemorySafe == Spec => []BufferInBounds
<1>1. ASSUME IInv PROVE BufferInBounds
  <2>1. bufferpos \in Nat /\ bufferpos < DEMOD_BUFFER_LEN
    BY <1>1, ProtodecAssumption DEF IInv, TypeOK, bufferpos
  <2>2. ASSUME bufferlength > 0 PROVE CrcBits(bufferlength) <= bufferpos - 6
    <3> DEFINE n == bufferlength
    <3>1. n \in Nat /\ n = bufferpos - 6 - 2 * ByteLen /\ ByteLen \in Nat \ {0}
      BY <2>1, <2>2, ProtodecAssumption DEF bufferlength
    <3>2. ByteLen * (n \div ByteLen) <= n /\ ByteLen * (n \div ByteLen) \in Nat
      BY <3>1
    <3> QED
      BY <2>1, <3>1, <3>2 DEF CrcBits
  <2> QED
    BY <2>1, <2>2 DEF BufferInBounds
<1> QED
  BY <1>1, Inductive, PTL

(***************************************************************************)
(* Transparency of the data phase for every bit stream: a frame is ended   *)
(* by six ones in a row and by nothing else.                               *)
(***************************************************************************)
THEOREM Transparent == Spec => []EndsAtFlag
<1>1. IInv => EndsAtFlag
  BY DEF IInv, TypeOK, OnesCount, EndsAtFlag, Bit
<1> QED
  BY <1>1, Inductive, PTL

(***************************************************************************)
(* ST_DATA is entered only at a complete start flag, for every bit stream, *)
(* the one after a broken flag (a stale nstartsign) included.              *)
(***************************************************************************)
THEOREM OpensAtFlag == Spec => StartsAtFlag
<1>1. IInv /\ [Next]_vars => [state # "DATA" /\ state' = "DATA" => run = 6 /\ last' = 0]_vars
  <2> SUFFICES ASSUME IInv, Next, state # "DATA", state' = "DATA"
               PROVE  run = 6 /\ last' = 0
    OBVIOUS
  <2> PICK b \in Bit : protodec_decode(b)
    BY DEF Next
  <2>1. StartSign(b) /\ Consume(b)
    BY DEF protodec_decode, Skurr, PreambleGoesOn, PreambleOne, PreambleZero,
       DataStuffed, DataStore, StopSign, protodec_reset
  <2> QED
    BY <2>1 DEF IInv, StartCount, StartSign, protodec_reset, Consume
<1> QED
  BY <1>1, Inductive, PTL DEF Spec, StartsAtFlag

(***************************************************************************)
(* The accounts of received and lost frames are right for every bit        *)
(* stream: each frame that got to its stop sign is counted once, as        *)
(* received if and only if it was handed over.                             *)
(***************************************************************************)
THEOREM Accounted == Spec => FramesAccounted
<1> DEFINE Account ==
      /\ frames'.received - frames.received = Len(out') - Len(out)
      /\ (state = "STOPSIGN") <=> (FrameCount' = FrameCount + 1)
<1>1. IInv /\ [Next]_vars => [Account]_vars
  <2> SUFFICES ASSUME IInv, Next PROVE Account
    OBVIOUS
  <2> PICK b \in Bit : protodec_decode(b)
    BY DEF Next
  <2>1. frames \in [received : Nat, lost : Nat, lost2 : Nat] /\ out \in Seq(Seq(Bit))
    BY DEF IInv, TypeOK
  <2>2. CASE state # "STOPSIGN"
    <3>1. NoFrame
      BY <2>2 DEF protodec_decode, Skurr, PreambleGoesOn, PreambleOne, PreambleZero,
         StartSign, DataStuffed, DataStore, StopSign
    <3> QED
      BY <2>1, <2>2, <3>1 DEF NoFrame, FrameCount
  <2>3. CASE state = "STOPSIGN"
    <3>1. StopSign(b)
      BY <2>3 DEF protodec_decode, Skurr, PreambleGoesOn, PreambleOne, PreambleZero,
         StartSign, DataStuffed, DataStore
    <3>2. CASE /\ frames' = [frames EXCEPT !.received = @ + 1]
               /\ bufferlength > 0
               /\ out' = Append(out, RBuffer(buffer, bufferlength))
      <4>1. bufferlength \in Nat /\ bufferlength <= Len(buffer)
        <5>1. bufferlength > 0 /\ buffer \in Seq(Bit)
          BY <3>2 DEF IInv, TypeOK
        <5> QED
          BY <5>1, ProtodecAssumption DEF bufferlength, bufferpos
      <4>2. RBuffer(buffer, bufferlength) \in Seq(Bit)
        BY <4>1, RBufferType DEF IInv, TypeOK
      <4>3. Len(out') = Len(out) + 1 /\ Len(out) \in Nat
        BY <2>1, <3>2, <4>2
      <4> QED
        BY <2>1, <2>3, <3>2, <4>3 DEF FrameCount
    <3>3. CASE /\ \/ frames' = [frames EXCEPT !.lost = @ + 1]
                  \/ frames' = [frames EXCEPT !.lost2 = @ + 1]
               /\ UNCHANGED out
      BY <2>1, <2>3, <3>3, SMTT(30) DEF FrameCount
    <3> QED
      BY <3>1, <3>2, <3>3 DEF StopSign
  <2> QED
    BY <2>2, <2>3
<1> QED
  BY <1>1, Inductive, PTL DEF Spec, FramesAccounted

-----------------------------------------------------------------------------
(* The frame check sequence.                                               *)

(***************************************************************************)
(* Every nonempty set of numbers has a least one.  Induction over data is  *)
(* done with it: were there a number for which the statement fails, there  *)
(* would be a least one.                                                   *)
(***************************************************************************)
LEMMA LeastNat ==
  ASSUME NEW T \in SUBSET Nat, T # {}
  PROVE  \E n \in T : \A m \in T : n <= m
<1>1. PICK R : R = {ss \in Nat \X Nat : ss[1] < ss[2]}
  OBVIOUS
<1>2. IsWellFoundedOn(R, Nat)
  BY <1>1, NatLessThanWellFounded DEF OpToRel
<1>3. PICK x \in T : \A y \in T : ~(<<y, x>> \in R)
  BY <1>2, WFMin
<1>4. ASSUME NEW y \in T PROVE x <= y
  <2>1. ~(<<y, x>> \in R) /\ x \in Nat /\ y \in Nat
    BY <1>3
  <2> QED
    BY <2>1, <1>1
<1> QED
  BY <1>4

\* f is the list of registers after the first n bits.
IsRegister(f, bits, n) ==
  f = [k \in 0 .. n |-> IF k = 0 THEN [i \in 0 .. 15 |-> 1] ELSE CrcStep(f[k - 1], bits[k])]

(***************************************************************************)
(* The loop of protodec_sdlc_crc() over n bits has a list of registers:    *)
(* the recursive definition defines something.                             *)
(***************************************************************************)
LEMMA RegisterExists ==
  ASSUME NEW bits, NEW n \in Nat
  PROVE  \E f : IsRegister(f, bits, n)
<1> DEFINE T == {k \in Nat : ~\E f : IsRegister(f, bits, k)}
<1> SUFFICES ASSUME T # {} PROVE FALSE
  OBVIOUS
<1>1. PICK m \in T : \A k \in T : m <= k
  BY LeastNat
<1>2. CASE m = 0
  <2>1. PICK f : f = [k \in 0 .. 0 |-> [i \in 0 .. 15 |-> 1]]
    OBVIOUS
  <2>2. f = [k \in 0 .. 0 |-> IF k = 0 THEN [i \in 0 .. 15 |-> 1] ELSE CrcStep(f[k - 1], bits[k])]
    BY <2>1
  <2> QED
    BY <1>2, <2>2 DEF IsRegister
<1>3. CASE m # 0
  <2>1. m \in Nat /\ m - 1 \in Nat /\ m - 1 \notin T
    BY <1>1, <1>3
  <2>2. PICK f : IsRegister(f, bits, m - 1)
    BY <2>1
  <2>3. PICK g : g = [k \in 0 .. m |-> IF k = m THEN CrcStep(f[m - 1], bits[m]) ELSE f[k]]
    OBVIOUS
  <2>4. \A k \in 0 .. m - 1 :
           f[k] = IF k = 0 THEN [i \in 0 .. 15 |-> 1] ELSE CrcStep(f[k - 1], bits[k])
    BY <2>2, <2>1 DEF IsRegister
  <2>5. ASSUME NEW k \in 0 .. m
        PROVE  g[k] = IF k = 0 THEN [i \in 0 .. 15 |-> 1] ELSE CrcStep(g[k - 1], bits[k])
    <3>1. CASE k = m
      <4>1. g[m] = CrcStep(f[m - 1], bits[m]) /\ g[m - 1] = f[m - 1]
        BY <2>3, <2>1
      <4> QED
        BY <4>1, <3>1, <1>3
    <3>2. CASE k # m
      <4>1. k \in 0 .. m - 1 /\ g[k] = f[k]
        BY <3>2, <2>3, <2>1
      <4>2. k # 0 => g[k - 1] = f[k - 1]
        BY <4>1, <2>3, <2>1
      <4> QED
        BY <4>1, <4>2, <2>4
    <3> QED
      BY <3>1, <3>2
  <2>6. IsRegister(g, bits, m)
    BY <2>3, <2>5 DEF IsRegister
  <2> QED
    BY <2>6, <1>1
<1> QED
  BY <1>2, <1>3

(***************************************************************************)
(* Register is the last of the registers that the loop goes through.       *)
(***************************************************************************)
LEMMA RegisterSteps ==
  ASSUME NEW bits, Len(bits) \in Nat
  PROVE  \E f : IsRegister(f, bits, Len(bits)) /\ Register(bits) = f[Len(bits)]
<1>1. \E f : IsRegister(f, bits, Len(bits))
  BY RegisterExists
<1>2. PICK f : f = CHOOSE g : IsRegister(g, bits, Len(bits))
  OBVIOUS
<1>3. IsRegister(f, bits, Len(bits))
  BY <1>1, <1>2
<1>4. Register(bits) = f[Len(bits)]
  BY <1>2 DEF IsRegister, Register
<1> QED
  BY <1>3, <1>4

\* The register r after j more steps, the bits in K inverted.
Shifted(r, j, K) ==
  [i \in 0 .. 15 |->
     IF i + j <= 15 THEN IF i \in K THEN 1 - r[i + j] ELSE r[i + j]
     ELSE IF i \in K THEN 1 ELSE 0]

NextMask(K) ==
  {i \in 0 .. 15 : (i + 1 \in K /\ i < 15) # (0 \notin K /\ i \in Poly)}

(***************************************************************************)
(* The exclusive or of bits, as the checksum uses it.                      *)
(***************************************************************************)
LEMMA XorBits ==
  ASSUME NEW a \in Bit
  PROVE  /\ Xor(a, 0) = a /\ Xor(a, 1) = 1 - a
         /\ Xor(1 - a, 0) = 1 - a /\ Xor(1 - a, 1) = a
         /\ Xor(a, 1 - a) = 1 /\ Xor(1 - a, 1 - a) = 0
  BY DEF Xor, Bit

(***************************************************************************)
(* One step of protodec_sdlc_crc() over a bit of the frame check sequence. *)
(* The bit is the inverse of the one that is shifted out of the register,  *)
(* so that the feedback does not depend on the payload any more: only the  *)
(* pattern K of inversions goes on.                                        *)
(***************************************************************************)
LEMMA FcsBit ==
  ASSUME NEW r \in [0 .. 15 -> Bit], NEW j \in 0 .. 15, NEW K \in SUBSET (0 .. 15)
  PROVE  CrcStep(Shifted(r, j, K), 1 - r[j]) = Shifted(r, j + 1, NextMask(K))
<1>1. PICK c : c = Shifted(r, j, K)
  OBVIOUS
<1>2. Xor(c[0], 1 - r[j]) = IF 0 \in K THEN 0 ELSE 1
  BY <1>1, XorBits DEF Shifted
<1>3. PICK fb : fb = IF 0 \in K THEN 0 ELSE 1
  OBVIOUS
<1>4. ASSUME NEW i \in 0 .. 15
      PROVE  (IF i \in Poly THEN Xor(IF i = 15 THEN 0 ELSE c[i + 1], fb)
                            ELSE IF i = 15 THEN 0 ELSE c[i + 1])
               = Shifted(r, j + 1, NextMask(K))[i]
  <2>1. i \in NextMask(K) <=> ((i + 1 \in K /\ i < 15) # (0 \notin K /\ i \in Poly))
    BY DEF NextMask
  <2>2. Shifted(r, j + 1, NextMask(K))[i]
          = IF i + j + 1 <= 15
              THEN IF i \in NextMask(K) THEN 1 - r[i + j + 1] ELSE r[i + j + 1]
              ELSE IF i \in NextMask(K) THEN 1 ELSE 0
    BY DEF Shifted
  <2>3. i < 15 => c[i + 1] = IF i + j + 1 <= 15
                               THEN IF i + 1 \in K THEN 1 - r[i + j + 1] ELSE r[i + j + 1]
                               ELSE IF i + 1 \in K THEN 1 ELSE 0
    BY <1>1 DEF Shifted
  <2>4. i + j + 1 <= 15 => r[i + j + 1] \in Bit
    OBVIOUS
  <2>5. CASE i = 15
    BY <2>1, <2>2, <2>5, <1>3, XorBits DEF Bit, Poly
  <2>6. CASE i < 15 /\ i + j + 1 <= 15
    <3>1. PICK v : v = r[i + j + 1]
      OBVIOUS
    <3>2. v \in Bit
      BY <3>1, <2>4, <2>6
    <3>3. /\ Xor(v, 0) = v /\ Xor(v, 1) = 1 - v
          /\ Xor(1 - v, 0) = 1 - v /\ Xor(1 - v, 1) = v
      BY <3>2, XorBits
    <3>4. 1 - (1 - v) = v
      BY <3>2 DEF Bit
    <3> QED
      BY <2>1, <2>2, <2>3, <2>6, <1>3, <3>1, <3>3, <3>4
  <2>7. CASE i < 15 /\ i + j + 1 > 15
    <3>1. Xor(0, 0) = 0 /\ Xor(0, 1) = 1 /\ Xor(1, 0) = 1 /\ Xor(1, 1) = 0
      BY DEF Xor
    <3> QED
      BY <2>1, <2>2, <2>3, <2>7, <1>3, <3>1
  <2> QED
    BY <2>5, <2>6, <2>7
<1>5. CrcStep(c, 1 - r[j])
        = [i \in 0 .. 15 |-> IF i \in Poly THEN Xor(IF i = 15 THEN 0 ELSE c[i + 1], fb)
                                          ELSE IF i = 15 THEN 0 ELSE c[i + 1]]
  BY <1>2, <1>3 DEF CrcStep
<1>6. Shifted(r, j + 1, NextMask(K)) = [i \in 0 .. 15 |-> Shifted(r, j + 1, NextMask(K))[i]]
  BY DEF Shifted
<1> QED
  BY <1>1, <1>4, <1>5, <1>6

(***************************************************************************)
(* A step of protodec_sdlc_crc() leaves sixteen bits.                      *)
(***************************************************************************)
LEMMA CrcStepType ==
  ASSUME NEW c \in [0 .. 15 -> Bit], NEW b \in Bit
  PROVE  CrcStep(c, b) \in [0 .. 15 -> Bit]
<1>1. \A x, y \in Bit : Xor(x, y) \in Bit
  BY DEF Xor, Bit
<1>2. Xor(c[0], b) \in Bit
  BY <1>1
<1>3. \A i \in 0 .. 15 : (IF i = 15 THEN 0 ELSE c[i + 1]) \in Bit
  BY DEF Bit
<1> QED
  BY <1>1, <1>2, <1>3 DEF CrcStep

(***************************************************************************)
(* Every register that the loop of protodec_sdlc_crc() goes through is     *)
(* sixteen bits.                                                           *)
(***************************************************************************)
LEMMA RegisterType ==
  ASSUME NEW bits \in Seq(Bit), NEW n \in 0 .. Len(bits), NEW f, IsRegister(f, bits, n)
  PROVE  \A k \in 0 .. n : f[k] \in [0 .. 15 -> Bit]
<1> DEFINE T == {k \in Nat : k <= n /\ f[k] \notin [0 .. 15 -> Bit]}
<1> SUFFICES ASSUME T # {} PROVE FALSE
  OBVIOUS
<1>1. PICK m \in T : \A k \in T : m <= k
  BY LeastNat
<1>2. f[m] = IF m = 0 THEN [i \in 0 .. 15 |-> 1] ELSE CrcStep(f[m - 1], bits[m])
  <2>1. m \in 0 .. n
    OBVIOUS
  <2> QED
    BY <2>1 DEF IsRegister
<1>3. m # 0
  BY <1>2 DEF Bit
<1>4. m - 1 \in Nat /\ m - 1 <= n /\ m - 1 \notin T /\ m \in 1 .. Len(bits)
  BY <1>1, <1>3
<1>5. f[m - 1] \in [0 .. 15 -> Bit] /\ bits[m] \in Bit
  BY <1>4
<1>6. f[m] \in [0 .. 15 -> Bit]
  BY <1>2, <1>3, <1>5, CrcStepType
<1> QED
  BY <1>6

Agree(a, b, n) == \A k \in 1 .. n : a[k] = b[k]

(***************************************************************************)
(* The register after n bits depends on those n bits only: the frame check *)
(* sequence does not change what came before it.                           *)
(***************************************************************************)
LEMMA RegisterPrefix ==
  ASSUME NEW a, NEW b, NEW n \in Nat, NEW m \in Nat, n <= m, Agree(a, b, n),
         NEW f, IsRegister(f, a, n), NEW g, IsRegister(g, b, m)
  PROVE  f[n] = g[n]
<1> DEFINE T == {k \in Nat : k <= n /\ f[k] # g[k]}
<1> SUFFICES ASSUME T # {} PROVE FALSE
  OBVIOUS
<1>1. PICK l \in T : \A k \in T : l <= k
  BY LeastNat
<1>2. f[l] = IF l = 0 THEN [i \in 0 .. 15 |-> 1] ELSE CrcStep(f[l - 1], a[l])
  <2>1. l \in 0 .. n
    OBVIOUS
  <2> QED
    BY <2>1 DEF IsRegister
<1>3. g[l] = IF l = 0 THEN [i \in 0 .. 15 |-> 1] ELSE CrcStep(g[l - 1], b[l])
  <2>1. l \in 0 .. m
    OBVIOUS
  <2> QED
    BY <2>1 DEF IsRegister
<1>4. l # 0
  BY <1>2, <1>3
<1>5. f[l - 1] = g[l - 1] /\ a[l] = b[l]
  BY <1>1, <1>4 DEF Agree
<1> QED
  BY <1>2, <1>3, <1>4, <1>5

(***************************************************************************)
(* The checksum test of protodec_calculate_crc() accepts every bit string  *)
(* that ends in its own frame check sequence: what the register is after   *)
(* it, 0x0f47, does not depend on the bits.                                *)
(***************************************************************************)
THEOREM FcsChecks ==
  ASSUME NEW bits \in Seq(Bit)
  PROVE  Fcs(bits) \in Seq(Bit) /\ Len(Fcs(bits)) = 16 /\ SdlcCrcOk(bits \o Fcs(bits))
<1>0. PICK n \in Nat, N \in Nat : n = Len(bits) /\ N = n + 16
  OBVIOUS
<1>1. PICK h : IsRegister(h, bits, n) /\ Register(bits) = h[n]
  BY <1>0, RegisterSteps
<1>2. PICK r \in [0 .. 15 -> Bit] : r = Register(bits)
  BY <1>0, <1>1, RegisterType
<1>3. /\ Fcs(bits) \in Seq(Bit) /\ Len(Fcs(bits)) = 16
      /\ \A i \in 1 .. 16 : Fcs(bits)[i] = 1 - r[i - 1]
  <2>1. Fcs(bits) = [i \in 1 .. 16 |-> 1 - r[i - 1]]
    BY <1>2 DEF Fcs, protodec_sdlc_crc
  <2>2. \A i \in 1 .. 16 : 1 - r[i - 1] \in Bit
    BY SMTT(30) DEF Bit
  <2> QED
    BY <2>1, <2>2
<1>4. PICK all : all = bits \o Fcs(bits)
  OBVIOUS
<1>5. /\ all \in Seq(Bit) /\ Len(all) = N
      /\ \A i \in 1 .. n : all[i] = bits[i]
      /\ \A i \in 1 .. 16 : all[n + i] = 1 - r[i - 1]
  <2>1. PICK fcs \in Seq(Bit) : fcs = Fcs(bits)
    BY <1>3
  <2>2. /\ all \in Seq(Bit) /\ Len(all) = Len(bits) + Len(fcs)
        /\ \A i \in 1 .. Len(bits) + Len(fcs) :
             all[i] = IF i <= Len(bits) THEN bits[i] ELSE fcs[i - Len(bits)]
    BY <1>4, <2>1, ConcatProperties
  <2>3. Len(fcs) = 16
    BY <2>1, <1>3
  <2>4. /\ all \in Seq(Bit) /\ Len(all) = N
        /\ \A i \in 1 .. N : all[i] = IF i <= n THEN bits[i] ELSE fcs[i - n]
    BY <2>2, <2>3, <1>0
  <2>5. \A i \in 1 .. n : all[i] = bits[i]
    BY <2>4, <1>0, SMTT(30)
  <2>6. ASSUME NEW i \in 1 .. 16 PROVE all[n + i] = 1 - r[i - 1]
    <3>1. PICK k : k = n + i
      OBVIOUS
    <3>2. k \in 1 .. N /\ k > n /\ k - n = i
      BY <3>1, <1>0, SMTT(30)
    <3>3. all[k] = fcs[i]
      BY <3>2, <2>4, SMTT(30)
    <3> QED
      BY <3>1, <3>3, <2>1, <1>3
  <2> QED
    BY <2>4, <2>5, <2>6
<1>6. PICK f : IsRegister(f, all, N) /\ Register(all) = f[N]
  BY <1>5, RegisterSteps
<1>7. PICK c : c = [j \in 0 .. 16 |-> f[n + j]]
  OBVIOUS
<1>8. ASSUME NEW j \in 0 .. 15 PROVE c[j + 1] = CrcStep(c[j], 1 - r[j])
  <2>0. PICK k : k = n + (j + 1)
    OBVIOUS
  <2>1. k \in 1 .. N /\ k \in 0 .. N /\ k # 0 /\ k - 1 = n + j
    BY <2>0, <1>0, SMTT(30)
  <2>2. f[k] = CrcStep(f[k - 1], all[k])
    BY <2>1, <1>6 DEF IsRegister
  <2>3. PICK l : l = j + 1
    OBVIOUS
  <2>9. l \in 1 .. 16 /\ l - 1 = j /\ l \in 0 .. 16 /\ j \in 0 .. 16
    BY <2>3
  <2>4. all[k] = 1 - r[j]
    BY <2>0, <2>3, <2>9, <1>5
  <2>5. c[j] = f[k - 1] /\ c[l] = f[k]
    BY <2>0, <2>1, <2>3, <2>9, <1>7
  <2> QED
    BY <2>2, <2>3, <2>4, <2>5
<1>9. c[0] = Shifted(r, 0, {})
  <2>1. f[n] = h[n]
    <3>0. n <= N
      BY <1>0
    <3>1. Agree(bits, all, n)
      BY <1>5 DEF Agree
    <3>2. IsRegister(h, bits, n) /\ IsRegister(f, all, N)
      BY <1>1, <1>6
    <3> QED
      BY <3>0, <3>1, <3>2, RegisterPrefix
  <2>2. Shifted(r, 0, {}) = r
    BY DEF Shifted
  <2>3. c[0] = f[n]
    BY <1>7
  <2> QED
    BY <2>1, <2>2, <2>3, <1>1, <1>2
<1>10. ASSUME NEW j \in 0 .. 15, NEW l, l = j + 1,
              NEW K \in SUBSET (0 .. 15), c[j] = Shifted(r, j, K)
       PROVE  c[l] = Shifted(r, l, NextMask(K))
  BY <1>8, <1>10, FcsBit
<1>11. c[1] = Shifted(r, 1, {3, 10, 15})
  <2>1. PICK K : K = {}
    OBVIOUS
  <2>2. NextMask(K) = {3, 10, 15} /\ K \in SUBSET (0 .. 15)
    BY <2>1 DEF NextMask, Poly
  <2>3. 1 = 0 + 1 /\ 0 \in 0 .. 15 /\ c[0] = Shifted(r, 0, K)
    BY <2>1, <1>9
  <2>4. c[1] = Shifted(r, 1, NextMask(K))
    BY <2>2, <2>3, <1>10
  <2> QED
    BY <2>2, <2>4
<1>12. c[2] = Shifted(r, 2, {2, 3, 9, 10, 14, 15})
  <2>1. PICK K : K = {3, 10, 15}
    OBVIOUS
  <2>2. NextMask(K) = {2, 3, 9, 10, 14, 15} /\ K \in SUBSET (0 .. 15)
    BY <2>1 DEF NextMask, Poly
  <2>3. 2 = 1 + 1 /\ 1 \in 0 .. 15 /\ c[1] = Shifted(r, 1, K)
    BY <2>1, <1>11
  <2>4. c[2] = Shifted(r, 2, NextMask(K))
    BY <2>2, <2>3, <1>10
  <2> QED
    BY <2>2, <2>4
<1>13. c[3] = Shifted(r, 3, {1, 2, 3, 8, 9, 10, 13, 14, 15})
  <2>1. PICK K : K = {2, 3, 9, 10, 14, 15}
    OBVIOUS
  <2>2. NextMask(K) = {1, 2, 3, 8, 9, 10, 13, 14, 15} /\ K \in SUBSET (0 .. 15)
    BY <2>1 DEF NextMask, Poly
  <2>3. 3 = 2 + 1 /\ 2 \in 0 .. 15 /\ c[2] = Shifted(r, 2, K)
    BY <2>1, <1>12
  <2>4. c[3] = Shifted(r, 3, NextMask(K))
    BY <2>2, <2>3, <1>10
  <2> QED
    BY <2>2, <2>4
<1>14. c[4] = Shifted(r, 4, {0, 1, 2, 3, 7, 8, 9, 10, 12, 13, 14, 15})
  <2>1. PICK K : K = {1, 2, 3, 8, 9, 10, 13, 14, 15}
    OBVIOUS
  <2>2. NextMask(K) = {0, 1, 2, 3, 7, 8, 9, 10, 12, 13, 14, 15} /\ K \in SUBSET (0 .. 15)
    BY <2>1 DEF NextMask, Poly
  <2>3. 4 = 3 + 1 /\ 3 \in 0 .. 15 /\ c[3] = Shifted(r, 3, K)
    BY <2>1, <1>13
  <2>4. c[4] = Shifted(r, 4, NextMask(K))
    BY <2>2, <2>3, <1>10
  <2> QED
    BY <2>2, <2>4
<1>15. c[5] = Shifted(r, 5, {0, 1, 2, 6, 7, 8, 9, 11, 12, 13, 14})
  <2>1. PICK K : K = {0, 1, 2, 3, 7, 8, 9, 10, 12, 13, 14, 15}
    OBVIOUS
  <2>2. NextMask(K) = {0, 1, 2, 6, 7, 8, 9, 11, 12, 13, 14} /\ K \in SUBSET (0 .. 15)
    BY <2>1 DEF NextMask, Poly
  <2>3. 5 = 4 + 1 /\ 4 \in 0 .. 15 /\ c[4] = Shifted(r, 4, K)
    BY <2>1, <1>14
  <2>4. c[5] = Shifted(r, 5, NextMask(K))
    BY <2>2, <2>3, <1>10
  <2> QED
    BY <2>2, <2>4
<1>16. c[6] = Shifted(r, 6, {0, 1, 5, 6, 7, 8, 10, 11, 12, 13})
  <2>1. PICK K : K = {0, 1, 2, 6, 7, 8, 9, 11, 12, 13, 14}
    OBVIOUS
  <2>2. NextMask(K) = {0, 1, 5, 6, 7, 8, 10, 11, 12, 13} /\ K \in SUBSET (0 .. 15)
    BY <2>1 DEF NextMask, Poly
  <2>3. 6 = 5 + 1 /\ 5 \in 0 .. 15 /\ c[5] = Shifted(r, 5, K)
    BY <2>1, <1>15
  <2>4. c[6] = Shifted(r, 6, NextMask(K))
    BY <2>2, <2>3, <1>10
  <2> QED
    BY <2>2, <2>4
<1>17. c[7] = Shifted(r, 7, {0, 4, 5, 6, 7, 9, 10, 11, 12})
  <2>1. PICK K : K = {0, 1, 5, 6, 7, 8, 10, 11, 12, 13}
    OBVIOUS
  <2>2. NextMask(K) = {0, 4, 5, 6, 7, 9, 10, 11, 12} /\ K \in SUBSET (0 .. 15)
    BY <2>1 DEF NextMask, Poly
  <2>3. 7 = 6 + 1 /\ 6 \in 0 .. 15 /\ c[6] = Shifted(r, 6, K)
    BY <2>1, <1>16
  <2>4. c[7] = Shifted(r, 7, NextMask(K))
    BY <2>2, <2>3, <1>10
  <2> QED
    BY <2>2, <2>4
<1>18. c[8] = Shifted(r, 8, {3, 4, 5, 6, 8, 9, 10, 11})
  <2>1. PICK K : K = {0, 4, 5, 6, 7, 9, 10, 11, 12}
    OBVIOUS
  <2>2. NextMask(K) = {3, 4, 5, 6, 8, 9, 10, 11} /\ K \in SUBSET (0 .. 15)
    BY <2>1 DEF NextMask, Poly
  <2>3. 8 = 7 + 1 /\ 7 \in 0 .. 15 /\ c[7] = Shifted(r, 7, K)
    BY <2>1, <1>17
  <2>4. c[8] = Shifted(r, 8, NextMask(K))
    BY <2>2, <2>3, <1>10
  <2> QED
    BY <2>2, <2>4
<1>19. c[9] = Shifted(r, 9, {2, 4, 5, 7, 8, 9, 15})
  <2>1. PICK K : K = {3, 4, 5, 6, 8, 9, 10, 11}
    OBVIOUS
  <2>2. NextMask(K) = {2, 4, 5, 7, 8, 9, 15} /\ K \in SUBSET (0 .. 15)
    BY <2>1 DEF NextMask, Poly
  <2>3. 9 = 8 + 1 /\ 8 \in 0 .. 15 /\ c[8] = Shifted(r, 8, K)
    BY <2>1, <1>18
  <2>4. c[9] = Shifted(r, 9, NextMask(K))
    BY <2>2, <2>3, <1>10
  <2> QED
    BY <2>2, <2>4
<1>20. c[10] = Shifted(r, 10, {1, 4, 6, 7, 8, 10, 14, 15})
  <2>1. PICK K : K = {2, 4, 5, 7, 8, 9, 15}
    OBVIOUS
  <2>2. NextMask(K) = {1, 4, 6, 7, 8, 10, 14, 15} /\ K \in SUBSET (0 .. 15)
    BY <2>1 DEF NextMask, Poly
  <2>3. 10 = 9 + 1 /\ 9 \in 0 .. 15 /\ c[9] = Shifted(r, 9, K)
    BY <2>1, <1>19
  <2>4. c[10] = Shifted(r, 10, NextMask(K))
    BY <2>2, <2>3, <1>10
  <2> QED
    BY <2>2, <2>4
<1>21. c[11] = Shifted(r, 11, {0, 5, 6, 7, 9, 10, 13, 14, 15})
  <2>1. PICK K : K = {1, 4, 6, 7, 8, 10, 14, 15}
    OBVIOUS
  <2>2. NextMask(K) = {0, 5, 6, 7, 9, 10, 13, 14, 15} /\ K \in SUBSET (0 .. 15)
    BY <2>1 DEF NextMask, Poly
  <2>3. 11 = 10 + 1 /\ 10 \in 0 .. 15 /\ c[10] = Shifted(r, 10, K)
    BY <2>1, <1>20
  <2>4. c[11] = Shifted(r, 11, NextMask(K))
    BY <2>2, <2>3, <1>10
  <2> QED
    BY <2>2, <2>4
<1>22. c[12] = Shifted(r, 12, {4, 5, 6, 8, 9, 12, 13, 14})
  <2>1. PICK K : K = {0, 5, 6, 7, 9, 10, 13, 14, 15}
    OBVIOUS
  <2>2. NextMask(K) = {4, 5, 6, 8, 9, 12, 13, 14} /\ K \in SUBSET (0 .. 15)
    BY <2>1 DEF NextMask, Poly
  <2>3. 12 = 11 + 1 /\ 11 \in 0 .. 15 /\ c[11] = Shifted(r, 11, K)
    BY <2>1, <1>21
  <2>4. c[12] = Shifted(r, 12, NextMask(K))
    BY <2>2, <2>3, <1>10
  <2> QED
    BY <2>2, <2>4
<1>23. c[13] = Shifted(r, 13, {4, 5, 7, 8, 10, 11, 12, 13, 15})
  <2>1. PICK K : K = {4, 5, 6, 8, 9, 12, 13, 14}
    OBVIOUS
  <2>2. NextMask(K) = {4, 5, 7, 8, 10, 11, 12, 13, 15} /\ K \in SUBSET (0 .. 15)
    BY <2>1 DEF NextMask, Poly
  <2>3. 13 = 12 + 1 /\ 12 \in 0 .. 15 /\ c[12] = Shifted(r, 12, K)
    BY <2>1, <1>22
  <2>4. c[13] = Shifted(r, 13, NextMask(K))
    BY <2>2, <2>3, <1>10
  <2> QED
    BY <2>2, <2>4
<1>24. c[14] = Shifted(r, 14, {4, 6, 7, 9, 11, 12, 14, 15})
  <2>1. PICK K : K = {4, 5, 7, 8, 10, 11, 12, 13, 15}
    OBVIOUS
  <2>2. NextMask(K) = {4, 6, 7, 9, 11, 12, 14, 15} /\ K \in SUBSET (0 .. 15)
    BY <2>1 DEF NextMask, Poly
  <2>3. 14 = 13 + 1 /\ 13 \in 0 .. 15 /\ c[13] = Shifted(r, 13, K)
    BY <2>1, <1>23
  <2>4. c[14] = Shifted(r, 14, NextMask(K))
    BY <2>2, <2>3, <1>10
  <2> QED
    BY <2>2, <2>4
<1>25. c[15] = Shifted(r, 15, {5, 6, 8, 11, 13, 14, 15})
  <2>1. PICK K : K = {4, 6, 7, 9, 11, 12, 14, 15}
    OBVIOUS
  <2>2. NextMask(K) = {5, 6, 8, 11, 13, 14, 15} /\ K \in SUBSET (0 .. 15)
    BY <2>1 DEF NextMask, Poly
  <2>3. 15 = 14 + 1 /\ 14 \in 0 .. 15 /\ c[14] = Shifted(r, 14, K)
    BY <2>1, <1>24
  <2>4. c[15] = Shifted(r, 15, NextMask(K))
    BY <2>2, <2>3, <1>10
  <2> QED
    BY <2>2, <2>4
<1>26. c[16] = Shifted(r, 16, {3, 4, 5, 7, 12, 13, 14, 15})
  <2>1. PICK K : K = {5, 6, 8, 11, 13, 14, 15}
    OBVIOUS
  <2>2. NextMask(K) = {3, 4, 5, 7, 12, 13, 14, 15} /\ K \in SUBSET (0 .. 15)
    BY <2>1 DEF NextMask, Poly
  <2>3. 16 = 15 + 1 /\ 15 \in 0 .. 15 /\ c[15] = Shifted(r, 15, K)
    BY <2>1, <1>25
  <2>4. c[16] = Shifted(r, 16, NextMask(K))
    BY <2>2, <2>3, <1>10
  <2> QED
    BY <2>2, <2>4
<1>27. Register(all) = [i \in 0 .. 15 |-> IF i \in {3, 4, 5, 7, 12, 13, 14, 15} THEN 1 ELSE 0]
  <2>1. c[16] = f[N]
    BY <1>0, <1>7
  <2>2. Register(all) = Shifted(r, 16, {3, 4, 5, 7, 12, 13, 14, 15})
    BY <1>26, <1>6, <2>1
  <2> QED
    BY <2>2 DEF Shifted
<1>28. protodec_sdlc_crc(all) = [i \in 0 .. 15 |-> 1 - Register(all)[i]]
  BY DEF protodec_sdlc_crc
<1>29. SdlcCrcOk(all)
  BY <1>27, <1>28 DEF SdlcCrcOk, Good
<1> QED
  BY <1>3, <1>4, <1>29

-----------------------------------------------------------------------------
(* Bit stuffing.                                                           *)

\* f is the list of what was sent after the first n bits.
IsStuffing(f, bits, n) ==
  f = [k \in 0 .. n |->
         IF k = 0 THEN [ones |-> 0, bits |-> <<>>] ELSE StuffOne(f[k - 1], bits[k])]

(***************************************************************************)
(* The sender's loop over n bits has a list of what was sent after each:   *)
(* the recursive definition defines something.                             *)
(***************************************************************************)
LEMMA StuffingExists ==
  ASSUME NEW bits, NEW n \in Nat
  PROVE  \E f : IsStuffing(f, bits, n)
<1> DEFINE T == {k \in Nat : ~\E f : IsStuffing(f, bits, k)}
<1> SUFFICES ASSUME T # {} PROVE FALSE
  OBVIOUS
<1>1. PICK m \in T : \A k \in T : m <= k
  BY LeastNat
<1>2. CASE m = 0
  <2>1. PICK f : f = [k \in 0 .. 0 |-> [ones |-> 0, bits |-> <<>>]]
    OBVIOUS
  <2>2. f = [k \in 0 .. 0 |->
               IF k = 0 THEN [ones |-> 0, bits |-> <<>>] ELSE StuffOne(f[k - 1], bits[k])]
    BY <2>1
  <2> QED
    BY <1>2, <2>2 DEF IsStuffing
<1>3. CASE m # 0
  <2>1. m \in Nat /\ m - 1 \in Nat /\ m - 1 \notin T
    BY <1>1, <1>3
  <2>2. PICK f : IsStuffing(f, bits, m - 1)
    BY <2>1
  <2>3. PICK g : g = [k \in 0 .. m |-> IF k = m THEN StuffOne(f[m - 1], bits[m]) ELSE f[k]]
    OBVIOUS
  <2>4. \A k \in 0 .. m - 1 :
           f[k] = IF k = 0 THEN [ones |-> 0, bits |-> <<>>] ELSE StuffOne(f[k - 1], bits[k])
    BY <2>2, <2>1 DEF IsStuffing
  <2>5. ASSUME NEW k \in 0 .. m
        PROVE  g[k] = IF k = 0 THEN [ones |-> 0, bits |-> <<>>] ELSE StuffOne(g[k - 1], bits[k])
    <3>1. CASE k = m
      <4>1. g[m] = StuffOne(f[m - 1], bits[m]) /\ g[m - 1] = f[m - 1]
        BY <2>3, <2>1
      <4> QED
        BY <4>1, <3>1, <1>3
    <3>2. CASE k # m
      <4>1. k \in 0 .. m - 1 /\ g[k] = f[k]
        BY <3>2, <2>3, <2>1
      <4>2. k # 0 => g[k - 1] = f[k - 1]
        BY <4>1, <2>3, <2>1
      <4> QED
        BY <4>1, <4>2, <2>4
    <3> QED
      BY <3>1, <3>2
  <2>6. IsStuffing(g, bits, m)
    BY <2>3, <2>5 DEF IsStuffing
  <2> QED
    BY <2>6, <1>1
<1> QED
  BY <1>2, <1>3

(***************************************************************************)
(* Stuffing is that list.                                                  *)
(***************************************************************************)
LEMMA StuffingSteps ==
  ASSUME NEW bits, Len(bits) \in Nat
  PROVE  IsStuffing(Stuffing(bits), bits, Len(bits))
<1>1. \E f : IsStuffing(f, bits, Len(bits))
  BY StuffingExists
<1>2. PICK f : f = CHOOSE g : IsStuffing(g, bits, Len(bits))
  OBVIOUS
<1>3. IsStuffing(f, bits, Len(bits))
  BY <1>1, <1>2
<1>4. Stuffing(bits) = f
  BY <1>2 DEF IsStuffing, Stuffing
<1> QED
  BY <1>3, <1>4

\* An accumulator of the sender: at most four ones at the end of what was sent.
Sending == [ones : 0 .. 4, bits : Seq(Bit)]

(***************************************************************************)
(* What one bit adds to what was sent: itself, and a 0 if it is the fifth  *)
(* one in a row.                                                           *)
(***************************************************************************)
LEMMA StuffOneFacts ==
  ASSUME NEW acc \in Sending, NEW b \in Bit
  PROVE  /\ StuffOne(acc, b) \in Sending
         /\ Len(StuffOne(acc, b).bits) = Len(acc.bits) + (IF b = 1 /\ acc.ones = 4 THEN 2 ELSE 1)
         /\ \A i \in 1 .. Len(acc.bits) : StuffOne(acc, b).bits[i] = acc.bits[i]
         /\ StuffOne(acc, b).bits[Len(acc.bits) + 1] = b
         /\ b = 1 /\ acc.ones = 4 => StuffOne(acc, b).bits[Len(acc.bits) + 2] = 0
         /\ StuffOne(acc, b).ones = IF b = 0 \/ acc.ones = 4 THEN 0 ELSE acc.ones + 1
<1>1. PICK s \in Seq(Bit), o \in 0 .. 4 : s = acc.bits /\ o = acc.ones
  BY DEF Sending
<1>2. CASE b = 1 /\ o = 4
  <2>1. StuffOne(acc, b) = [ones |-> 0, bits |-> s \o <<1, 0>>]
    BY <1>1, <1>2 DEF StuffOne
  <2>2. PICK t : t = <<1, 0>>
    OBVIOUS
  <2>3. t \in Seq(Bit) /\ Len(t) = 2 /\ t[1] = 1 /\ t[2] = 0
    BY <2>2 DEF Bit
  <2>9. /\ s \o t \in Seq(Bit) /\ Len(s \o t) = Len(s) + Len(t)
        /\ \A i \in 1 .. Len(s) + Len(t) :
             (s \o t)[i] = IF i <= Len(s) THEN s[i] ELSE t[i - Len(s)]
    BY <2>3, ConcatProperties
  <2>4. /\ s \o t \in Seq(Bit) /\ Len(s \o t) = Len(s) + 2
        /\ \A i \in 1 .. Len(s) + 2 : (s \o t)[i] = IF i <= Len(s) THEN s[i] ELSE t[i - Len(s)]
    BY <2>3, <2>9
  <2>5. Len(s) \in Nat
    OBVIOUS
  <2>6. /\ (s \o t)[Len(s) + 1] = 1 /\ (s \o t)[Len(s) + 2] = 0
        /\ \A i \in 1 .. Len(s) : (s \o t)[i] = s[i]
    <3>1. PICK n \in Nat : n = Len(s)
      BY <2>5
    <3>2. n + 1 \in 1 .. n + 2 /\ n + 2 \in 1 .. n + 2 /\ n + 1 - n = 1 /\ n + 2 - n = 2
      OBVIOUS
    <3> QED
      BY <3>1, <3>2, <2>3, <2>4
  <2>7. StuffOne(acc, b) \in Sending
    BY <2>1, <2>2, <2>4 DEF Sending
  <2> QED
    BY <1>1, <1>2, <2>1, <2>2, <2>4, <2>6, <2>7
<1>3. CASE ~(b = 1 /\ o = 4)
  <2>1. PICK o2 \in 0 .. 4 : o2 = IF b = 1 THEN o + 1 ELSE 0
    BY <1>3 DEF Bit
  <2>2. StuffOne(acc, b) = [ones |-> o2, bits |-> Append(s, b)]
    BY <1>1, <1>3, <2>1 DEF StuffOne
  <2>3. /\ Append(s, b) \in Seq(Bit) /\ Len(Append(s, b)) = Len(s) + 1
        /\ \A i \in 1 .. Len(s) : Append(s, b)[i] = s[i]
        /\ Append(s, b)[Len(s) + 1] = b
    BY AppendProperties
  <2>4. StuffOne(acc, b) \in Sending
    BY <2>2, <2>3 DEF Sending
  <2>5. b = 0 \/ o = 4 => o2 = 0
    BY <1>3, <2>1 DEF Bit
  <2>6. ~(b = 0 \/ o = 4) => o2 = o + 1
    BY <1>3, <2>1 DEF Bit
  <2>7. PICK w : w = StuffOne(acc, b)
    OBVIOUS
  <2>8. w.ones = o2 /\ w.bits = Append(s, b)
    BY <2>7, <2>2
  <2>9. w.ones = IF b = 0 \/ o = 4 THEN 0 ELSE o + 1
    BY <2>5, <2>6, <2>8
  <2> QED
    BY <1>1, <1>3, <2>3, <2>4, <2>7, <2>8, <2>9
<1> QED
  BY <1>1, <1>2, <1>3

(***************************************************************************)
(* After each bit, a bit string was sent that ends in at most four ones    *)
(* that count.                                                             *)
(***************************************************************************)
LEMMA StuffingType ==
  ASSUME NEW bits \in Seq(Bit)
  PROVE  /\ Stuffing(bits)[0] = [ones |-> 0, bits |-> <<>>]
         /\ \A k \in 0 .. Len(bits) : Stuffing(bits)[k] \in Sending
         /\ \A k \in 0 .. Len(bits) - 1 : Stuffing(bits)[k + 1] = StuffOne(Stuffing(bits)[k], bits[k + 1])
<1>0. PICK n \in Nat : n = Len(bits)
  OBVIOUS
<1>1. PICK f : f = Stuffing(bits) /\ IsStuffing(f, bits, n)
  BY <1>0, StuffingSteps
<1>2. \A k \in 0 .. n :
         f[k] = IF k = 0 THEN [ones |-> 0, bits |-> <<>>] ELSE StuffOne(f[k - 1], bits[k])
  BY <1>1 DEF IsStuffing
<1>3. f[0] = [ones |-> 0, bits |-> <<>>]
  BY <1>2
<1>4. ASSUME NEW k \in 0 .. n - 1 PROVE f[k + 1] = StuffOne(f[k], bits[k + 1])
  <2>1. k + 1 \in 0 .. n /\ k + 1 # 0 /\ k + 1 - 1 = k
    OBVIOUS
  <2> QED
    BY <2>1, <1>2
<1>5. \A k \in 0 .. n : f[k] \in Sending
  <2> DEFINE T == {k \in Nat : k <= n /\ f[k] \notin Sending}
  <2> SUFFICES ASSUME T # {} PROVE FALSE
    OBVIOUS
  <2>1. PICK m \in T : \A k \in T : m <= k
    BY LeastNat
  <2>0. <<>> \in Seq(Bit)
    OBVIOUS
  <2>9. f[0] \in Sending
    BY <1>3, <2>0 DEF Sending
  <2>2. m # 0
    BY <2>9
  <2>3. m - 1 \in Nat /\ m - 1 <= n /\ m - 1 \notin T /\ m \in 1 .. n /\ m \in 0 .. n
    BY <2>1, <2>2
  <2>4. f[m - 1] \in Sending /\ bits[m] \in Bit /\ f[m] = StuffOne(f[m - 1], bits[m])
    BY <2>3, <1>0, <1>2
  <2>5. f[m] \in Sending
    BY <2>4, StuffOneFacts, ZenonT(30)
  <2> QED
    BY <2>5
<1> QED
  BY <1>0, <1>1, <1>3, <1>4, <1>5

(***************************************************************************)
(* What was sent after k bits is the beginning of what is sent in the end, *)
(* and not all of it while bits are left.                                  *)
(***************************************************************************)
LEMMA StuffingPrefix ==
  ASSUME NEW bits \in Seq(Bit), NEW k \in 0 .. Len(bits), NEW s, s = Stuffing(bits)[k].bits
  PROVE  /\ s \in Seq(Bit) /\ Stuff(bits) \in Seq(Bit)
         /\ Len(s) <= Len(Stuff(bits))
         /\ k < Len(bits) => Len(s) < Len(Stuff(bits))
         /\ Agree(s, Stuff(bits), Len(s))
<1>7. PICK n \in Nat : n = Len(bits)
  OBVIOUS
<1>0. PICK f, all : n = Len(bits) /\ f = Stuffing(bits) /\ all = f[n].bits
  BY <1>7
<1>1. all = Stuff(bits) /\ all \in Seq(Bit) /\ Len(all) \in Nat
  BY <1>0, StuffingType DEF Stuff, Sending
<1> DEFINE P(j) == /\ f[j].bits \in Seq(Bit)
                   /\ Len(f[j].bits) <= Len(all)
                   /\ j < n => Len(f[j].bits) < Len(all)
                   /\ Agree(f[j].bits, all, Len(f[j].bits))
           T == {d \in Nat : d <= n /\ ~P(n - d)}
<1>5. P(n)
  BY <1>0, <1>1 DEF Agree
<1>6. ASSUME NEW j \in 0 .. n, j # n, P(j + 1) PROVE P(j)
  <2>1. f[j] \in Sending
    BY <1>0, StuffingType
  <2>2. PICK b : b = bits[j + 1] /\ f[j + 1] = StuffOne(f[j], b)
    <3>1. j \in 0 .. n - 1
      BY <1>6
    <3> QED
      BY <3>1, <1>0, StuffingType
  <2>3. b \in Bit
    BY <2>2, <1>0, <1>6
  <2>4. PICK a, c : a = f[j].bits /\ c = f[j + 1].bits
    OBVIOUS
  <2>5. a \in Seq(Bit) /\ Len(a) \in Nat
    BY <2>1, <2>4 DEF Sending
  <2>6. c \in Seq(Bit) /\ Len(c) \in Nat
    BY <1>6, <2>4
  <2>7. /\ Len(c) = Len(a) + (IF b = 1 /\ f[j].ones = 4 THEN 2 ELSE 1)
        /\ \A i \in 1 .. Len(a) : c[i] = a[i]
    <3>1. PICK acc, w : acc \in Sending /\ acc = f[j] /\ w = StuffOne(acc, b)
      BY <2>1
    <3>2. /\ Len(w.bits) = Len(acc.bits) + (IF b = 1 /\ acc.ones = 4 THEN 2 ELSE 1)
          /\ \A i \in 1 .. Len(acc.bits) : w.bits[i] = acc.bits[i]
      BY <2>3, <3>1, StuffOneFacts, ZenonT(30)
    <3> QED
      BY <2>2, <2>4, <3>1, <3>2
  <2>8. Len(a) < Len(c)
    BY <2>5, <2>6, <2>7
  <2>9. Len(c) <= Len(all) /\ Agree(c, all, Len(c))
    BY <1>6, <2>4
  <2>10. Agree(a, all, Len(a))
    BY <2>5, <2>6, <2>7, <2>8, <2>9 DEF Agree
  <2>11. Len(a) <= Len(all) /\ Len(a) < Len(all)
    BY <2>5, <2>6, <2>8, <2>9, <1>1
  <2> QED
    BY <2>4, <2>5, <2>10, <2>11
<1> HIDE DEF P
<1>2. ASSUME T # {} PROVE FALSE
  <2>1. PICK d \in T : \A e \in T : d <= e
    BY <1>2, LeastNat
  <2>2. PICK j : j = n - d
    OBVIOUS
  <2>3. j \in 0 .. n /\ ~P(j)
    BY <2>2
  <2>4. j # n
    BY <2>3, <1>5
  <2>5. d - 1 \in Nat /\ d - 1 <= n
    BY <2>2, <2>3, <2>4
  <2>6. P(n - (d - 1))
    BY <2>1, <2>5
  <2>7. n - (d - 1) = j + 1
    BY <2>2
  <2>8. P(j + 1)
    BY <2>6, <2>7
  <2> QED
    BY <2>3, <2>4, <2>8, <1>6
<1>3. n - k \in Nat /\ n - k <= n /\ n - (n - k) = k
  BY <1>0
<1>4. P(k)
  BY <1>2, <1>3
<1> QED
  BY <1>0, <1>1, <1>4 DEF P

\* After k bits, s was sent and o ones end it; b comes next, and a 0 if it is
\* the fifth one.
SendsNext(bits, k, s, o, b) ==
  /\ b \in Bit /\ o \in 0 .. 4 /\ Len(s) \in Nat
  /\ Stuff(bits)[Len(s) + 1] = b
  /\ b = 1 /\ o = 4 => Stuff(bits)[Len(s) + 2] = 0
  /\ Len(Stuffing(bits)[k + 1].bits) = Len(s) + (IF b = 1 /\ o = 4 THEN 2 ELSE 1)
  /\ Stuffing(bits)[k + 1].ones = IF b = 0 \/ o = 4 THEN 0 ELSE o + 1

(***************************************************************************)
(* What is found in the stuffed bits where the next bit is sent.           *)
(***************************************************************************)
LEMMA SentNext ==
  ASSUME NEW bits \in Seq(Bit), NEW k \in 0 .. Len(bits), k < Len(bits),
         NEW s, s = Stuffing(bits)[k].bits, NEW o, o = Stuffing(bits)[k].ones,
         NEW b, b = bits[k + 1]
  PROVE  SendsNext(bits, k, s, o, b)
<1>1. PICK acc, next : acc = Stuffing(bits)[k] /\ next = Stuffing(bits)[k + 1]
  OBVIOUS
<1>2. k + 1 \in 0 .. Len(bits) /\ b \in Bit
  OBVIOUS
<1>3. acc \in Sending /\ next = StuffOne(acc, b) /\ s = acc.bits /\ o = acc.ones
  <2>1. k \in 0 .. Len(bits) - 1
    OBVIOUS
  <2> QED
    BY <2>1, <1>1, StuffingType
<1>4. s \in Seq(Bit) /\ Len(s) \in Nat /\ o \in 0 .. 4
  BY <1>3 DEF Sending
<1>5. PICK t : t = next.bits
  OBVIOUS
<1>6. /\ t \in Seq(Bit) /\ Len(t) = Len(s) + (IF b = 1 /\ o = 4 THEN 2 ELSE 1)
      /\ t[Len(s) + 1] = b
      /\ b = 1 /\ o = 4 => t[Len(s) + 2] = 0
      /\ next.ones = IF b = 0 \/ o = 4 THEN 0 ELSE o + 1
  <2>1. PICK w : w = StuffOne(acc, b)
    OBVIOUS
  <2>2. /\ w \in Sending
        /\ Len(w.bits) = Len(acc.bits) + (IF b = 1 /\ acc.ones = 4 THEN 2 ELSE 1)
        /\ w.bits[Len(acc.bits) + 1] = b
        /\ b = 1 /\ acc.ones = 4 => w.bits[Len(acc.bits) + 2] = 0
        /\ w.ones = IF b = 0 \/ acc.ones = 4 THEN 0 ELSE acc.ones + 1
    BY <2>1, <1>2, <1>3, StuffOneFacts, ZenonT(30)
  <2>3. w.bits \in Seq(Bit)
    BY <2>2 DEF Sending
  <2> QED
    BY <2>1, <2>2, <2>3, <1>3, <1>5
<1>7. Agree(t, Stuff(bits), Len(t))
  BY <1>1, <1>2, <1>5, StuffingPrefix
<1>8. Stuff(bits)[Len(s) + 1] = b
  <2>1. PICK i : i = Len(s) + 1
    OBVIOUS
  <2>0. Len(t) = Len(s) + 1 \/ Len(t) = Len(s) + 2
    BY <1>6
  <2>2. i \in 1 .. Len(t)
    BY <2>0, <2>1, <1>4
  <2> QED
    BY <2>1, <2>2, <1>6, <1>7 DEF Agree
<1>9. b = 1 /\ o = 4 => Stuff(bits)[Len(s) + 2] = 0
  <2>1. PICK i : i = Len(s) + 2
    OBVIOUS
  <2>2. b = 1 /\ o = 4 => i \in 1 .. Len(t)
    BY <2>1, <1>4, <1>6
  <2> QED
    BY <2>1, <2>2, <1>6, <1>7 DEF Agree
<1> QED
  BY <1>1, <1>2, <1>4, <1>5, <1>6, <1>8, <1>9 DEF SendsNext

-----------------------------------------------------------------------------
(* How the decoder follows a burst.                                        *)

\* p bits of training were heard.
Trained(p) ==
  /\ nstartsign = 0 /\ last = (p + 1) % 2
  /\ \/ state = "PREAMBLE"
     \/ state = "SKURR" /\ antallpreamble >= p - 1

\* j bits of the start flag were heard.
Opening(j) ==
  /\ last = Flag[j]
  /\ state = IF j <= 5 THEN "PREAMBLE" ELSE "STARTSIGN"
  /\ nstartsign = IF j <= 2 THEN 0 ELSE j

\* q bits of the stuffed content c were heard, and k bits of c are stored; the
\* next bit of the burst is one of c, or a stuffed 0.
Stored(c, q, k) ==
  /\ state = "DATA"
  /\ Len(buffer) = k /\ Agree(buffer, c, k)
  /\ \/ /\ ~bitstuff
        /\ q = Len(Stuffing(c)[k].bits)
        /\ Stuffing(c)[k].ones = IF last = 1 THEN antallenner + 1 ELSE 0
     \/ /\ bitstuff
        /\ q = Len(Stuffing(c)[k].bits) - 1
        /\ Stuffing(c)[k].ones = 0
        /\ Stuff(c)[q + 1] = 0

\* j bits of the stop flag were heard, and the content before them.
Closing(c, j) ==
  /\ last = Flag[j]
  /\ state = IF j <= 6 THEN "DATA" ELSE "STOPSIGN"
  /\ Len(buffer) = Len(c) + (IF j <= 6 THEN j ELSE 6) /\ Agree(buffer, c, Len(c))
  /\ bitstuff <=> j = 6
  /\ antallenner = IF j \in 3 .. 5 THEN j - 2 ELSE 0

(***************************************************************************)
(* The bits of the flag that protodec_decode() looks for.                  *)
(***************************************************************************)
LEMMA FlagBits ==
  /\ Flag \in Seq(Bit) /\ Len(Flag) = 8
  /\ Flag[1] = 0 /\ Flag[8] = 0 /\ \A j \in 2 .. 7 : Flag[j] = 1
  BY DEF Flag, Bit

(***************************************************************************)
(* protodec_decode() hands nothing over but in ST_STOPSIGN, and remembers  *)
(* the bit.                                                                *)
(***************************************************************************)
LEMMA QuietStep ==
  ASSUME NEW b, protodec_decode(b), state # "STOPSIGN"
  PROVE  out' = out /\ last' = b
  BY DEF protodec_decode, Skurr, PreambleGoesOn, PreambleOne, PreambleZero, StartSign,
         DataStuffed, DataStore, StopSign, NoFrame, Consume

(***************************************************************************)
(* The first bit of a burst, heard in ST_SKURR with a clear start flag     *)
(* counter.                                                                *)
(***************************************************************************)
LEMMA TrainingBegins ==
  ASSUME IInv, state = "SKURR", nstartsign = 0, protodec_decode(0)
  PROVE  Trained(1)'
<1>1. Skurr(0) /\ last' = 0
  BY DEF protodec_decode, Skurr, PreambleGoesOn, PreambleOne, PreambleZero, StartSign,
         DataStuffed, DataStore, StopSign, Consume
<1>2. antallpreamble \in Nat /\ PreambleMin \in Nat
  BY ProtodecAssumption DEF IInv, TypeOK
<1>3. Alternations(0) \in Nat
  BY <1>2 DEF Alternations
<1> QED
  BY <1>1, <1>3 DEF Trained, Skurr

(***************************************************************************)
(* A bit of the training: in ST_SKURR it is one more alternation, in       *)
(* ST_PREAMBLE nothing changes.                                            *)
(***************************************************************************)
LEMMA TrainingGoesOn ==
  ASSUME IInv, NEW p \in 1 .. 23, Trained(p), protodec_decode((p + 2) % 2)
  PROVE  Trained(p + 1)'
<1>1. PICK b : b = (p + 2) % 2
  OBVIOUS
<1>2. b \in Bit /\ b # last /\ b = ((p + 1) + 1) % 2
  BY <1>1 DEF Trained, Bit
<1>3. protodec_decode(b)
  BY <1>1
<1>4. last' = b
  BY <1>3 DEF protodec_decode, Consume
<1>5. antallpreamble \in Nat /\ PreambleMin \in Nat
  BY ProtodecAssumption DEF IInv, TypeOK
<1>6. CASE state = "PREAMBLE"
  <2>1. PreambleGoesOn(b)
    BY <1>2, <1>3, <1>6 DEF Trained, protodec_decode, Skurr, PreambleGoesOn, PreambleOne,
       PreambleZero, StartSign, DataStuffed, DataStore, StopSign
  <2> QED
    BY <1>2, <1>4, <1>6, <2>1 DEF Trained, PreambleGoesOn
<1>7. CASE state = "SKURR" /\ antallpreamble >= p - 1
  <2>1. Skurr(b)
    BY <1>3, <1>7 DEF protodec_decode, Skurr, PreambleGoesOn, PreambleOne,
       PreambleZero, StartSign, DataStuffed, DataStore, StopSign
  <2>2. Alternations(b) = antallpreamble + 1
    BY <1>2 DEF Alternations
  <2>3. nstartsign' = 0
    BY <2>1 DEF Skurr, Trained
  <2>4. state' = "PREAMBLE" \/ (state' = "SKURR" /\ antallpreamble' = antallpreamble + 1)
    BY <2>1, <2>2, <1>7 DEF Skurr
  <2> QED
    BY <1>2, <1>4, <1>5, <1>7, <2>3, <2>4 DEF Trained
<1> QED
  BY <1>6, <1>7 DEF Trained

(***************************************************************************)
(* The 0 of the start flag.  The training is longer than the hunt, so that *)
(* the decoder has left ST_SKURR by now.                                   *)
(***************************************************************************)
LEMMA FlagOpens ==
  ASSUME IInv, Trained(24), protodec_decode(0)
  PROVE  Opening(1)'
<1>1. state = "PREAMBLE"
  <2>1. Len(Training) = 24
    BY DEF Training
  <2>2. PreambleMin < 22 /\ PreambleMin \in Nat
    BY <2>1, LinkAssumption, ProtodecAssumption
  <2>3. antallpreamble \in Nat /\ antallpreamble <= PreambleMin + 1
    BY <2>2 DEF IInv, TypeOK, Hunt
  <2>4. ~(antallpreamble >= 24 - 1)
    BY <2>2, <2>3
  <2> QED
    BY <2>4 DEF Trained
<1>2. last = 1
  BY DEF Trained
<1>3. PreambleGoesOn(0) /\ last' = 0
  BY <1>1, <1>2 DEF Trained, protodec_decode, Skurr, PreambleGoesOn, PreambleOne,
       PreambleZero, StartSign, DataStuffed, DataStore, StopSign, Consume
<1> QED
  BY <1>1, <1>3, FlagBits DEF Opening, PreambleGoesOn, Trained

(***************************************************************************)
(* A one of the start flag: ST_PREAMBLE counts five, ST_STARTSIGN the      *)
(* sixth.                                                                  *)
(***************************************************************************)
LEMMA FlagGoesOn ==
  ASSUME IInv, NEW j \in 1 .. 6, Opening(j), protodec_decode(1)
  PROVE  Opening(j + 1)'
<1>1. last' = 1 /\ Flag[j + 1] = 1
  BY FlagBits DEF protodec_decode, Consume
<1>2. CASE j = 1
  <2>1. PreambleGoesOn(1)
    BY <1>2, FlagBits DEF Opening, protodec_decode, Skurr, PreambleGoesOn, PreambleOne,
       PreambleZero, StartSign, DataStuffed, DataStore, StopSign
  <2> QED
    BY <1>1, <1>2, <2>1 DEF Opening, PreambleGoesOn
<1>3. CASE j \in 2 .. 5
  <2>1. PreambleOne(1)
    BY <1>3, FlagBits DEF Opening, protodec_decode, Skurr, PreambleGoesOn, PreambleOne,
       PreambleZero, StartSign, DataStuffed, DataStore, StopSign
  <2> QED
    BY <1>1, <1>3, <2>1 DEF Opening, PreambleOne
<1>4. CASE j = 6
  <2>1. StartSign(1)
    BY <1>4, FlagBits DEF Opening, protodec_decode, Skurr, PreambleGoesOn, PreambleOne,
       PreambleZero, StartSign, DataStuffed, DataStore, StopSign
  <2> QED
    BY <1>1, <1>4, <2>1 DEF Opening, StartSign
<1> QED
  BY <1>2, <1>3, <1>4

(***************************************************************************)
(* The 0 that ends the start flag: ST_DATA begins with an empty buffer.    *)
(***************************************************************************)
LEMMA DataBegins ==
  ASSUME IInv, Opening(7), protodec_decode(0), NEW c \in Seq(Bit)
  PROVE  Stored(c, 0, 0)'
<1>1. StartSign(0) /\ last' = 0
  BY DEF Opening, protodec_decode, Skurr, PreambleGoesOn, PreambleOne,
       PreambleZero, StartSign, DataStuffed, DataStore, StopSign, Consume
<1>2. state' = "DATA" /\ antallenner' = 0 /\ buffer' = <<>> /\ bitstuff' = bitstuff
  BY <1>1 DEF StartSign, Opening
<1>3. ~bitstuff
  BY DEF IInv, OnesCount, Opening
<1>4. Stuffing(c)[0] = [ones |-> 0, bits |-> <<>>]
  BY StuffingType
<1>5. Len(Stuffing(c)[0].bits) = 0 /\ Stuffing(c)[0].ones = 0
  BY <1>4
<1>6. Len(buffer') = 0 /\ Agree(buffer', c, 0)
  BY <1>2 DEF Agree
<1> QED
  BY <1>1, <1>2, <1>3, <1>5, <1>6 DEF Stored

(***************************************************************************)
(* A stuffed 0 in ST_DATA is dropped.                                      *)
(***************************************************************************)
LEMMA StuffedDropped ==
  ASSUME IInv, NEW c \in Seq(Bit), NEW q \in Nat, NEW k \in 0 .. Len(c), Stored(c, q, k),
         bitstuff, protodec_decode(0)
  PROVE  Stored(c, q + 1, k)'
<1>1. DataStuffed(0) /\ last' = 0
  BY DEF Stored, protodec_decode, Skurr, PreambleGoesOn, PreambleOne,
       PreambleZero, StartSign, DataStuffed, DataStore, StopSign, Consume
<1>2. state' = "DATA" /\ bitstuff' = FALSE /\ buffer' = buffer
  BY <1>1 DEF DataStuffed
<1>3. q = Len(Stuffing(c)[k].bits) - 1 /\ Stuffing(c)[k].ones = 0
  BY DEF Stored
<1>4. Len(Stuffing(c)[k].bits) \in Nat
  BY StuffingPrefix
<1>5. q + 1 = Len(Stuffing(c)[k].bits)
  BY <1>3, <1>4
<1>6. Len(buffer) = k /\ Agree(buffer, c, k)
  BY DEF Stored
<1> QED
  BY <1>1, <1>2, <1>3, <1>5, <1>6 DEF Stored

(***************************************************************************)
(* A bit of the content in ST_DATA is stored, and the decoder expects a    *)
(* stuffed bit exactly where the sender put one.                           *)
(***************************************************************************)
LEMMA ContentStored ==
  ASSUME IInv, NEW c \in Seq(Bit), NEW q \in Nat, NEW k \in 0 .. Len(c), Stored(c, q, k),
         ~bitstuff, k < Len(c), Len(c) + 6 < BufLimit, protodec_decode(c[k + 1])
  PROVE  Stored(c, q + 1, k + 1)'
<1>1. PICK b, s, o : b = c[k + 1] /\ s = Stuffing(c)[k].bits /\ o = Stuffing(c)[k].ones
  OBVIOUS
<1>2. /\ b \in Bit /\ o \in 0 .. 4 /\ Len(s) \in Nat
      /\ b = 1 /\ o = 4 => Stuff(c)[Len(s) + 2] = 0
      /\ Len(Stuffing(c)[k + 1].bits) = Len(s) + (IF b = 1 /\ o = 4 THEN 2 ELSE 1)
      /\ Stuffing(c)[k + 1].ones = IF b = 0 \/ o = 4 THEN 0 ELSE o + 1
  <2>1. SendsNext(c, k, s, o, b)
    BY <1>1, SentNext
  <2> QED
    BY <2>1 DEF SendsNext
<1>3. /\ state = "DATA" /\ Len(buffer) = k /\ Agree(buffer, c, k)
      /\ q = Len(s) /\ o = IF last = 1 THEN antallenner + 1 ELSE 0
  BY <1>1 DEF Stored
<1>4. DataStore(b) /\ last' = b
  BY <1>1, <1>3 DEF protodec_decode, Skurr, PreambleGoesOn, PreambleOne,
       PreambleZero, StartSign, DataStuffed, DataStore, StopSign, Consume
<1>5. BufLimit \in Nat /\ buffer \in Seq(Bit) /\ last \in Bit /\ antallenner \in 0 .. 3
  BY ProtodecAssumption DEF IInv, TypeOK
<1>6. ~(bufferpos + 1 >= BufLimit)
  BY <1>3, <1>5 DEF bufferpos
<1>7. /\ state' = "DATA" /\ buffer' = Append(buffer, b)
      /\ bitstuff' = (RepeatedOnes(b) = 4)
      /\ antallenner' = IF bitstuff' THEN 0 ELSE RepeatedOnes(b)
  BY <1>3, <1>4, <1>6 DEF DataStore
<1>8. Len(buffer') = k + 1 /\ Agree(buffer', c, k + 1)
  <2>1. /\ Len(Append(buffer, b)) = Len(buffer) + 1
        /\ \A i \in 1 .. Len(buffer) : Append(buffer, b)[i] = buffer[i]
        /\ Append(buffer, b)[Len(buffer) + 1] = b
    BY <1>2, <1>5, AppendProperties
  <2> QED
    BY <2>1, <1>1, <1>3, <1>7 DEF Agree
<1>9. RepeatedOnes(b) = IF b = 1 /\ last = 1 THEN antallenner + 1 ELSE 0
  BY DEF RepeatedOnes
<1>10. CASE b = 1 /\ o = 4
  <2>1. last = 1 /\ antallenner = 3 /\ RepeatedOnes(b) = 4
    BY <1>3, <1>5, <1>9, <1>10 DEF Bit
  <2>2. bitstuff' /\ Stuffing(c)[k + 1].ones = 0
    BY <2>1, <1>2, <1>7, <1>10
  <2>3. q + 1 = Len(Stuffing(c)[k + 1].bits) - 1 /\ Stuff(c)[q + 2] = 0
    BY <1>2, <1>3, <1>10
  <2>4. q + 1 + 1 = q + 2
    OBVIOUS
  <2> QED
    BY <1>7, <1>8, <2>2, <2>3, <2>4 DEF Stored
<1>11. CASE ~(b = 1 /\ o = 4)
  <2>1. RepeatedOnes(b) # 4
    BY <1>3, <1>5, <1>9, <1>11 DEF Bit
  <2>2. ~bitstuff' /\ antallenner' = RepeatedOnes(b)
    BY <2>1, <1>7
  <2>3. q + 1 = Len(Stuffing(c)[k + 1].bits)
    BY <1>2, <1>3, <1>11
  <2>4. Stuffing(c)[k + 1].ones = IF b = 1 THEN antallenner' + 1 ELSE 0
    BY <2>2, <1>2, <1>3, <1>5, <1>9, <1>11 DEF Bit
  <2> QED
    BY <1>4, <1>7, <1>8, <2>2, <2>3, <2>4 DEF Stored
<1> QED
  BY <1>10, <1>11

(***************************************************************************)
(* What ST_DATA does with a bit of the closing flag while it cannot know   *)
(* it for one: it stores it.                                               *)
(***************************************************************************)
LEMMA StoreInClosing ==
  ASSUME IInv, NEW c \in Seq(Bit), NEW l \in 0 .. 5, NEW b \in Bit,
         state = "DATA", ~bitstuff, Len(buffer) = Len(c) + l, Agree(buffer, c, Len(c)),
         Len(c) + 6 < BufLimit, protodec_decode(b)
  PROVE  /\ state' = "DATA" /\ last' = b
         /\ Len(buffer') = Len(c) + (l + 1) /\ Agree(buffer', c, Len(c))
         /\ bitstuff' = (RepeatedOnes(b) = 4)
         /\ antallenner' = IF bitstuff' THEN 0 ELSE RepeatedOnes(b)
<1>1. DataStore(b) /\ last' = b
  BY DEF protodec_decode, Skurr, PreambleGoesOn, PreambleOne,
       PreambleZero, StartSign, DataStuffed, DataStore, StopSign, Consume
<1>2. BufLimit \in Nat /\ buffer \in Seq(Bit) /\ Len(c) \in Nat
  BY ProtodecAssumption DEF IInv, TypeOK
<1>3. ~(bufferpos + 1 >= BufLimit)
  BY <1>2 DEF bufferpos
<1>4. /\ state' = "DATA" /\ buffer' = Append(buffer, b)
      /\ bitstuff' = (RepeatedOnes(b) = 4)
      /\ antallenner' = IF bitstuff' THEN 0 ELSE RepeatedOnes(b)
  BY <1>1, <1>3 DEF DataStore
<1>5. /\ Len(Append(buffer, b)) = Len(buffer) + 1
      /\ \A i \in 1 .. Len(buffer) : Append(buffer, b)[i] = buffer[i]
  BY <1>2, AppendProperties
<1>6. Len(buffer') = Len(c) + (l + 1)
  BY <1>2, <1>4, <1>5
<1>7. Agree(buffer', c, Len(c))
  BY <1>2, <1>4, <1>5 DEF Agree
<1> QED
  BY <1>1, <1>4, <1>6, <1>7

(***************************************************************************)
(* The 0 of the closing flag is stored like data, and ends the run of      *)
(* ones.                                                                   *)
(***************************************************************************)
LEMMA FlagCloses ==
  ASSUME IInv, NEW c \in Seq(Bit), NEW q \in Nat, Stored(c, q, Len(c)),
         ~bitstuff, Len(c) + 6 < BufLimit, protodec_decode(0)
  PROVE  Closing(c, 1)'
<1>1. /\ state = "DATA" /\ Len(buffer) = Len(c) + 0 /\ Agree(buffer, c, Len(c))
  BY DEF Stored
<1>2. 0 \in 0 .. 5 /\ 0 \in Bit /\ 0 + 1 = 1
  BY DEF Bit
<1>3. /\ state' = "DATA" /\ last' = 0
      /\ Len(buffer') = Len(c) + 1 /\ Agree(buffer', c, Len(c))
      /\ bitstuff' = (RepeatedOnes(0) = 4)
      /\ antallenner' = IF bitstuff' THEN 0 ELSE RepeatedOnes(0)
  BY <1>1, <1>2, StoreInClosing
<1>4. RepeatedOnes(0) = 0 /\ ~(RepeatedOnes(0) = 4)
  BY DEF RepeatedOnes
<1>5. ~bitstuff'
  BY <1>3, <1>4
<1> QED
  BY <1>3, <1>4, <1>5, FlagBits DEF Closing

(***************************************************************************)
(* The first five ones of the closing flag are stored like data.           *)
(***************************************************************************)
LEMMA CloseGoesOn ==
  ASSUME IInv, NEW c \in Seq(Bit), NEW j \in 1 .. 5, Closing(c, j),
         Len(c) + 6 < BufLimit, protodec_decode(1)
  PROVE  Closing(c, j + 1)'
<1>1. /\ state = "DATA" /\ ~bitstuff /\ Len(buffer) = Len(c) + j /\ Agree(buffer, c, Len(c))
      /\ last = Flag[j] /\ antallenner = IF j \in 3 .. 5 THEN j - 2 ELSE 0
  BY DEF Closing
<1>2. j \in 0 .. 5 /\ 1 \in Bit
  BY DEF Bit
<1>3. /\ state' = "DATA" /\ last' = 1
      /\ Len(buffer') = Len(c) + (j + 1) /\ Agree(buffer', c, Len(c))
      /\ bitstuff' = (RepeatedOnes(1) = 4)
      /\ antallenner' = IF bitstuff' THEN 0 ELSE RepeatedOnes(1)
  BY <1>1, <1>2, StoreInClosing
<1>4. RepeatedOnes(1) = IF j = 1 THEN 0 ELSE IF j = 2 THEN 1 ELSE j - 1
  BY <1>1, FlagBits DEF RepeatedOnes
<1>5. bitstuff' <=> j = 5
  <2>1. RepeatedOnes(1) = 4 <=> j = 5
    BY <1>4
  <2> QED
    BY <1>3, <2>1
<1>6. antallenner' = IF j + 1 \in 3 .. 5 THEN j + 1 - 2 ELSE 0
  BY <1>3, <1>4, <1>5
<1>7. Flag[j + 1] = 1
  BY FlagBits
<1> QED
  BY <1>3, <1>5, <1>6, <1>7 DEF Closing

(***************************************************************************)
(* The sixth one of the closing flag, where a stuffed 0 was due:           *)
(* ST_STOPSIGN.                                                            *)
(***************************************************************************)
LEMMA CloseStops ==
  ASSUME IInv, NEW c \in Seq(Bit), Closing(c, 6), protodec_decode(1)
  PROVE  Closing(c, 7)'
<1>1. DataStuffed(1) /\ last' = 1
  BY DEF Closing, protodec_decode, Skurr, PreambleGoesOn, PreambleOne,
       PreambleZero, StartSign, DataStuffed, DataStore, StopSign, Consume
<1>2. /\ state' = "STOPSIGN" /\ bitstuff' = FALSE
      /\ buffer' = buffer /\ antallenner' = antallenner
  BY <1>1 DEF DataStuffed
<1>3. Len(buffer) = Len(c) + 6 /\ Agree(buffer, c, Len(c)) /\ antallenner = 0
  BY DEF Closing
<1> QED
  BY <1>1, <1>2, <1>3, FlagBits DEF Closing

-----------------------------------------------------------------------------
(* The end of a burst.                                                     *)

(***************************************************************************)
(* To take the bits of a byte from the other end is to permute the bits of *)
(* whole bytes, and twice is not at all.                                   *)
(***************************************************************************)
LEMMA ByteOrder ==
  ASSUME NEW n \in Nat, n % 8 = 0, NEW i \in 1 .. n,
         NEW j, j = 8 * ((i - 1) \div 8) + 8 - ((i - 1) % 8)
  PROVE  /\ j \in 1 .. n
         /\ 8 * ((j - 1) \div 8) + 8 - ((j - 1) % 8) = i
<1>1. PICK d \in Nat : d = (i - 1) \div 8
  OBVIOUS
<1>2. PICK r \in 0 .. 7 : r = (i - 1) % 8
  OBVIOUS
<1>3. i - 1 = 8 * d + r
  BY <1>1, <1>2
<1>4. PICK e \in Nat : e = n \div 8
  OBVIOUS
<1>5. n = 8 * e
  BY <1>4
<1>6. d < e
  BY <1>3, <1>5
<1>7. j = 8 * d + 8 - r
  BY <1>1, <1>2
<1>8. j \in 1 .. n
  BY <1>5, <1>6, <1>7
<1>9. (j - 1) \div 8 = d /\ (j - 1) % 8 = 7 - r
  BY <1>7
<1> QED
  BY <1>3, <1>8, <1>9

(***************************************************************************)
(* Reversing the bytes of a payload leaves a bit string of its length.     *)
(***************************************************************************)
LEMMA ReversedType ==
  ASSUME NEW m \in Seq(Bit), Len(m) % 8 = 0
  PROVE  BytesReversed(m) \in Seq(Bit) /\ Len(BytesReversed(m)) = Len(m)
<1>1. PICK n \in Nat : n = Len(m)
  OBVIOUS
<1>2. ASSUME NEW i \in 1 .. n PROVE m[8 * ((i - 1) \div 8) + 8 - ((i - 1) % 8)] \in Bit
  <2>1. PICK j : j = 8 * ((i - 1) \div 8) + 8 - ((i - 1) % 8)
    OBVIOUS
  <2>2. j \in 1 .. n
    BY <2>1, <1>1, ByteOrder
  <2> QED
    BY <2>1, <2>2, <1>1
<1> QED
  BY <1>1, <1>2 DEF BytesReversed

(***************************************************************************)
(* The order of bits in d->rbuffer undoes the sender's.                    *)
(***************************************************************************)
LEMMA ReversedTwice ==
  ASSUME NEW m \in Seq(Bit), Len(m) % 8 = 0, NEW buf, Agree(buf, BytesReversed(m), Len(m))
  PROVE  RBuffer(buf, Len(m)) = m
<1>1. PICK n \in Nat : n = Len(m)
  OBVIOUS
<1>2. ByteLen = 8 /\ 8 * (n \div 8) = n
  BY <1>1, LinkAssumption
<1>3. ASSUME NEW i \in 1 .. n
      PROVE  /\ i <= 8 * (n \div 8)
             /\ buf[8 * ((i - 1) \div 8) + 8 - ((i - 1) % 8)] = m[i]
  <2>1. PICK j : j = 8 * ((i - 1) \div 8) + 8 - ((i - 1) % 8)
    OBVIOUS
  <2>2. j \in 1 .. n /\ 8 * ((j - 1) \div 8) + 8 - ((j - 1) % 8) = i
    BY <2>1, <1>1, ByteOrder, ZenonT(30)
  <2>3. BytesReversed(m)[j] = m[8 * ((j - 1) \div 8) + 8 - ((j - 1) % 8)]
    BY <2>2, <1>1 DEF BytesReversed
  <2>4. buf[j] = m[i]
    BY <2>2, <2>3, <1>1 DEF Agree
  <2> QED
    BY <2>1, <2>4, <1>2
<1>4. RBuffer(buf, n) = [i \in 1 .. n |-> m[i]]
  BY <1>2, <1>3 DEF RBuffer
<1>5. m = [i \in 1 .. n |-> m[i]]
  BY <1>1
<1> QED
  BY <1>1, <1>4, <1>5

(***************************************************************************)
(* The content of a burst: the payload, its bits in the order of the air,  *)
(* and a frame check sequence that protodec_calculate_crc() accepts.       *)
(***************************************************************************)
LEMMA ContentFacts ==
  ASSUME NEW m \in Messages
  PROVE  /\ m \in Seq(Bit) /\ Len(m) \in Nat /\ Len(m) > 0 /\ Len(m) % 8 = 0
         /\ Content(m) \in Seq(Bit) /\ Len(Content(m)) = Len(m) + 16
         /\ Len(Content(m)) + 6 < BufLimit
         /\ Agree(Content(m), BytesReversed(m), Len(m))
         /\ CrcOk(Content(m))
<1>1. /\ m \in Seq(Bit) /\ Len(m) \in Nat /\ Len(m) > 0 /\ Len(m) % 8 = 0
      /\ Len(m) + 22 < BufLimit /\ BufLimit \in Nat
      /\ CrcOk(Content(m)) <=> SdlcCrcOk(Content(m))
  BY LinkAssumption, ProtodecAssumption
<1>2. PICK body, fcs : body = BytesReversed(m) /\ fcs = Fcs(body)
  OBVIOUS
<1>3. body \in Seq(Bit) /\ Len(body) = Len(m)
  BY <1>1, <1>2, ReversedType
<1>4. fcs \in Seq(Bit) /\ Len(fcs) = 16 /\ SdlcCrcOk(body \o fcs)
  BY <1>2, <1>3, FcsChecks
<1>5. Content(m) = body \o fcs
  BY <1>2 DEF Content
<1>6. /\ body \o fcs \in Seq(Bit) /\ Len(body \o fcs) = Len(body) + Len(fcs)
      /\ \A i \in 1 .. Len(body) + Len(fcs) :
           (body \o fcs)[i] = IF i <= Len(body) THEN body[i] ELSE fcs[i - Len(body)]
  <2>1. body \in Seq(Bit) /\ fcs \in Seq(Bit)
    BY <1>3, <1>4
  <2> QED
    BY <2>1, ConcatProperties
<1>7. Len(body \o fcs) = Len(m) + 16
  BY <1>3, <1>4, <1>6
<1>8. Agree(body \o fcs, body, Len(m))
  BY <1>1, <1>3, <1>4, <1>6 DEF Agree
<1>9. Len(m) + 16 + 6 < BufLimit
  BY <1>1
<1> QED
  BY <1>1, <1>2, <1>4, <1>5, <1>6, <1>7, <1>8, <1>9

(***************************************************************************)
(* The last bit of the closing flag in ST_STOPSIGN: the frame is checked,  *)
(* accepted and handed to protodec_getdata() as the payload that was sent. *)
(***************************************************************************)
LEMMA Delivered ==
  ASSUME IInv, NEW m \in Messages, Closing(Content(m), 7), protodec_decode(0)
  PROVE  state' = "SKURR" /\ out' = Append(out, m)
<1>1. PICK c, n : c = Content(m) /\ n = Len(m)
  OBVIOUS
<1>2. /\ n \in Nat /\ n > 0 /\ n % 8 = 0 /\ m \in Seq(Bit)
      /\ c \in Seq(Bit) /\ Len(c) = n + 16
      /\ Agree(c, BytesReversed(m), n) /\ CrcOk(c)
  BY <1>1, ContentFacts
<1>3. state = "STOPSIGN" /\ Len(buffer) = n + 22 /\ Agree(buffer, c, n + 16)
  BY <1>1, <1>2 DEF Closing
<1>4. StopSign(0)
  BY <1>3 DEF protodec_decode, Skurr, PreambleGoesOn, PreambleOne,
       PreambleZero, StartSign, DataStuffed, DataStore, StopSign
<1>5. ByteLen = 8 /\ buffer \in Seq(Bit)
  BY LinkAssumption DEF IInv, TypeOK
<1>6. bufferlength = n
  BY <1>2, <1>3, <1>5 DEF bufferlength, bufferpos
<1>7. CheckedBits = c
  <2>1. CrcBits(n) = n + 16
    BY <1>2, <1>5 DEF CrcBits
  <2>2. PICK l \in Nat : l = n + 16
    BY <1>2
  <2>3. l <= Len(buffer)
    BY <2>2, <1>2, <1>3
  <2>4. PICK t : t = SubSeq(buffer, 1, l)
    OBVIOUS
  <2>5. t \in Seq(Bit) /\ Len(t) = l /\ \A i \in 1 .. l : t[i] = buffer[i]
    BY <2>2, <2>3, <2>4, <1>5
  <2>6. \A i \in 1 .. l : t[i] = c[i]
    BY <2>2, <2>5, <1>3 DEF Agree
  <2>7. t = c
    BY <2>2, <2>5, <2>6, <1>2, SeqEqual
  <2> QED
    BY <2>1, <2>2, <2>4, <2>7, <1>6 DEF CheckedBits
<1>8. RBuffer(buffer, bufferlength) = m
  <2>1. Agree(buffer, BytesReversed(m), n)
    BY <1>2, <1>3 DEF Agree
  <2> QED
    BY <2>1, <1>1, <1>2, <1>6, ReversedTwice
<1>9. CrcOk(CheckedBits)
  BY <1>2, <1>7
<1>10. out' = Append(out, RBuffer(buffer, bufferlength))
  BY <1>2, <1>4, <1>6, <1>9 DEF StopSign
<1> QED
  BY <1>4, <1>8, <1>10 DEF StopSign, protodec_reset

\* The bits w of a burst with the stuffed content s of l bits.
IsBurst(w, s, l) ==
  /\ w \in Seq(Bit) /\ l \in Nat /\ Len(w) = 40 + l
  /\ \A p \in 1 .. 24 : w[p] = (p + 1) % 2
  /\ \A j \in 1 .. 8 : w[24 + j] = Flag[j]
  /\ \A q \in 1 .. l : w[32 + q] = s[q]
  /\ \A j \in 1 .. 8 : w[32 + l + j] = Flag[j]

(***************************************************************************)
(* Training, flag, content and flag, at their places in the burst.         *)
(***************************************************************************)
LEMMA BurstBits ==
  ASSUME NEW m \in Messages, NEW s, s = Stuff(Content(m)), NEW l, l = Len(s)
  PROVE  IsBurst(Burst[m], s, l)
<1>1. s \in Seq(Bit) /\ l \in Nat
  <2>1. Content(m) \in Seq(Bit)
    BY ContentFacts
  <2>2. Len(Content(m)) \in 0 .. Len(Content(m))
    BY <2>1
  <2> QED
    BY <2>1, <2>2, StuffingPrefix
<1>2. Training \in Seq(Bit) /\ Len(Training) = 24 /\ \A p \in 1 .. 24 : Training[p] = (p + 1) % 2
  BY DEF Training, Bit
<1>3. Flag \in Seq(Bit) /\ Len(Flag) = 8
  BY FlagBits
<1>4. PICK a : a = Training \o Flag
  OBVIOUS
<1>5. /\ a \in Seq(Bit) /\ Len(a) = 32
      /\ \A i \in 1 .. 32 : i <= 24 => a[i] = Training[i]
      /\ \A i \in 1 .. 32 : ~(i <= 24) => a[i] = Flag[i - 24]
  <2>1. Training \in Seq(Bit) /\ Flag \in Seq(Bit)
    BY <1>2, <1>3
  <2>2. /\ a \in Seq(Bit) /\ Len(a) = Len(Training) + Len(Flag)
        /\ \A i \in 1 .. Len(Training) + Len(Flag) :
             a[i] = IF i <= Len(Training) THEN Training[i] ELSE Flag[i - Len(Training)]
    BY <1>4, <2>1, ConcatProperties
  <2>3. Len(Training) + Len(Flag) = 32
    BY <1>2, <1>3
  <2> QED
    BY <1>2, <2>2, <2>3
<1>6. PICK b : b = a \o s
  OBVIOUS
<1>7. /\ b \in Seq(Bit) /\ Len(b) = 32 + l
      /\ \A i \in 1 .. 32 + l : b[i] = IF i <= 32 THEN a[i] ELSE s[i - 32]
  <2>1. a \in Seq(Bit) /\ s \in Seq(Bit)
    BY <1>1, <1>5
  <2>2. /\ b \in Seq(Bit) /\ Len(b) = Len(a) + Len(s)
        /\ \A i \in 1 .. Len(a) + Len(s) : b[i] = IF i <= Len(a) THEN a[i] ELSE s[i - Len(a)]
    BY <1>6, <2>1, ConcatProperties
  <2> QED
    BY <1>5, <2>2
<1>8. PICK w : w = b \o Flag
  OBVIOUS
<1>9. /\ w \in Seq(Bit) /\ Len(w) = 40 + l
      /\ \A i \in 1 .. 40 + l : w[i] = IF i <= 32 + l THEN b[i] ELSE Flag[i - (32 + l)]
  <2>1. b \in Seq(Bit) /\ Flag \in Seq(Bit)
    BY <1>3, <1>7
  <2>2. /\ w \in Seq(Bit) /\ Len(w) = Len(b) + Len(Flag)
        /\ \A i \in 1 .. Len(b) + Len(Flag) : w[i] = IF i <= Len(b) THEN b[i] ELSE Flag[i - Len(b)]
    BY <1>8, <2>1, ConcatProperties
  <2>3. Len(b) + Len(Flag) = 40 + l
    BY <1>1, <1>3, <1>7
  <2> QED
    BY <1>7, <2>2, <2>3
<1>10. w = Burst[m]
  BY <1>4, <1>6, <1>8 DEF Burst
<1>11. ASSUME NEW p \in 1 .. 24 PROVE w[p] = (p + 1) % 2
  <2>1. p \in 1 .. 40 + l /\ p <= 32 + l /\ p \in 1 .. 32 + l /\ p <= 32 /\ p \in 1 .. 32 /\ p <= 24
    BY <1>1
  <2>2. w[p] = b[p]
    BY <2>1, <1>9
  <2>3. b[p] = a[p]
    BY <2>1, <1>7
  <2>4. a[p] = Training[p]
    BY <2>1, <1>5
  <2> QED
    BY <2>2, <2>3, <2>4, <1>2
<1>12. ASSUME NEW j \in 1 .. 8 PROVE w[24 + j] = Flag[j]
  <2>1. PICK p : p = 24 + j
    OBVIOUS
  <2>2. /\ p \in 1 .. 40 + l /\ p <= 32 + l /\ p \in 1 .. 32 + l /\ p <= 32 /\ p \in 1 .. 32
        /\ ~(p <= 24) /\ p - 24 = j
    BY <1>1, <2>1
  <2>3. w[p] = b[p]
    BY <2>2, <1>9
  <2>4. b[p] = a[p]
    BY <2>2, <1>7
  <2>5. a[p] = Flag[j]
    BY <2>2, <1>5
  <2> QED
    BY <2>1, <2>3, <2>4, <2>5
<1>13. ASSUME NEW q \in 1 .. l PROVE w[32 + q] = s[q]
  <2>1. PICK p : p = 32 + q
    OBVIOUS
  <2>2. /\ p \in 1 .. 40 + l /\ p <= 32 + l /\ p \in 1 .. 32 + l /\ ~(p <= 32) /\ p - 32 = q
    BY <1>1, <2>1
  <2>3. w[p] = b[p]
    BY <2>2, <1>9
  <2>4. b[p] = s[q]
    BY <2>2, <1>7
  <2> QED
    BY <2>1, <2>3, <2>4
<1>14. ASSUME NEW j \in 1 .. 8 PROVE w[32 + l + j] = Flag[j]
  <2>1. PICK p : p = 32 + l + j
    OBVIOUS
  <2>2. p \in 1 .. 40 + l /\ ~(p <= 32 + l) /\ p - (32 + l) = j
    BY <1>1, <2>1
  <2>3. w[p] = Flag[j]
    BY <2>2, <1>9
  <2> QED
    BY <2>1, <2>3
<1> QED
  BY <1>1, <1>9, <1>10, <1>11, <1>12, <1>13, <1>14 DEF IsBurst

-----------------------------------------------------------------------------
(* The link.                                                               *)

\* The decoder after p bits of an undamaged burst of m.
Following(m, p) ==
  \/ p \in 1 .. 24 /\ Trained(p)
  \/ \E j \in 1 .. 7 : p = 24 + j /\ Opening(j)
  \/ \E q \in 0 .. Len(Stuff(Content(m))), k \in 0 .. Len(Content(m)) :
       p = 32 + q /\ Stored(Content(m), q, k)
  \/ \E j \in 1 .. 7 : p = 32 + Len(Stuff(Content(m))) + j /\ Closing(Content(m), j)
  \/ p = 40 + Len(Stuff(Content(m))) /\ state \notin {"DATA", "STOPSIGN"}

(***************************************************************************)
(* protodec_decode() takes the next bit of a burst: it goes on following   *)
(* it, and the payload is handed over at the last bit and not before.      *)
(***************************************************************************)
LEMMA FollowStep ==
  ASSUME IInv, NEW m \in Messages, NEW p \in Nat, p < Len(Burst[m]), Following(m, p),
         NEW b, b = Burst[m][p + 1], protodec_decode(b)
  PROVE  /\ Following(m, p + 1)'
         /\ out' = IF p + 1 = Len(Burst[m]) THEN Append(out, m) ELSE out
<1>1. PICK c, s, l : c = Content(m) /\ s = Stuff(c) /\ l = Len(s)
  OBVIOUS
<1>10. PICK w : w = Burst[m]
  OBVIOUS
<1>11. IsBurst(w, s, l)
  BY <1>1, <1>10, BurstBits
<1>2. l \in Nat /\ Len(Burst[m]) = 40 + l
  BY <1>10, <1>11 DEF IsBurst
<1>12. ASSUME NEW i \in 1 .. 24, p + 1 = i PROVE b = (i + 1) % 2
  BY <1>10, <1>11, <1>12 DEF IsBurst
<1>13. ASSUME NEW j \in 1 .. 8, p + 1 = 24 + j PROVE b = Flag[j]
  BY <1>10, <1>11, <1>13 DEF IsBurst
<1>14. ASSUME NEW q \in 1 .. l, p + 1 = 32 + q PROVE b = s[q]
  BY <1>10, <1>11, <1>14 DEF IsBurst
<1>15. ASSUME NEW j \in 1 .. 8, p + 1 = 32 + l + j PROVE b = Flag[j]
  BY <1>10, <1>11, <1>15 DEF IsBurst
<1>3. c \in Seq(Bit) /\ Len(c) \in Nat /\ Len(c) + 6 < BufLimit
  BY <1>1, ContentFacts
<1>4. CASE p \in 1 .. 24 /\ Trained(p)
  <2>1. p + 1 # 40 + l /\ state # "STOPSIGN"
    BY <1>2, <1>4 DEF Trained
  <2>2. out' = out
    BY <2>1, QuietStep
  <2>3. CASE p \in 1 .. 23
    <3>1. p + 1 \in 1 .. 24 /\ p + 1 + 1 = p + 2
      BY <2>3
    <3>2. b = (p + 2) % 2
      BY <3>1, <1>12
    <3>3. Trained(p + 1)'
      BY <3>2, <1>4, <2>3, TrainingGoesOn
    <3> QED
      BY <3>1, <3>3, <2>1, <2>2, <1>2 DEF Following
  <2>4. CASE p = 24
    <3>1. b = 0
      <4>1. 1 \in 1 .. 8 /\ p + 1 = 24 + 1
        BY <2>4
      <4> QED
        BY <4>1, <1>13, FlagBits
    <3>2. Opening(1)'
      BY <3>1, <2>4, <1>4, FlagOpens
    <3>3. p + 1 = 24 + 1 /\ 1 \in 1 .. 7
      BY <2>4
    <3> QED
      BY <3>2, <3>3, <2>1, <2>2, <1>2 DEF Following
  <2> QED
    BY <2>3, <2>4, <1>4
<1>5. ASSUME NEW j \in 1 .. 7, p = 24 + j, Opening(j)
      PROVE  /\ Following(m, p + 1)'
             /\ out' = IF p + 1 = Len(Burst[m]) THEN Append(out, m) ELSE out
  <2>1. p + 1 # 40 + l /\ state # "STOPSIGN"
    BY <1>2, <1>5 DEF Opening
  <2>2. out' = out
    BY <2>1, QuietStep
  <2>3. b = Flag[j + 1]
    <3>1. PICK i \in 1 .. 8 : i = j + 1
      OBVIOUS
    <3>2. p + 1 = 24 + i
      BY <3>1, <1>5
    <3> QED
      BY <3>1, <3>2, <1>13
  <2>4. CASE j \in 1 .. 6
    <3>1. b = 1
      BY <2>3, <2>4, FlagBits
    <3>2. Opening(j + 1)'
      BY <3>1, <2>4, <1>5, FlagGoesOn
    <3>3. p + 1 = 24 + (j + 1) /\ j + 1 \in 1 .. 7
      BY <2>4, <1>5
    <3> QED
      BY <3>2, <3>3, <2>1, <2>2, <1>2 DEF Following
  <2>5. CASE j = 7
    <3>1. b = 0
      BY <2>3, <2>5, FlagBits
    <3>2. Stored(c, 0, 0)'
      BY <3>1, <2>5, <1>5, <1>3, DataBegins
    <3>3. p + 1 = 32 + 0 /\ 0 \in 0 .. l /\ 0 \in 0 .. Len(c)
      BY <2>5, <1>5, <1>2, <1>3
    <3> QED
      BY <3>2, <3>3, <2>1, <2>2, <1>1, <1>2 DEF Following
  <2> QED
    BY <2>4, <2>5
<1>6. ASSUME NEW q \in 0 .. l, NEW k \in 0 .. Len(c), p = 32 + q, Stored(c, q, k)
      PROVE  /\ Following(m, p + 1)'
             /\ out' = IF p + 1 = Len(Burst[m]) THEN Append(out, m) ELSE out
  <2>1. p + 1 # 40 + l /\ state # "STOPSIGN"
    BY <1>2, <1>6 DEF Stored
  <2>2. out' = out
    BY <2>1, QuietStep
  <2>3. PICK t, n : t = Stuffing(c)[k].bits /\ n = Len(t)
    OBVIOUS
  <2>4. n \in Nat /\ n <= l /\ (k < Len(c) => n < l)
    BY <2>3, <1>1, <1>3, StuffingPrefix
  <2>5. bitstuff \in BOOLEAN
    BY DEF IInv, TypeOK
  <2>6. q < l => b = s[q + 1]
    <3>1. ASSUME q < l PROVE b = s[q + 1]
      <4>1. PICK i \in 1 .. l : i = q + 1
        BY <3>1, <1>2
      <4>2. p + 1 = 32 + i
        BY <4>1, <1>6
      <4> QED
        BY <4>1, <4>2, <1>14
    <3> QED
      BY <3>1
  <2>7. CASE bitstuff
    <3>1. q = n - 1 /\ s[q + 1] = 0
      BY <2>3, <2>7, <1>1, <1>6 DEF Stored
    <3>5. q < l
      BY <3>1, <2>4, <1>2
    <3>2. q < l /\ b = 0
      BY <3>1, <3>5, <2>6
    <3>3. Stored(c, q + 1, k)'
      BY <3>2, <2>7, <1>3, <1>6, StuffedDropped
    <3>4. p + 1 = 32 + (q + 1) /\ q + 1 \in 0 .. l
      BY <3>2, <1>2, <1>6
    <3> QED
      BY <3>3, <3>4, <2>1, <2>2, <1>1, <1>2 DEF Following
  <2>8. CASE ~bitstuff /\ k < Len(c)
    <3>1. q = n
      BY <2>3, <2>8, <1>6 DEF Stored
    <3>2. q < l /\ b = s[q + 1]
      BY <3>1, <2>4, <2>6, <2>8
    <3>3. b = c[k + 1]
      <4>1. PICK o, d : o = Stuffing(c)[k].ones /\ d = c[k + 1]
        OBVIOUS
      <4>2. SendsNext(c, k, t, o, d)
        BY <4>1, <2>3, <2>8, <1>3, SentNext
      <4>3. Stuff(c)[Len(t) + 1] = d
        BY <4>2 DEF SendsNext
      <4> QED
        BY <4>1, <4>3, <3>1, <3>2, <2>3, <1>1
    <3>4. Stored(c, q + 1, k + 1)'
      BY <3>3, <2>8, <1>3, <1>6, ContentStored
    <3>5. p + 1 = 32 + (q + 1) /\ q + 1 \in 0 .. l /\ k + 1 \in 0 .. Len(c)
      BY <3>2, <2>8, <1>2, <1>3, <1>6
    <3> QED
      BY <3>4, <3>5, <2>1, <2>2, <1>1, <1>2 DEF Following
  <2>9. CASE ~bitstuff /\ k = Len(c)
    <3>1. q = n /\ n = l
      BY <2>3, <2>9, <1>1, <1>6 DEF Stored, Stuff
    <3>2. p + 1 = 32 + l + 1 /\ 1 \in 1 .. 8 /\ 1 \in 1 .. 7
      BY <3>1, <1>6
    <3>3. b = 0
      BY <3>2, <1>15, FlagBits
    <3>4. Closing(c, 1)'
      BY <3>3, <2>9, <1>3, <1>6, FlagCloses
    <3> QED
      BY <3>2, <3>4, <2>1, <2>2, <1>1, <1>2 DEF Following
  <2> QED
    BY <2>5, <2>7, <2>8, <2>9, <1>3
<1>7. ASSUME NEW j \in 1 .. 7, p = 32 + l + j, Closing(c, j)
      PROVE  /\ Following(m, p + 1)'
             /\ out' = IF p + 1 = Len(Burst[m]) THEN Append(out, m) ELSE out
  <2>1. b = Flag[j + 1]
    <3>1. PICK i \in 1 .. 8 : i = j + 1
      OBVIOUS
    <3>2. p + 1 = 32 + l + i
      BY <3>1, <1>2, <1>7
    <3> QED
      BY <3>1, <3>2, <1>15
  <2>2. CASE j \in 1 .. 6
    <3>1. b = 1
      BY <2>1, <2>2, FlagBits
    <3>2. p + 1 # 40 + l /\ state # "STOPSIGN"
      BY <1>2, <1>7, <2>2 DEF Closing
    <3>3. out' = out
      BY <3>2, QuietStep
    <3>4. Closing(c, j + 1)'
      <4>1. CASE j \in 1 .. 5
        BY <4>1, <3>1, <1>3, <1>7, CloseGoesOn
      <4>2. CASE j = 6
        BY <4>2, <3>1, <1>3, <1>7, CloseStops
      <4> QED
        BY <4>1, <4>2, <2>2
    <3>5. p + 1 = 32 + l + (j + 1) /\ j + 1 \in 1 .. 7
      BY <2>2, <1>2, <1>7
    <3> QED
      BY <3>2, <3>3, <3>4, <3>5, <1>1, <1>2 DEF Following
  <2>3. CASE j = 7
    <3>1. b = 0
      BY <2>1, <2>3, FlagBits
    <3>2. state' = "SKURR" /\ out' = Append(out, m)
      BY <3>1, <2>3, <1>1, <1>7, Delivered
    <3>3. p + 1 = 40 + l
      BY <2>3, <1>2, <1>7
    <3> QED
      BY <3>2, <3>3, <1>1, <1>2 DEF Following
  <2> QED
    BY <2>2, <2>3
<1>8. p # 40 + l
  BY <1>2
<1> QED
  BY <1>1, <1>4, <1>5, <1>6, <1>7, <1>8 DEF Following

\* The bits of the current or last burst that were heard.
Position == Len(Burst[msg]) - Len(air)

\* What is to come is the rest of the burst.
OnAir ==
  /\ air \in Seq(Bit) /\ bursts \in Nat /\ flips \in Nat /\ told \in Nat
  /\ bursts = 0 => air = <<>>
  /\ bursts > 0 => /\ msg \in Messages
                   /\ Position > 0
                   /\ \A i \in 1 .. Len(air) : air[i] = Burst[msg][Position + i]

Clean == bursts > 0 /\ flips = 0 /\ start = [state |-> "SKURR", nstartsign |-> 0]

\* The decoder keeps up with a burst that is clean so far.
KeepsUp ==
  Clean => /\ Following(msg, Position)
           /\ IF air = <<>> THEN Heard ELSE Len(out) = told

LinkInv == IInv /\ OnAir /\ KeepsUp

(***************************************************************************)
(* A burst is a bit string that begins with a 0, and as long as its parts. *)
(***************************************************************************)
LEMMA BurstType ==
  ASSUME NEW m \in Messages
  PROVE  /\ Burst[m] \in Seq(Bit) /\ Len(Burst[m]) \in Nat /\ Len(Burst[m]) >= 40
         /\ Burst[m][1] = 0
         /\ Len(Burst[m]) = 40 + Len(Stuff(Content(m))) /\ Len(Stuff(Content(m))) \in Nat
<1>1. PICK s, l : s = Stuff(Content(m)) /\ l = Len(s)
  OBVIOUS
<1>2. IsBurst(Burst[m], s, l)
  BY <1>1, BurstBits
<1>3. Burst[m] \in Seq(Bit) /\ l \in Nat /\ Len(Burst[m]) = 40 + l
  BY <1>2 DEF IsBurst
<1>4. Burst[m][1] = 0
  BY <1>2 DEF IsBurst
<1> QED
  BY <1>1, <1>3, <1>4

(***************************************************************************)
(* The link's invariant holds when the decoder was initialised and nothing *)
(* is on the air.                                                          *)
(***************************************************************************)
LEMMA LinkInitInv == LinkInit => LinkInv
<1> SUFFICES ASSUME LinkInit PROVE LinkInv
  OBVIOUS
<1>1. IInv
  BY InitIInv DEF LinkInit
<1>2. OnAir
  BY DEF LinkInit, OnAir
<1>3. KeepsUp
  BY DEF LinkInit, KeepsUp, Clean
<1> QED
  BY <1>1, <1>2, <1>3 DEF LinkInv

(***************************************************************************)
(* Whatever bit is heard, the invariant of the deframer is kept.           *)
(***************************************************************************)
LEMMA DecodeIInv ==
  ASSUME IInv, NEW b \in Bit, protodec_decode(b)
  PROVE  IInv'
<1>1. Next
  BY DEF Next
<1> QED
  BY <1>1, NextIInv

(***************************************************************************)
(* Noise after a burst takes nothing back, and hands nothing over.         *)
(***************************************************************************)
LEMMA NoiseInv ==
  ASSUME LinkInv, NoiseStep
  PROVE  LinkInv'
<1>1. PICK b \in Bit : protodec_decode(b)
  BY DEF NoiseStep
<1>2. IInv'
  BY <1>1, DecodeIInv DEF LinkInv
<1>3. air = <<>> /\ UNCHANGED linkVars /\ (state # "DATA" => state' # "DATA")
  BY DEF NoiseStep
<1>4. OnAir'
  BY <1>3 DEF LinkInv, OnAir, Position, linkVars
<1>5. ASSUME Clean' PROVE Following(msg, Position)' /\ Heard'
  <2>1. Clean /\ msg' = msg /\ air' = air /\ told' = told
    BY <1>3, <1>5 DEF Clean, linkVars
  <2>2. Following(msg, Position) /\ Heard /\ msg \in Messages
    BY <2>1, <1>3 DEF LinkInv, KeepsUp, OnAir, Clean
  <2>3. PICK m \in Messages, l \in Nat :
           m = msg /\ l = Len(Stuff(Content(m))) /\ Len(Burst[m]) = 40 + l
    BY <2>2, BurstType
  <2>4. Position = 40 + l
    BY <2>3, <1>3 DEF Position
  <2>5. state \notin {"DATA", "STOPSIGN"}
    <3>1. PICK p : p = 40 + l
      OBVIOUS
    <3>2. /\ p \notin 1 .. 24 /\ \A j \in 1 .. 7 : p # 24 + j /\ p # 32 + l + j
          /\ \A q \in 0 .. l : p # 32 + q
      BY <3>1
    <3>3. Following(m, p)
      BY <3>1, <2>2, <2>3, <2>4
    <3> QED
      BY <3>2, <3>3, <2>3 DEF Following
  <2>6. out' = out
    BY <2>5, <1>1, QuietStep
  <2>7. state' \notin {"DATA", "STOPSIGN"}
    <3>1. state' # "STOPSIGN"
      BY <2>5, <1>1 DEF protodec_decode, Skurr, PreambleGoesOn, PreambleOne, PreambleZero,
         StartSign, DataStuffed, DataStore, StopSign, protodec_reset
    <3> QED
      BY <3>1, <2>5, <1>3
  <2>8. Position' = 40 + l
    BY <2>1, <2>4 DEF Position
  <2>9. Following(msg, Position)'
    BY <2>1, <2>3, <2>7, <2>8 DEF Following
  <2> QED
    BY <2>1, <2>2, <2>6, <2>9 DEF Heard
<1>6. KeepsUp'
  BY <1>3, <1>5 DEF KeepsUp, linkVars
<1> QED
  BY <1>2, <1>4, <1>6 DEF LinkInv

(***************************************************************************)
(* A transmitter keys up.                                                  *)
(***************************************************************************)
LEMMA BeginInv ==
  ASSUME LinkInv, BurstBegins
  PROVE  LinkInv'
<1>1. PICK m \in Messages :
         msg' = m /\ air' = Tail(Burst[m]) /\ protodec_decode(Head(Burst[m]))
  BY DEF BurstBegins
<1>2. PICK w : w = Burst[m]
  OBVIOUS
<1>3. w \in Seq(Bit) /\ Len(w) \in Nat /\ Len(w) >= 40 /\ w[1] = 0
  BY <1>2, BurstType
<1>4. Head(w) = 0 /\ w # <<>>
  BY <1>3
<1>5. protodec_decode(0) /\ IInv
  BY <1>1, <1>2, <1>4 DEF LinkInv
<1>6. IInv'
  BY <1>5, DecodeIInv DEF Bit
<1>7. /\ air' \in Seq(Bit) /\ Len(air') = Len(w) - 1
      /\ \A i \in 1 .. Len(w) - 1 : air'[i] = w[i + 1]
  BY <1>1, <1>2, <1>3, <1>4, HeadTailProperties
<1>8. Position' = 1
  BY <1>1, <1>2, <1>3, <1>7 DEF Position
<1>9. OnAir'
  <2>1. bursts' = bursts + 1 /\ flips' = 0 /\ told' = Len(out)
    BY DEF BurstBegins
  <2>2. bursts' \in Nat /\ bursts' > 0 /\ flips' \in Nat
    BY <2>1 DEF LinkInv, OnAir
  <2>3. told' \in Nat
    BY <2>1, <1>5 DEF IInv, TypeOK
  <2>4. \A i \in 1 .. Len(air') : air'[i] = Burst[m][1 + i]
    BY <1>2, <1>3, <1>7
  <2> QED
    BY <1>1, <1>7, <1>8, <2>2, <2>3, <2>4 DEF OnAir
<1>10. ASSUME Clean' PROVE Following(msg, Position)' /\ Len(out') = told'
  <2>1. start' = [state |-> state, nstartsign |-> nstartsign] /\ told' = Len(out)
    BY DEF BurstBegins
  <2>2. state = "SKURR" /\ nstartsign = 0
    BY <2>1, <1>10 DEF Clean
  <2>3. Trained(1)'
    BY <2>2, <1>5, TrainingBegins
  <2>4. out' = out
    BY <2>2, <1>5, QuietStep
  <2>5. 1 \in 1 .. 24
    OBVIOUS
  <2> QED
    BY <2>1, <2>3, <2>4, <2>5, <1>8 DEF Following
<1>11. air' # <<>>
  BY <1>3, <1>7
<1>12. KeepsUp'
  BY <1>10, <1>11 DEF KeepsUp
<1> QED
  BY <1>6, <1>9, <1>12 DEF LinkInv

(***************************************************************************)
(* A bit of a burst, inverted or not.                                      *)
(***************************************************************************)
LEMMA BitInv ==
  ASSUME LinkInv, BurstBit
  PROVE  LinkInv'
<1>1. PICK a, n : a = air /\ n = Len(a)
  OBVIOUS
<1>2. a \in Seq(Bit) /\ a # <<>> /\ n \in Nat /\ n > 0
  BY <1>1 DEF LinkInv, OnAir, BurstBit
<1>3. Head(a) = a[1] /\ Head(a) \in Bit /\ 1 - Head(a) \in Bit
  <2>1. Head(a) = a[1] /\ a[1] \in Bit
    BY <1>1, <1>2
  <2> QED
    BY <2>1 DEF Bit
<1>4. IInv'
  BY <1>1, <1>3, DecodeIInv DEF LinkInv, BurstBit
<1>5. /\ air' \in Seq(Bit) /\ Len(air') = n - 1
      /\ \A i \in 1 .. n - 1 : air'[i] = a[i + 1]
  <2>1. air' = Tail(a)
    BY <1>1 DEF BurstBit
  <2> QED
    BY <2>1, <1>1, <1>2, HeadTailProperties
<1>6. bursts \in Nat /\ bursts # 0
  BY <1>1, <1>2 DEF LinkInv, OnAir
<1>7. PICK m \in Messages : m = msg
  BY <1>6 DEF LinkInv, OnAir
<1>8. PICK w : w = Burst[m]
  OBVIOUS
<1>9. w \in Seq(Bit) /\ Len(w) \in Nat
  BY <1>8, BurstType
<1>10. PICK p \in Nat : p = Len(w) - n /\ p > 0 /\ p = Position
  <2>1. Position > 0 /\ Position = Len(w) - n
    BY <1>1, <1>6, <1>7, <1>8 DEF LinkInv, OnAir, Position
  <2> QED
    BY <2>1, <1>2, <1>9
<1>11. p + n = Len(w) /\ p < Len(w)
  BY <1>2, <1>9, <1>10
<1>12. \A i \in 1 .. n : a[i] = w[p + i]
  BY <1>1, <1>6, <1>7, <1>8, <1>10, SMTT(30) DEF LinkInv, OnAir
<1>13. UNCHANGED <<msg, bursts, start, told>>
  BY DEF BurstBit
<1>14. Position' = p + 1
  <2>1. Position' = Len(w) - (n - 1)
    BY <1>5, <1>7, <1>8, <1>13 DEF Position
  <2> QED
    BY <2>1, <1>2, <1>9, <1>11
<1>15. OnAir'
  <2>1. flips' \in Nat
    BY DEF LinkInv, OnAir, BurstBit
  <2>2. told \in Nat
    BY DEF LinkInv, OnAir
  <2>3. ASSUME NEW i \in 1 .. n - 1 PROVE air'[i] = w[p + 1 + i]
    <3>1. PICK j \in 1 .. n : j = i + 1
      BY <1>2
    <3>2. air'[i] = a[j] /\ a[j] = w[p + j]
      BY <3>1, <1>5, <1>12
    <3>3. p + j = p + 1 + i
      BY <3>1
    <3> QED
      BY <3>2, <3>3
  <2>4. bursts' = bursts /\ told' = told /\ msg' = m
    BY <1>7, <1>13
  <2>5. \A i \in 1 .. Len(air') : air'[i] = Burst[m][p + 1 + i]
    BY <2>3, <1>5, <1>8
  <2>6. p + 1 > 0
    OBVIOUS
  <2> QED
    BY <2>1, <2>2, <2>4, <2>5, <2>6, <1>5, <1>6, <1>14 DEF OnAir
<1>16. ASSUME Clean'
       PROVE  Following(msg, Position)' /\ IF air' = <<>> THEN Heard' ELSE Len(out') = told'
  <2>1. flips' = 0 /\ flips \in Nat
    BY <1>16 DEF Clean, LinkInv, OnAir
  <2>2. protodec_decode(Head(a)) /\ flips = 0
    BY <2>1, <1>1 DEF BurstBit
  <2>3. Clean
    BY <2>2, <1>13, <1>16 DEF Clean
  <2>4. Following(m, p) /\ Len(out) = told
    BY <2>3, <1>1, <1>2, <1>7, <1>10 DEF LinkInv, KeepsUp
  <2>5. PICK b : b = Head(a)
    OBVIOUS
  <2>6. b = Burst[m][p + 1]
    BY <2>5, <1>2, <1>3, <1>8, <1>12
  <2>7. IInv /\ protodec_decode(b) /\ p < Len(Burst[m])
    BY <2>2, <2>5, <1>8, <1>11 DEF LinkInv
  <2>8. /\ Following(m, p + 1)'
        /\ out' = IF p + 1 = Len(Burst[m]) THEN Append(out, m) ELSE out
    BY <2>4, <2>6, <2>7, FollowStep
  <2>9. Following(msg, Position)'
    BY <2>8, <1>7, <1>13, <1>14
  <2>10. out \in Seq(Seq(Bit)) /\ m \in Seq(Bit)
    BY <2>7, ContentFacts DEF IInv, TypeOK
  <2>11. CASE air' = <<>>
    <3>1. p + 1 = Len(w)
      BY <2>11, <1>2, <1>5, <1>9, <1>11
    <3>2. out' = Append(out, m)
      BY <3>1, <2>8, <1>8
    <3>3. Len(out') = told + 1 /\ out'[told + 1] = m
      BY <3>2, <2>4, <2>10
    <3>4. msg' = m /\ told' = told
      BY <1>7, <1>13
    <3>5. Heard'
      BY <3>3, <3>4 DEF Heard
    <3> QED
      BY <3>5, <2>9, <2>11
  <2>12. CASE air' # <<>>
    <3>1. p + 1 # Len(w)
      BY <2>12, <1>2, <1>5, <1>9, <1>11
    <3>2. out' = out
      BY <3>1, <2>8, <1>8
    <3> QED
      BY <3>2, <2>4, <2>9, <2>12, <1>13
  <2> QED
    BY <2>11, <2>12
<1>17. KeepsUp'
  BY <1>16 DEF KeepsUp
<1> QED
  BY <1>4, <1>15, <1>17 DEF LinkInv

(***************************************************************************)
(* A step that changes nothing keeps the invariant.                        *)
(***************************************************************************)
LEMMA StutterLinkInv ==
  ASSUME LinkInv, UNCHANGED <<vars, linkVars>>
  PROVE  LinkInv'
<1>1. /\ UNCHANGED vars /\ UNCHANGED out /\ UNCHANGED state
      /\ UNCHANGED <<air, msg, bursts, flips, start, told>>
  BY DEF linkVars, vars
<1>2. IInv'
  BY <1>1, NextIInv DEF LinkInv
<1>3. Position' = Position
  BY <1>1 DEF Position
<1>4. OnAir'
  BY <1>1, <1>3 DEF LinkInv, OnAir
<1>5. Following(msg, Position)' = Following(msg, Position)
  BY <1>1, <1>3 DEF Following, Trained, Opening, Stored, Closing, vars
<1>6. Heard' = Heard /\ Clean' = Clean
  BY <1>1 DEF Heard, Clean
<1>7. KeepsUp'
  BY <1>1, <1>5, <1>6 DEF LinkInv, KeepsUp
<1> QED
  BY <1>2, <1>4, <1>7 DEF LinkInv

(***************************************************************************)
(* While a burst arrives undamaged that began in the state                 *)
(* protodec_reset() makes, the decoder is at every bit where the sender    *)
(* is: hunting, in the flag, in the content with the same bits stored and  *)
(* the same ones counted, or in the closing flag.                          *)
(***************************************************************************)
THEOREM LinkInductive == LinkSpec => []LinkInv
<1>1. LinkInit => LinkInv
  BY LinkInitInv
<1>2. LinkInv /\ [LinkNext]_<<vars, linkVars>> => LinkInv'
  BY NoiseInv, BeginInv, BitInv, StutterLinkInv DEF LinkNext
<1> QED
  BY <1>1, <1>2, PTL DEF LinkSpec

(***************************************************************************)
(* Every undamaged burst that the decoder hears from that state on is      *)
(* handed to protodec_getdata(), once, unstuffed, without flags or         *)
(* checksum and in field order: for every payload that fits the buffer,    *)
(* any number of bursts and whatever noise and damaged bursts came before. *)
(***************************************************************************)
THEOREM DeliversCleanBursts == LinkSpec => []CleanBurstDelivered
<1>1. LinkInv => CleanBurstDelivered
  BY DEF LinkInv, KeepsUp, Clean, CleanBurstDelivered
<1> QED
  BY <1>1, LinkInductive, PTL

(***************************************************************************)
(* The link only restricts the bits that are heard: its behaviours are     *)
(* behaviours of the deframer, and what is proved of protodec_decode()     *)
(* holds in it.                                                            *)
(***************************************************************************)
THEOREM LinkIsADecoder == LinkSpec => Spec
<1>1. LinkInit => Init
  BY DEF LinkInit
<1>2. LinkInv /\ [LinkNext]_<<vars, linkVars>> => [Next]_vars
  <2> SUFFICES ASSUME LinkInv, [LinkNext]_<<vars, linkVars>> PROVE [Next]_vars
    OBVIOUS
  <2>1. CASE NoiseStep
    BY <2>1 DEF NoiseStep, Next
  <2>2. CASE BurstBegins
    <3>1. PICK m \in Messages : protodec_decode(Head(Burst[m]))
      BY <2>2 DEF BurstBegins
    <3>2. Head(Burst[m]) \in Bit
      <4>1. PICK w : w = Burst[m]
        OBVIOUS
      <4>2. w \in Seq(Bit) /\ Len(w) \in Nat /\ Len(w) >= 40
        BY <4>1, BurstType
      <4>3. Head(w) \in Bit
        BY <4>2
      <4> QED
        BY <4>1, <4>3
    <3> QED
      BY <3>1, <3>2 DEF Next
  <2>3. CASE BurstBit
    <3>1. PICK a : a = air
      OBVIOUS
    <3>2. a \in Seq(Bit) /\ a # <<>>
      BY <2>3, <3>1 DEF LinkInv, OnAir, BurstBit
    <3>3. Head(a) \in Bit
      BY <3>2
    <3>4. 1 - Head(a) \in Bit
      BY <3>3 DEF Bit
    <3> QED
      BY <2>3, <3>1, <3>3, <3>4 DEF BurstBit, Next
  <2>4. CASE UNCHANGED <<vars, linkVars>>
    BY <2>4
  <2> QED
    BY <2>1, <2>2, <2>3, <2>4 DEF LinkNext
<1> QED
  BY <1>1, <1>2, LinkInductive, PTL DEF LinkSpec, Spec
=============================================================================
