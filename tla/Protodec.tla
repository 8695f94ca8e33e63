------------------------------ MODULE Protodec ------------------------------
(***************************************************************************)
(* The HDLC bit deframer of one AIS channel: protodec_decode() and         *)
(* protodec_reset() of src/src/protodec.c, one action per branch of the    *)
(* switch on d->state, taken once per bit that the demodulator slices.     *)
(*                                                                         *)
(* buffer is the sequence of the first d->bufferpos bytes of d->buffer, so *)
(* that bufferpos is its length.  The counters nskurr, npreamble, ndata    *)
(* and nstopsign are left out: the code never reads them.  So is the       *)
(* counting of antallpreamble in ST_PREAMBLE, which every way out of that  *)
(* state overwrites with zero before it is read.                           *)
(***************************************************************************)
EXTENDS Integers, Sequences

CONSTANTS
  PreambleMin,   \* 14: alternations after which a 0 means "preamble"
  BufLimit,      \* 449: the frame is given up when bufferpos reaches it
  DEMOD_BUFFER_LEN,  \* 450: bytes allocated for d->buffer and d->rbuffer
  ByteLen,       \* 8: bits in a byte; the frame check sequence has two
  CrcOk(_)       \* is the frame check sequence at the end of a bit string right?

ASSUME ProtodecAssumption ==
  /\ PreambleMin \in Nat
  /\ BufLimit \in Nat
  /\ DEMOD_BUFFER_LEN \in Nat /\ BufLimit <= DEMOD_BUFFER_LEN
  /\ ByteLen \in Nat \ {0}
  /\ BufLimit > 6 + 2 * ByteLen

VARIABLES
  state,           \* d->state
  nstartsign,      \* d->nstartsign
  antallpreamble,  \* d->antallpreamble, alternations seen in ST_SKURR
  antallenner,     \* d->antallenner, repeated ones seen in ST_DATA
  bitstuff,        \* d->bitstuff, the next bit in ST_DATA is not data
  last,            \* d->last, the previous bit
  buffer,          \* d->buffer[0 .. d->bufferpos - 1]
  frames,          \* d->receivedframes, d->lostframes, d->lostframes2
  out,             \* history: what was handed to protodec_getdata()
  run              \* history: consecutive ones on the air, up to MaxRun

vars == <<state, nstartsign, antallpreamble, antallenner, bitstuff, last,
          buffer, frames, out, run>>

Bit    == {0, 1}
MaxRun == 7
bufferpos == Len(buffer)

\* The six bits of the closing flag that were stored before the flag was
\* recognised, and the frame check sequence, are not payload.
bufferlength == bufferpos - 6 - 2 * ByteLen

Init ==
  /\ state = "SKURR"
  /\ nstartsign = 0
  /\ antallpreamble = 0
  /\ antallenner = 0
  /\ bitstuff = FALSE
  /\ last = 0
  /\ buffer = <<>>
  /\ frames = [received |-> 0, lost |-> 0, lost2 |-> 0]
  /\ out = <<>>
  /\ run = 0

(***************************************************************************)
(* protodec_reset(), but for nstartsign, which ST_STARTSIGN increments     *)
(* after it, and for d->last, which protodec_decode() overwrites.          *)
(***************************************************************************)
protodec_reset ==
  /\ state' = "SKURR"
  /\ antallpreamble' = 0
  /\ antallenner' = 0
  /\ bitstuff' = FALSE
  /\ buffer' = <<>>

\* What every pass of the loop ends with, and the history of ones.
Consume(b) ==
  /\ last' = b
  /\ run' = IF b = 0 THEN 0 ELSE IF run < MaxRun THEN run + 1 ELSE run

NoFrame == UNCHANGED <<frames, out>>

-----------------------------------------------------------------------------
(* ST_SKURR: look for a long alternation that ends in a 0.                 *)

Alternations(b) == IF b # last THEN antallpreamble + 1 ELSE 0

Skurr(b) ==
  /\ state = "SKURR"
  /\ IF Alternations(b) > PreambleMin /\ b = 0
       THEN state' = "PREAMBLE" /\ antallpreamble' = 0
       ELSE state' = state /\ antallpreamble' = Alternations(b)
  /\ UNCHANGED <<nstartsign, antallenner, bitstuff, buffer>>
  /\ NoFrame

(* ST_PREAMBLE: wait for two equal bits, then for ones of the start flag.  *)

PreambleGoesOn(b) ==
  /\ state = "PREAMBLE"
  /\ b # last /\ nstartsign = 0
  /\ UNCHANGED <<state, nstartsign, antallpreamble, antallenner, bitstuff, buffer>>
  /\ NoFrame

\* Mutant: two ones in a row are taken for one.
PreambleOneCountsTwo(b) ==
  /\ state = "PREAMBLE"
  /\ ~(b # last /\ nstartsign = 0)
  /\ b = 1
  /\ nstartsign' = IF nstartsign = 0 THEN 2 ELSE nstartsign + 1
  /\ IF nstartsign = 5
       THEN state' = "STARTSIGN" /\ antallpreamble' = 0
       ELSE UNCHANGED <<state, antallpreamble>>
  /\ UNCHANGED <<antallenner, bitstuff, buffer>>
  /\ NoFrame

PreambleOne(b) ==
  /\ state = "PREAMBLE"
  /\ ~(b # last /\ nstartsign = 0)
  /\ b = 1
  /\ nstartsign' = IF nstartsign = 0 THEN 3 ELSE nstartsign + 1
  /\ IF nstartsign = 5
       THEN state' = "STARTSIGN" /\ antallpreamble' = 0
       ELSE UNCHANGED <<state, antallpreamble>>
  /\ UNCHANGED <<antallenner, bitstuff, buffer>>
  /\ NoFrame

PreambleZero(b) ==
  /\ state = "PREAMBLE"
  /\ ~(b # last /\ nstartsign = 0)
  /\ b = 0
  /\ \/ /\ nstartsign = 0
        /\ nstartsign' = 1
        /\ UNCHANGED <<state, antallpreamble, antallenner, bitstuff, buffer>>
     \/ /\ nstartsign # 0
        /\ protodec_reset
        /\ nstartsign' = 0
  /\ NoFrame

(* ST_STARTSIGN: the sixth one and the closing 0 of the start flag.  The   *)
(* increment of nstartsign follows the reset, so that it leaves a 1.       *)

StartSign(b) ==
  /\ state = "STARTSIGN"
  /\ \/ /\ nstartsign >= 7 /\ b = 0
        /\ state' = "DATA"
        /\ nstartsign' = 1
        /\ antallenner' = 0
        /\ buffer' = <<>>
        /\ UNCHANGED <<antallpreamble, bitstuff>>
     \/ /\ \/ nstartsign >= 7 /\ b = 1
           \/ nstartsign < 7 /\ b = 0
        /\ protodec_reset
        /\ nstartsign' = 1
     \/ /\ nstartsign < 7 /\ b = 1
        /\ nstartsign' = nstartsign + 1
        /\ UNCHANGED <<state, antallpreamble, antallenner, bitstuff, buffer>>
  /\ NoFrame

(* ST_DATA: store data bits, drop the 0 stuffed after five ones, and take  *)
(* a sixth one for the closing flag.                                       *)

DataStuffed(b) ==
  /\ state = "DATA" /\ bitstuff
  /\ state' = IF b = 1 THEN "STOPSIGN" ELSE state
  /\ bitstuff' = FALSE
  /\ UNCHANGED <<nstartsign, antallpreamble, antallenner, buffer>>
  /\ NoFrame

RepeatedOnesAny(b) == IF b = 1 THEN antallenner + 1 ELSE 0   \* mutant: last is not looked at
RepeatedOnes(b) == IF b = 1 /\ last = 1 THEN antallenner + 1 ELSE 0

DataStore(b) ==
  /\ state = "DATA" /\ ~bitstuff
  /\ IF bufferpos + 1 >= BufLimit
       THEN protodec_reset /\ nstartsign' = 0
       ELSE /\ buffer' = Append(buffer, b)
            /\ bitstuff' = (RepeatedOnes(b) = 4)
            /\ antallenner' = IF bitstuff' THEN 0 ELSE RepeatedOnes(b)
            /\ UNCHANGED <<state, nstartsign, antallpreamble>>
  /\ NoFrame

(* ST_STOPSIGN: the frame is complete if a 0 ends the flag.                *)

\* The bytes that protodec_calculate_crc() checks: all the whole bytes of
\* the payload and the two of the frame check sequence.
CrcBitsRoundedUp(n) == ByteLen * ((n + ByteLen - 1) \div ByteLen) + 2 * ByteLen  \* mutant
CrcBits(n) == ByteLen * (n \div ByteLen) + 2 * ByteLen
CheckedBits == SubSeq(buffer, 1, CrcBits(bufferlength))

\* Mutant: the bits of a byte are left in the order of the air.
RBufferUnreversed(buf, n) ==
  [i \in 1 .. n |-> IF i <= ByteLen * (n \div ByteLen) THEN buf[i] ELSE 0]

\* d->rbuffer: bits of each byte in the order of the AIS fields.  A last
\* incomplete byte is not copied, its bits stay zero.
RBuffer(buf, n) ==
  [i \in 1 .. n |->
     IF i <= ByteLen * (n \div ByteLen)
       THEN buf[ByteLen * ((i - 1) \div ByteLen) + ByteLen - ((i - 1) % ByteLen)]
       ELSE 0]

\* Mutant: the checksum is not looked at.
StopSignUnchecked(b) ==
  /\ state = "STOPSIGN"
  /\ \/ /\ b = 0 /\ bufferlength > 0
        /\ frames' = [frames EXCEPT !.received = @ + 1]
        /\ out' = Append(out, RBuffer(buffer, bufferlength))
     \/ /\ b = 1 \/ bufferlength <= 0
        /\ frames' = [frames EXCEPT !.lost2 = @ + 1]
        /\ UNCHANGED out
  /\ protodec_reset
  /\ nstartsign' = 0

\* Mutant: a frame too short to hold a checksum is left without an account.
StopSignUncounted(b) ==
  /\ state = "STOPSIGN"
  /\ \/ /\ b = 0 /\ bufferlength > 0 /\ CrcOk(CheckedBits)
        /\ frames' = [frames EXCEPT !.received = @ + 1]
        /\ out' = Append(out, RBuffer(buffer, bufferlength))
     \/ /\ b = 0 /\ bufferlength > 0 /\ ~CrcOk(CheckedBits)
        /\ frames' = [frames EXCEPT !.lost = @ + 1]
        /\ UNCHANGED out
     \/ /\ b = 1 /\ bufferlength > 0
        /\ frames' = [frames EXCEPT !.lost2 = @ + 1]
        /\ UNCHANGED out
     \/ bufferlength <= 0 /\ NoFrame
  /\ protodec_reset
  /\ nstartsign' = 0

StopSign(b) ==
  /\ state = "STOPSIGN"
  /\ \/ /\ b = 0 /\ bufferlength > 0 /\ CrcOk(CheckedBits)
        /\ frames' = [frames EXCEPT !.received = @ + 1]
        /\ out' = Append(out, RBuffer(buffer, bufferlength))
     \/ /\ b = 0 /\ bufferlength > 0 /\ ~CrcOk(CheckedBits)
        /\ frames' = [frames EXCEPT !.lost = @ + 1]
        /\ UNCHANGED out
     \/ /\ b = 1 \/ bufferlength <= 0
        /\ frames' = [frames EXCEPT !.lost2 = @ + 1]
        /\ UNCHANGED out
  /\ protodec_reset
  /\ nstartsign' = 0

-----------------------------------------------------------------------------

protodec_decode(b) ==
  /\ \/ Skurr(b)
     \/ PreambleGoesOn(b)
     \/ PreambleOne(b)
     \/ PreambleZero(b)
     \/ StartSign(b)
     \/ DataStuffed(b)
     \/ DataStore(b)
     \/ StopSign(b)
  /\ Consume(b)

FrameCount == frames.received + frames.lost + frames.lost2

Next == \E b \in Bit : protodec_decode(b)

Spec == Init /\ [][Next]_vars

-----------------------------------------------------------------------------
(* Properties                                                              *)

TypeOK ==
  /\ state \in {"SKURR", "PREAMBLE", "STARTSIGN", "DATA", "STOPSIGN"}
  /\ nstartsign \in 0 .. 7
  /\ antallpreamble \in 0 .. PreambleMin + 2
  /\ antallenner \in 0 .. 3
  /\ bitstuff \in BOOLEAN
  /\ last \in Bit
  /\ buffer \in Seq(Bit)
  /\ frames \in [received : Nat, lost : Nat, lost2 : Nat]
  /\ out \in Seq(Seq(Bit))
  /\ run \in 0 .. MaxRun

(***************************************************************************)
(* Memory safety of the frame buffer: the byte that ST_DATA writes next    *)
(* lies inside d->buffer, and when a frame ends, the whole bytes that      *)
(* protodec_calculate_crc() reads are bits of this very frame, never bits  *)
(* of the closing flag or what the buffer held before.                     *)
(***************************************************************************)
BufferInBounds ==
  /\ bufferpos < DEMOD_BUFFER_LEN
  /\ bufferlength > 0 => CrcBits(bufferlength) <= bufferpos - 6

(***************************************************************************)
(* Transparency: a frame ends exactly at six ones in a row on the air.  In *)
(* ST_DATA at most five ones have come in a row, whatever the data, and    *)
(* ST_STOPSIGN is entered only by the sixth.                               *)
(***************************************************************************)
EndsAtFlag ==
  /\ state = "DATA" => run <= 5
  /\ state = "STOPSIGN" => run = 6

(***************************************************************************)
(* Data begins only after a complete start flag: six ones, not five and    *)
(* not seven, and then a 0.                                                *)
(***************************************************************************)
StartsAtFlag ==
  [][state # "DATA" /\ state' = "DATA" => run = 6 /\ last' = 0]_vars

(***************************************************************************)
(* One frame, one account: the step that hands a payload to                *)
(* protodec_getdata() is the step that counts a received frame, and        *)
(* every frame that got to its stop sign is counted exactly once.          *)
(***************************************************************************)
FramesAccounted ==
  [][/\ frames'.received - frames.received = Len(out') - Len(out)
     /\ (state = "STOPSIGN") <=> (FrameCount' = FrameCount + 1)]_vars
=============================================================================
