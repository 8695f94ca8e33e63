-------------------------------- MODULE Nmea --------------------------------
(***************************************************************************)
(* From a received frame to NMEA sentences: the head of protodec_getdata() *)
(* and protodec_generate_nmea() of src/src/protodec.c.  Messages has the   *)
(* rest of the handler, and the specification.                             *)
(* A sentence is the record of its fields.  Left out: the constant words   *)
(* of the header and the checksum, which is computed from the rest.        *)
(***************************************************************************)
EXTENDS Integers, Sequences

CONSTANTS
  senlen,              \* 61: letters in a sentence
  MAX_AIS_PACKET_TYPE, \* 24
  SERBUFFER_LEN,       \* 100: bytes allocated for d->nmea and d->serbuffer
  Frames,              \* payloads the deframer can hand over
  None

\* A sentence with its "!" and CR LF fits the buffers and is not longer than
\* NMEA allows; the payloads fit nine sentences.
ASSUME NmeaAssumption ==
  /\ senlen \in Nat \ {0} /\ senlen + 22 <= SERBUFFER_LEN /\ senlen + 21 <= 82
  /\ SERBUFFER_LEN \in Nat
  /\ \A bits \in Frames : bits \in Seq({0, 1}) /\ Len(bits) + 5 <= 9 * 6 * senlen

VARIABLES
  seqnr,               \* d->seqnr
  frame,               \* the last payload handed over
  sent                 \* the sentences written for it

nmeaVars == <<seqnr, frame, sent>>

\* The bits from .. from + size - 1 as a number; bits count from 0 in the code.
protodec_henten(from, size, bits) ==
  LET value[i \in 0 .. size] ==
        IF i = 0 THEN 0 ELSE 2 * value[i - 1] + bits[from + i]
  IN  value[size]

\* Mutant: the gap in the alphabet is not skipped.
ArmorNoGap(letter) == letter + 48

\* 6bit-to-ascii conversion by IEC.
Armor(letter) == IF letter < 40 THEN letter + 48 ELSE letter + 56

Fillbits(n) == IF n % 6 > 0 THEN 6 - (n % 6) ELSE 0

\* The payload with its fill bits.
Padded(bits) == bits \o [i \in 1 .. Fillbits(Len(bits)) |-> 0]

Sentences(n) ==
  IF n <= senlen * 6 THEN 1
  ELSE n \div (senlen * 6) + (IF n % (senlen * 6) # 0 THEN 1 ELSE 0)

\* The letters of sentence num.
Letters(bits, num) ==
  LET first == (num - 1) * senlen
      left  == Len(bits) \div 6 - first
  IN  [k \in 1 .. (IF left < senlen THEN left ELSE senlen) |->
         Armor(protodec_henten(6 * (first + k - 1), 6, bits))]

protodec_generate_nmea(bits, fillbits) ==
  LET sentences == Sentences(Len(bits))
  IN  [num \in 1 .. sentences |->
         [sentences |-> sentences,
          num       |-> num,
          seq       |-> IF sentences > 1 THEN seqnr ELSE None,
          letters   |-> Letters(bits, num),
          fill      |-> IF sentences > 1 /\ num = sentences THEN fillbits ELSE 0]]

\* d->seqnr++; if (d->seqnr > 9) d->seqnr = 0
Roll(n) == IF n + 1 > 9 THEN 0 ELSE n + 1

\* Fields beyond the end of a short frame read as zeros: d->rbuffer is
\* cleared before each frame.
Field(from, size, bits) ==
  protodec_henten(from, size, bits \o [i \in 1 .. from + size |-> 0])

Type(bits) == Field(0, 6, bits)

NmeaInit ==
  /\ seqnr = 0
  /\ frame = <<>>
  /\ sent = <<>>

Supported(bits) == Type(bits) \in 1 .. MAX_AIS_PACKET_TYPE

\* Fill bits, sentences and the next sequence number.
NmeaOut(bits) ==
  /\ frame' = bits
  /\ sent' = protodec_generate_nmea(Padded(bits), Fillbits(Len(bits)))
  /\ seqnr' = Roll(seqnr)

-----------------------------------------------------------------------------
(* Properties                                                              *)

\* The bytes of d->nmea a sentence takes: header, letters, trailer, NUL.
Size(s) == 13 + Len(s.letters) + 6

(***************************************************************************)
(* Sentences fit their buffers ("!" and CR LF added), the numbers in the   *)
(* header are single digits, and no sentence is longer than NMEA's 82.     *)
(***************************************************************************)
TypeOK ==
  /\ seqnr \in 0 .. 9
  /\ \A i \in DOMAIN sent :
       /\ Size(sent[i]) + 3 <= SERBUFFER_LEN
       /\ Size(sent[i]) + 2 <= 82
       /\ sent[i].sentences \in 1 .. 9 /\ sent[i].num = i
       /\ sent[i].fill \in 0 .. 5

(***************************************************************************)
(* What a reader of the sentences does: undo the armour, join the letters  *)
(* of all sentences and drop the fill bits the last one names.             *)
(***************************************************************************)
Unarmor(c) == IF c <= 87 THEN c - 48 ELSE c - 56
BitOf(v, i) == (v \div <<32, 16, 8, 4, 2, 1>>[i]) % 2

\* The letters of the first n sentences, for every n.
Collected(s) ==
  LET all[i \in 0 .. Len(s)] == IF i = 0 THEN <<>> ELSE all[i - 1] \o s[i].letters
  IN  all

Joined(s) ==
  LET letters == Collected(s)[Len(s)]
      fill    == s[Len(s)].fill
  IN  [i \in 1 .. 6 * Len(letters) - fill |->
         BitOf(Unarmor(letters[(i - 1) \div 6 + 1]), ((i - 1) % 6) + 1)]

(***************************************************************************)
(* Nothing is lost between frame and sentences: a reader gets the payload  *)
(* back, exactly if it took several sentences, and followed by the fill    *)
(* bits (of which a single sentence does not tell) if it took one.         *)
(***************************************************************************)
ReaderGetsPayload ==
  sent # <<>> => Joined(sent) = IF Len(sent) > 1 THEN frame ELSE Padded(frame)
=============================================================================
