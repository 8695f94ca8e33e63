------------------------------ MODULE AisLink -------------------------------
(***************************************************************************)
(* A transmitter, the air and the deframer of one channel, bit by bit: the *)
(* decoder hears noise, then a burst, then noise again.  The transmitter   *)
(* and the air are external to the program; the burst is the one           *)
(* protodec_decode() is written for (24 bits of training, the flag         *)
(* 01111110, the payload with its frame check sequence and a 0 stuffed     *)
(* after five ones, the flag).                                             *)
(*                                                                         *)
(* Noise is any bit string, but for the bound NoiseStep sets: it does not  *)
(* by itself imitate a preamble and a whole start flag.  If the end of a   *)
(* burst was missed, the decoder goes on in ST_DATA with noise.            *)
(***************************************************************************)
EXTENDS Protodec, SdlcCrc

CONSTANTS
  Messages,      \* payloads, bit strings in the order of the AIS fields
  MaxBursts,     \* bound of the model: bursts on the air
  MaxFlips       \* bound of the model: bits of a burst that arrive inverted

VARIABLES
  air,           \* bits of the current burst not yet heard, <<>> in noise
  msg,           \* payload of the current or last burst
  bursts,        \* bursts begun
  flips,         \* bits of the current or last burst that were inverted
  start,         \* the decoder when the current burst began
  told           \* Len(out) when the current burst began

linkVars == <<air, msg, bursts, flips, start, told>>

-----------------------------------------------------------------------------
(* The transmitter.                                                        *)

Training == [i \in 1 .. 24 |-> (i + 1) % 2]
Flag     == <<0, 1, 1, 1, 1, 1, 1, 0>>

\* Each byte goes out with the bit of the lowest value first.
BytesReversed(bits) ==
  [i \in 1 .. Len(bits) |-> bits[8 * ((i - 1) \div 8) + 8 - ((i - 1) % 8)]]

\* A 0 after every five ones in a row.
StuffOne(acc, bit) ==
  LET ones == IF bit = 1 THEN acc.ones + 1 ELSE 0
  IN  IF ones = 5
        THEN [ones |-> 0, bits |-> acc.bits \o <<1, 0>>]
        ELSE [ones |-> ones, bits |-> Append(acc.bits, bit)]

\* What was sent after each of the bits, and the ones in a row at the end of it.
Stuffing(bits) ==
  LET acc[k \in 0 .. Len(bits)] ==
        IF k = 0 THEN [ones |-> 0, bits |-> <<>>] ELSE StuffOne(acc[k - 1], bits[k])
  IN  acc

Stuff(bits) == Stuffing(bits)[Len(bits)].bits

\* The payload and its frame check sequence.
Content(m) == BytesReversed(m) \o Fcs(BytesReversed(m))

Burst == [m \in Messages |-> Training \o Flag \o Stuff(Content(m)) \o Flag]

\* Payloads are whole bytes and fit the buffer; a burst trains longer than the
\* decoder hunts; the check that the decoder makes is that of the sender.
ASSUME LinkAssumption ==
  /\ ByteLen = 8
  /\ PreambleMin < Len(Training) - 2
  /\ \A m \in Messages :
       /\ m \in Seq(Bit)
       /\ Len(m) > 0 /\ Len(m) % ByteLen = 0
       /\ Len(m) + 2 * ByteLen + 6 < BufLimit
       /\ CrcOk(Content(m)) <=> SdlcCrcOk(Content(m))

-----------------------------------------------------------------------------

LinkInit ==
  /\ Init
  /\ air = <<>> /\ msg = <<>>
  /\ bursts = 0 /\ flips = 0
  /\ start = [state |-> state, nstartsign |-> nstartsign]
  /\ told = 0

NoiseStep ==
  /\ air = <<>>
  /\ \E b \in Bit : protodec_decode(b)
  /\ state # "DATA" => state' # "DATA"
  /\ UNCHANGED linkVars

\* The transmitter keys up; its first bit is heard in the same step.
BurstBegins ==
  /\ air = <<>> /\ bursts < MaxBursts
  /\ \E m \in Messages :
       /\ msg' = m
       /\ air' = Tail(Burst[m])
       /\ protodec_decode(Head(Burst[m]))
  /\ bursts' = bursts + 1
  /\ start' = [state |-> state, nstartsign |-> nstartsign]
  /\ told' = Len(out)
  /\ flips' = 0

BurstBit ==
  /\ air # <<>>
  /\ air' = Tail(air)
  /\ \/ /\ protodec_decode(Head(air))
        /\ UNCHANGED flips
     \/ /\ flips < MaxFlips
        /\ protodec_decode(1 - Head(air))
        /\ flips' = flips + 1
  /\ UNCHANGED <<msg, bursts, start, told>>

LinkNext == NoiseStep \/ BurstBegins \/ BurstBit

LinkSpec == LinkInit /\ [][LinkNext]_<<vars, linkVars>>

-----------------------------------------------------------------------------
(* Properties                                                              *)

Heard == Len(out) = told + 1 /\ out[Len(out)] = msg

(***************************************************************************)
(* A burst that arrives undamaged while the decoder hunts with a clear     *)
(* start flag counter (the state protodec_reset() makes) is handed over    *)
(* once, unstuffed, without flags or checksum, in field order.             *)
(***************************************************************************)
CleanBurstDelivered ==
  /\ bursts > 0 /\ air = <<>> /\ flips = 0
  /\ start = [state |-> "SKURR", nstartsign |-> 0]
  => Heard

(***************************************************************************)
(* A damaged bit never makes a wrong message: whatever is handed over is a *)
(* message that was sent, even if the bit breaks a flag, adds or removes   *)
(* a stuffed bit, or noise is taken for the rest of a frame.  Bits beyond  *)
(* the last whole byte, which protodec_calculate_crc() does not look at,   *)
(* may follow; they read as zeros.                                         *)
(***************************************************************************)
NothingInvented ==
  \A i \in DOMAIN out : \E m \in Messages :
    /\ Len(out[i]) - Len(m) \in 0 .. ByteLen - 1
    /\ \A k \in DOMAIN out[i] : out[i][k] = IF k <= Len(m) THEN m[k] ELSE 0

(***************************************************************************)
(* What the comments promise of ST_SKURR ("The state when no reasonable    *)
(* input is coming") and of nstartsign = 0 in ST_PREAMBLE ("Forste gang    *)
(* det skjer", the first time it happens): a whole undamaged burst that    *)
(* begins in ST_SKURR is received.                                         *)
(***************************************************************************)
HuntingBurstDelivered ==
  bursts > 0 /\ air = <<>> /\ flips = 0 /\ start.state = "SKURR" => Heard
=============================================================================
