------------------------------ MODULE SdlcCrc -------------------------------
(***************************************************************************)
(* protodec_sdlc_crc(): the CRC-16 of SDLC over a string of bits, and the  *)
(* check protodec_calculate_crc() makes with it.  The register is kept as  *)
(* its sixteen bits, crc[0] the one that the code shifts out first.  The   *)
(* code packs the bits of d->buffer into bytes and takes the bits of each  *)
(* byte out again in the same order, so that a byte is eight steps here.   *)
(***************************************************************************)
EXTENDS Integers, Sequences

Xor(a, b) == (a + b) % 2

Poly == {3, 10, 15}                   \* 0x8408, the bits that are one

CrcStep(crc, bit) ==
  LET feedback == Xor(crc[0], bit)
      shifted(i) == IF i = 15 THEN 0 ELSE crc[i + 1]
  IN  [i \in 0 .. 15 |-> IF i \in Poly THEN Xor(shifted(i), feedback) ELSE shifted(i)]

\* The register after the bits, starting from 0xffff.
Register(bits) ==
  LET after[k \in 0 .. Len(bits)] ==
        IF k = 0 THEN [i \in 0 .. 15 |-> 1] ELSE CrcStep(after[k - 1], bits[k])
  IN  after[Len(bits)]

protodec_sdlc_crc(bits) ==
  LET crc == Register(bits) IN [i \in 0 .. 15 |-> 1 - crc[i]]

Good == {0, 1, 2, 6, 8, 9, 10, 11}    \* 0x0f47, the bits that are one

\* return (crc == 0x0f47)
SdlcCrcOk(bits) ==
  protodec_sdlc_crc(bits) = [i \in 0 .. 15 |-> IF i \in Good THEN 1 ELSE 0]

\* What the sender appends so that the check holds.
Fcs(bits) ==
  LET crc == protodec_sdlc_crc(bits) IN [i \in 1 .. 16 |-> crc[i - 1]]
=============================================================================
