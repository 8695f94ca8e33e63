----------------------------- MODULE MCAisLink ------------------------------
(***************************************************************************)
(* The link with the decoder's real constants, but for the length of the   *)
(* buffer, and short payloads, chosen so that bits are stuffed inside, at  *)
(* the edges of and across bytes.                                          *)
(***************************************************************************)
EXTENDS AisLink

Bits8(n)  == [i \in 1 .. 8 |-> (n \div 2^(8 - i)) % 2]
ManyBytes == {Bits8(n) : n \in {4, 255}}
               \cup {Bits8(248) \o Bits8(31)}
TwoBytes  == {Bits8(255) \o Bits8(7), Bits8(4)}
=============================================================================
