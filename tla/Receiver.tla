------------------------------ MODULE Receiver ------------------------------
(***************************************************************************)
(* The bit clock of a channel: the loop of receiver_run() in               *)
(* src/src/receiver.c, one step per filtered sample.  A digital PLL slices *)
(* the signal about every SamplesPerBit samples; an edge of the signal     *)
(* pulls the phase by pllinc / INC so that slices fall between edges.      *)
(* A sliced bit is NRZI decoded and fed to protodec_decode(); fed is what  *)
(* the last sample fed, None if it was not a slice.                        *)
(***************************************************************************)
EXTENDS Integers

CONSTANTS
  Full,            \* 0x10000: the phase of a whole bit
  SamplesPerBit,   \* 5: 48000 samples, 9600 bits in a second
  INC,             \* 16
  None

ASSUME ReceiverAssumption ==
  /\ Full \in Nat /\ SamplesPerBit \in Nat \ {0} /\ INC \in Nat \ {0}
  /\ None \notin {0, 1}

VARIABLES
  pll,             \* rx->pll
  prev,            \* rx->prev, the sign of the previous sample
  lastbit,         \* rx->lastbit, the bit of the previous slice
  fed,             \* history: what the last sample fed to the decoder
  since            \* history: samples since the last slice

rxVars == <<pll, prev, lastbit, fed, since>>

Level  == {0, 1}
pllinc == Full \div SamplesPerBit
PullWhole == pllinc            \* mutant: an edge pulls by a whole sample
Pull      == pllinc \div INC

RxInit ==
  /\ pll = 0
  /\ prev = 0
  /\ lastbit = 0
  /\ fed = None
  /\ since = 0

\* Mutant: the pull has the same sign in both halves of the bit.
EdgePulledOneWay(curr) == IF curr # prev THEN pll + Pull ELSE pll

\* The phase after an edge, if this sample is one, has pulled it.
EdgePulled(curr) ==
  IF curr # prev
    THEN IF pll < Full \div 2 THEN pll + Pull ELSE pll - Pull
    ELSE pll

\* A slice: NRZI, no change of the level is a 1; the phase overflow is kept.
Slice(curr) ==
  /\ fed' = IF curr = lastbit THEN 1 ELSE 0
  /\ lastbit' = curr
  /\ pll' = (EdgePulled(curr) + pllinc) % Full
  /\ since' = 0

RxSample(curr) ==
  /\ prev' = curr
  /\ IF EdgePulled(curr) + pllinc > Full - 1
       THEN Slice(curr)
       ELSE /\ pll' = EdgePulled(curr) + pllinc
            /\ since' = since + 1
            /\ fed' = None
            /\ UNCHANGED lastbit

RxNext == \E curr \in Level : RxSample(curr)

RxSpec == RxInit /\ [][RxNext]_rxVars

-----------------------------------------------------------------------------
(* Properties, for an arbitrary signal                                     *)

\* The samples counted from slice to slice, this one included.
Earliest == SamplesPerBit - 1
Latest   == SamplesPerBit + 1

(***************************************************************************)
(* The phase stays a phase (rx->pll is unsigned: a pull below zero would   *)
(* wrap it) and the history stays bounded.                                 *)
(***************************************************************************)
RxTypeOK ==
  /\ pll \in 0 .. Full - 1
  /\ prev \in Level /\ lastbit \in Level
  /\ fed \in Level \cup {None}
  /\ since \in 0 .. Latest - 1

(***************************************************************************)
(* Whatever the signal, noise included, a bit comes out at least every six *)
(* samples and never within three of the one before: edges in every sample *)
(* can neither stop the bit clock nor make it run away.                    *)
(***************************************************************************)
SliceSpacing ==
  [][fed' # None => since + 1 \in Earliest .. Latest]_rxVars
=============================================================================
