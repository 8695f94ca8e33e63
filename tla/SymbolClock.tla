---------------------------- MODULE SymbolClock -----------------------------
(***************************************************************************)
(* The bit clock on a signal: noise of any length, then symbols of exactly *)
(* SamplesPerBit samples each, with at most MaxEqual symbols of the same   *)
(* level in a row (bit stuffing and the flag bound the ones, which NRZI    *)
(* sends as no change).  The transmitter is external; filter and noise are *)
(* abstracted to the sign of each sample.                                  *)
(***************************************************************************)
EXTENDS Receiver

CONSTANT MaxEqual    \* 7: symbols of one level, six ones after a change

VARIABLES
  pos,       \* samples of the current symbol already heard, 0 in noise
  sym,       \* level of the current symbol
  equal,     \* symbols in a row with this level
  edged,     \* has the level changed since the symbols began?
  got        \* slices taken in the current symbol

clockVars == <<pos, sym, equal, edged, got>>

ClockInit ==
  /\ RxInit
  /\ pos = 0 /\ sym = 0 /\ equal = 0
  /\ edged = FALSE
  /\ got = 0

Sliced == IF fed' = None THEN 0 ELSE 1

NoiseSample ==
  /\ equal = 0
  /\ RxNext
  /\ UNCHANGED clockVars

\* The first sample of a symbol.
SymbolBegins ==
  /\ equal = 0 \/ pos = SamplesPerBit
  /\ \E s \in Level :
       /\ equal > 0 /\ s = sym => equal < MaxEqual
       /\ RxSample(s)
       /\ sym' = s
       /\ equal' = IF equal > 0 /\ s = sym THEN equal + 1 ELSE 1
       /\ edged' = (edged \/ (equal > 0 /\ s # sym))
  /\ pos' = 1
  /\ got' = Sliced

SymbolGoesOn ==
  /\ equal > 0 /\ pos < SamplesPerBit
  /\ RxSample(sym)
  /\ pos' = pos + 1
  /\ got' = got + Sliced
  /\ UNCHANGED <<sym, equal, edged>>

ClockNext == NoiseSample \/ SymbolBegins \/ SymbolGoesOn

ClockSpec == ClockInit /\ [][ClockNext]_<<rxVars, clockVars>>

-----------------------------------------------------------------------------

(***************************************************************************)
(* No bit is dropped or doubled: from the first change of level on, every  *)
(* symbol is sliced exactly once, with its own level, wherever the noise   *)
(* left the phase, and through runs without an edge, in which the phase    *)
(* drifts because pllinc is rounded down.                                  *)
(***************************************************************************)
OneBitPerSymbol ==
  edged /\ pos = SamplesPerBit => got = 1 /\ lastbit = sym
=============================================================================
