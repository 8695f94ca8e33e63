--------------------------- MODULE SlidingWindow ----------------------------
(***************************************************************************)
(* What a FIR filter promises: the output is computed from the last        *)
(* FilterLength samples, oldest first, each counted once.  The sample that *)
(* is being written is not among them: the program's filter answers one    *)
(* sample late.                                                            *)
(***************************************************************************)
EXTENDS Integers

CONSTANTS FilterLength, Samples, Silence

VARIABLES
  window,     \* the last FilterLength samples, window[0] the oldest
  out         \* the samples the last output was computed from

Init ==
  /\ window = [i \in 0 .. FilterLength - 1 |-> Silence]
  /\ out = window

Shift(in) ==
  /\ out' = window
  /\ window' = [i \in 0 .. FilterLength - 1 |->
                  IF i = FilterLength - 1 THEN in ELSE window[i + 1]]

Next == \E in \in Samples : Shift(in)

Spec == Init /\ [][Next]_<<window, out>>
=============================================================================
