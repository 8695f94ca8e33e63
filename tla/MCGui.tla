------------------------------- MODULE MCGui --------------------------------
EXTENDS Gui, TLC

\* Ships and positions are compared with each other only.
Symmetry == Permutations(Ships) \cup Permutations(Positions)
=============================================================================
