------------------------------- MODULE KeySet -------------------------------
(* What a search tree of keys is, seen from outside: a set of keys that    *)
(* changes by one key at a time, and that looking a key up leaves alone.   *)

CONSTANT Keys

VARIABLE keys

Init == keys = {}

Add(k)    == k \notin keys /\ keys' = keys \cup {k}
Remove(k) == k \in keys /\ keys' = keys \ {k}

Next == \E k \in Keys : Add(k) \/ Remove(k)

Spec == Init /\ [][Next]_keys
=============================================================================
