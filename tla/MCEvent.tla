------------------------------- MODULE MCEvent -------------------------------
(* Three listeners, so that one can be skipped between two others; two tasks, *)
(* so that a listener can change hands; two values.                           *)
EXTENDS Event, TLC

Symmetry == Permutations(Listener) \cup Permutations(Task) \cup Permutations(Value)
=============================================================================
