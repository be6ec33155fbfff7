--------------------------- MODULE MCEventTargets ---------------------------
(* Three subscribers of each kind of target; one of them is the waiter.      *)
EXTENDS EventTargets

=============================================================================
