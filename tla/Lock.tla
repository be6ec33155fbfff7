-------------------------------- MODULE Lock --------------------------------
(***************************************************************************)
(* What the mutex and the reader-writer lock promise: guards are given and *)
(* returned one at a time; a write guard is given when there is no guard   *)
(* at all, a read guard when there is no write guard.                      *)
(***************************************************************************)
CONSTANT Client

VARIABLE holds          \* the guard each client holds: "none", "read" or "write"

Init == holds = [c \in Client |-> "none"]

Acquire(c, m) ==
    /\ holds[c] = "none"
    /\ \A d \in Client : holds[d] = "none" \/ (holds[d] = "read" /\ m = "read")
    /\ holds' = [holds EXCEPT ![c] = m]

Release(c) ==
    /\ holds[c] # "none"
    /\ holds' = [holds EXCEPT ![c] = "none"]

Next == \E c \in Client : Acquire(c, "read") \/ Acquire(c, "write") \/ Release(c)

Spec == Init /\ [][Next]_holds
=============================================================================
