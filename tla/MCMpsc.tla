------------------------------- MODULE MCMpsc -------------------------------
(* Three producers: two blocked and one that fills the queue again.  The      *)
(* capacities are zero, one, and one that is freed in two steps.              *)
EXTENDS Mpsc
=============================================================================
