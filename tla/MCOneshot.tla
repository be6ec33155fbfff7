------------------------------ MODULE MCOneshot ------------------------------
(* Two channels whose receivers two tasks may await, together or each alone,  *)
(* and hand to one another.                                                   *)
EXTENDS Oneshot
=============================================================================
