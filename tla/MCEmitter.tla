----------------------------- MODULE MCEmitter -----------------------------
(* Three subscribers and two values: one subscriber is dropped with an      *)
(* unread value while another has read it and waits for the next one.         *)
EXTENDS Emitter
=============================================================================
