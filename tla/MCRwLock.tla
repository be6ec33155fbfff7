------------------------------ MODULE MCRwLock ------------------------------
(* Four clients: the holder, and three waiters with a writer between two      *)
(* readers or a reader between two writers.                                   *)
EXTENDS RwLock
=============================================================================
