----------------------------- MODULE MCExecutor -----------------------------
(* Two tasks and one other thread: the thread's wake-ups meet every step of   *)
(* Main, a task wakes, spawns, cancels and detaches another one or itself.    *)
EXTENDS Executor
=============================================================================
