------------------------------ MODULE RunQueue ------------------------------
(***************************************************************************)
(* What the executor promises of its tasks, without its flags, slots,      *)
(* inbox and threads.  A woken task stays ready until it is run, and being *)
(* woken again changes nothing; a run begins only for a ready task that is *)
(* not running already and not done.  Nothing runs once the executor is    *)
(* shut, and its end leaves no task undone.                                *)
(***************************************************************************)
CONSTANTS Task, Call

VARIABLES spawned,      \* the tasks there are
          done,         \* those that have finished or been canceled
          ready,        \* those that are queued
          running,      \* the runs: the call that polls and the task that is polled
          shut          \* the executor is being dropped

runVars == <<spawned, done, ready, running, shut>>

Calling == {r[1] : r \in running}
Polled == {r[2] : r \in running}

Init ==
    /\ spawned = {} /\ done = {} /\ ready = {} /\ running = {}
    /\ shut = FALSE

Spawn(t) ==
    /\ ~shut /\ t \notin spawned
    /\ spawned' = spawned \cup {t}
    /\ UNCHANGED <<done, ready, running, shut>>

Wake(t) ==
    /\ t \in spawned \ ready
    /\ ready' = ready \cup {t}
    /\ UNCHANGED <<spawned, done, running, shut>>

Run(c, t) ==
    /\ ~shut
    /\ c \notin Calling
    /\ t \in ready \ (Polled \cup done)
    /\ running' = running \cup {<<c, t>>}
    /\ ready' = ready \ {t}
    /\ UNCHANGED <<spawned, done, shut>>

\* A task that is done or being polled has its turn without being run.
Skip(t) ==
    /\ t \in ready \cap (Polled \cup done)
    /\ ready' = ready \ {t}
    /\ UNCHANGED <<spawned, done, running, shut>>

Pend(c, t) ==
    /\ <<c, t>> \in running
    /\ running' = running \ {<<c, t>>}
    /\ UNCHANGED <<spawned, done, ready, shut>>

Complete(c, t) ==
    /\ <<c, t>> \in running
    /\ running' = running \ {<<c, t>>}
    /\ done' = done \cup {t}
    /\ UNCHANGED <<spawned, ready, shut>>

Cancel(t) ==
    /\ t \in spawned
    /\ done' = done \cup {t}
    /\ UNCHANGED <<spawned, ready, running, shut>>

Shut ==
    /\ ~shut /\ running = {}
    /\ shut' = TRUE
    /\ UNCHANGED <<spawned, done, ready, running>>

\* The end drops entries, then cancels every task.
Forget ==
    /\ shut
    /\ ready' \subseteq ready
    /\ UNCHANGED <<spawned, done, running, shut>>

CancelAll ==
    /\ shut
    /\ done' = spawned
    /\ UNCHANGED <<spawned, ready, running, shut>>

Next ==
    \/ \E t \in Task : \/ Spawn(t) \/ Wake(t) \/ Skip(t) \/ Cancel(t)
                       \/ \E c \in Call : Run(c, t) \/ Pend(c, t) \/ Complete(c, t)
    \/ Shut \/ Forget \/ CancelAll

Spec == Init /\ [][Next]_runVars
=============================================================================
