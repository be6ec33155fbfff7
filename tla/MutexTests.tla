----------------------------- MODULE MutexTests -----------------------------
(***************************************************************************)
(* The tests of src/lock/mutex.rs as scripts for the model of AsyncMutex,  *)
(* in the form of EventTests.  A client has the name of the test's future  *)
(* or guard; a future that becomes a guard keeps its name, and so does a   *)
(* guard that is dropped at the end of its statement or block.  lock and   *)
(* lock_rc are the same call here, and what the mutex protects is left out.*)
(***************************************************************************)
EXTENDS AsyncMutex

locks(c) == <<"locks", c>>
pending(c) == <<"pending", c>>
drop(c) == <<"drop", c>>
forget(c) == <<"forget", c>>
woken_again(c) == <<"woken", c>>
not_woken(c) == <<"not_woken", c>>

\* A future that was never polled has no state to drop.
Forget(c) == state[c] = "idle" /\ UNCHANGED vars

Do(step) ==
    \/ step[1] = "locks" /\ (PollFirst(step[2]) \/ PollNotified(step[2]))
                         /\ step[2] \in Holding'
    \/ step[1] = "pending" /\ (PollFirst(step[2]) \/ PollNotified(step[2]) \/ PollPending(step[2]))
                           /\ step[2] \in Waiting'
    \/ step[1] = "drop" /\ (Unlock(step[2]) \/ DropFuture(step[2]))
    \/ step[1] = "forget" /\ Forget(step[2])
    \/ step[1] = "woken" /\ step[2] \in woken /\ UNCHANGED vars
    \/ step[1] = "not_woken" /\ step[2] \notin woken /\ UNCHANGED vars
-----------------------------------------------------------------------------
lock_succeeds_without_contention == <<locks("fut")>>

guard_allows_mutation_that_persists == <<locks("guard"), drop("guard"), locks("guard")>>

lock_is_pending_while_guard_is_alive ==
    <<locks("guard"), pending("second"), drop("guard")>>

lock_becomes_ready_and_wakes_after_guard_is_dropped ==
    <<locks("guard"), pending("second"), not_woken("second"), drop("guard"),
      woken_again("second"), locks("second")>>

lock_can_be_reacquired_repeatedly ==
    [i \in 1 .. 20 |-> IF i % 2 = 1 THEN locks("guard") ELSE drop("guard")]
        \o <<locks("guard")>>

dropping_a_pending_lock_future_does_not_hold_the_lock ==
    <<locks("guard"), pending("waiting"), drop("waiting"), drop("guard"), locks("_again")>>

dropping_a_never_polled_lock_future_is_harmless == <<forget("fut"), locks("_guard")>>

rc_lock_is_pending_while_locked_and_ready_after_release ==
    <<locks("guard"), pending("second"), drop("guard"), woken_again("second"),
      locks("second")>>

rc_and_borrowed_locks_exclude_each_other ==
    <<locks("rc_guard"), pending("borrowed"), drop("rc_guard"), locks("borrowed"),
      pending("rc")>>

waiters_acquire_the_lock_in_turn ==
    <<locks("first"), pending("second"), pending("third"), drop("first"),
      locks("second"), pending("third"), not_woken("third"), drop("second"),
      woken_again("third"), locks("third")>>

Tests ==
    {lock_succeeds_without_contention,
     guard_allows_mutation_that_persists,
     lock_is_pending_while_guard_is_alive,
     lock_becomes_ready_and_wakes_after_guard_is_dropped,
     lock_can_be_reacquired_repeatedly,
     dropping_a_pending_lock_future_does_not_hold_the_lock,
     dropping_a_never_polled_lock_future_is_harmless,
     rc_lock_is_pending_while_locked_and_ready_after_release,
     rc_and_borrowed_locks_exclude_each_other,
     waiters_acquire_the_lock_in_turn}
=============================================================================
