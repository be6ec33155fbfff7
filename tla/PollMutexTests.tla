--------------------------- MODULE PollMutexTests ---------------------------
(***************************************************************************)
(* The tests of src/poll_lock.rs as scripts for the model of PollMutex, in *)
(* the form of EventTests.  The poller is the poll mutex or the sink of    *)
(* the test; a client has the name of a guard or a future, "tmp" if it has *)
(* none in the test.  Items are numbered in the order they are sent.  How  *)
(* often the inner sink was flushed or closed is left out.                 *)
(***************************************************************************)
EXTENDS PollMutex

locks(c) == <<"locks", c>>              \* block_on(lock()), or a poll that is ready
pending(c) == <<"pending", c>>
drop(c) == <<"drop", c>>
poll_lock_ready(c) == <<"poll_lock_ready", c>>
poll_pending == <<"poll_pending">>      \* the mutex is held
poll_ready == <<"poll_ready">>
poll_flush == <<"poll_flush">>          \* poll_close does the same to lock and slot
inner_blocked == <<"inner_blocked">>    \* a poll_ready that meets a full inner sink
start_send == <<"start_send">>
items(seq) == <<"items", seq>>
wakes == <<"wakes">>
no_wakes == <<"no_wakes">>

\* The poll of the sink that forwards the item in its slot, if there is one.
Flush == PollSink /\ slot' = 0 /\ UNCHANGED failed

Do(step) ==
    \/ step[1] = "locks" /\ LockUser(step[2]) /\ step[2] \in Holding'
    \/ step[1] = "pending" /\ LockUser(step[2]) /\ step[2] \in Waiting'
    \/ step[1] = "drop" /\ DropGuard(step[2])
    \/ step[1] = "poll_lock_ready" /\ PollLockReady(step[2])
    \/ step[1] = "poll_pending" /\ PollLockPending
    \/ step[1] = "poll_ready" /\ IF slot = 0 THEN UNCHANGED pollVars ELSE Flush
    \/ step[1] = "poll_flush" /\ Flush
    \/ step[1] = "inner_blocked" /\ slot # 0 /\ PollSink /\ UNCHANGED slot
    \/ step[1] = "start_send" /\ StartSend
    \/ step[1] = "items" /\ inner = step[2] /\ UNCHANGED pollVars
    \/ step[1] = "wakes" /\ Poller \in woken /\ UNCHANGED pollVars
    \/ step[1] = "no_wakes" /\ Poller \notin woken /\ UNCHANGED pollVars
-----------------------------------------------------------------------------
lock_returns_the_initial_value == <<locks("tmp"), drop("tmp")>>

lock_guard_mutations_persist ==
    <<locks("tmp"), drop("tmp"), locks("tmp"), drop("tmp")>>

poll_lock_is_ready_when_uncontended == <<poll_lock_ready("guard")>>

poll_lock_is_pending_while_the_lock_is_held ==
    <<locks("held"), poll_pending, drop("held")>>

poll_lock_wakes_and_completes_after_release ==
    <<locks("held"), poll_pending, no_wakes, drop("held"), wakes,
      poll_lock_ready("guard")>>

poll_lock_can_be_used_repeatedly ==
    [i \in 1 .. 6 |-> IF i % 2 = 1 THEN poll_lock_ready("guard") ELSE drop("guard")]
        \o <<poll_lock_ready("guard")>>

poll_lock_guard_excludes_other_lockers ==
    <<poll_lock_ready("guard"), pending("other"), drop("guard"), locks("other")>>

lock_exposes_the_inner_sink == <<locks("tmp"), items(<<>>), drop("tmp")>>

poll_ready_is_ready_when_no_item_is_buffered ==
    <<poll_ready, locks("tmp"), items(<<>>), drop("tmp")>>

start_send_buffers_the_item_without_touching_the_inner_sink ==
    <<start_send, locks("tmp"), items(<<>>), drop("tmp")>>

poll_ready_flushes_the_buffered_item_into_the_inner_sink ==
    <<start_send, poll_ready, locks("tmp"), items(<<1>>), drop("tmp")>>

items_are_forwarded_in_order ==
    [i \in 1 .. 6 |-> IF i % 2 = 1 THEN poll_ready ELSE start_send]
        \o <<poll_flush, locks("tmp"), items(<<1, 2, 3>>), drop("tmp")>>

poll_ready_is_pending_while_the_inner_sink_is_not_ready ==
    <<start_send, inner_blocked, locks("tmp"), items(<<>>), drop("tmp"),
      locks("tmp"), drop("tmp"), poll_ready, locks("tmp"), items(<<1>>), drop("tmp")>>

poll_flush_forwards_buffered_item_and_flushes_inner ==
    <<start_send, poll_flush, locks("inner"), items(<<1>>)>>

poll_flush_without_buffered_item_still_flushes_inner ==
    <<poll_flush, locks("inner"), items(<<>>)>>

poll_close_forwards_buffered_item_and_closes_inner ==
    <<start_send, poll_flush, locks("inner"), items(<<1>>)>>

poll_flush_is_pending_while_the_inner_lock_is_held_elsewhere ==
    <<locks("held"), poll_pending, no_wakes, drop("held"), wakes, poll_flush>>

poll_lock_on_the_sink_waits_for_the_inner_lock ==
    <<locks("held"), poll_pending, drop("held"), poll_lock_ready("tmp")>>

sink_lock_future_is_independent_of_poll_state == <<locks("lock")>>

Tests ==
    {lock_returns_the_initial_value,
     lock_guard_mutations_persist,
     poll_lock_is_ready_when_uncontended,
     poll_lock_is_pending_while_the_lock_is_held,
     poll_lock_wakes_and_completes_after_release,
     poll_lock_can_be_used_repeatedly,
     poll_lock_guard_excludes_other_lockers,
     lock_exposes_the_inner_sink,
     poll_ready_is_ready_when_no_item_is_buffered,
     start_send_buffers_the_item_without_touching_the_inner_sink,
     poll_ready_flushes_the_buffered_item_into_the_inner_sink,
     items_are_forwarded_in_order,
     poll_ready_is_pending_while_the_inner_sink_is_not_ready,
     poll_flush_forwards_buffered_item_and_flushes_inner,
     poll_flush_without_buffered_item_still_flushes_inner,
     poll_close_forwards_buffered_item_and_closes_inner,
     poll_flush_is_pending_while_the_inner_lock_is_held_elsewhere,
     poll_lock_on_the_sink_waits_for_the_inner_lock,
     sink_lock_future_is_independent_of_poll_state}
=============================================================================
