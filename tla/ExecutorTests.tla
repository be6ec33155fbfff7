---------------------------- MODULE ExecutorTests ---------------------------
(***************************************************************************)
(* The tests of src/executor.rs as scripts for the model of Executor, in   *)
(* the form of EventTests.  Tasks are numbered in the order they are       *)
(* spawned, as the code does.  The script makes the calls of the test and  *)
(* those of its futures: after a call that runs tasks comes the poll it is *)
(* expected to make next, what the future does in it, and how it ends.     *)
(* The steps that no test can see are taken in between (Internal).         *)
(*                                                                         *)
(* The count of the event loop's wake-ups is read as "some" or "none".     *)
(* many_tasks_complete runs with MaxTasks tasks, and the threads of the    *)
(* test are two.  A waker that is used after the executor's end is used    *)
(* on another thread than Main.                                            *)
(***************************************************************************)
EXTENDS Executor

spawn(t) == <<"spawn", t>>
detach(t) == <<"detach", t>>
spawn_detached(t) == <<spawn(t), detach(t)>>
drop_handle(t) == <<"drop_handle", t>>
drop_executor == <<"drop_executor">>
process_tasks(n) == <<"process_tasks", n>>
all == MaxTasks                         \* usize::MAX; no queue is longer
tick(b) == <<"tick", b>>
block_on(t) == <<"block_on", t>>
wake(t) == <<"wake", t>>
wake_on(th, t) == <<"wake_on", t, th>>
polls(t) == <<"polls", t>>              \* task t is polled now
pending == <<"pending">>
ready == <<"ready">>
returns == <<"returns">>                \* no call is under way
panicked == <<"panicked">>
queue_len(n) == <<"queue_len", n>>
notified(b) == <<"notified", b>>
released(t) == <<"released", t>>        \* the future is dropped
kept(t) == <<"kept", t>>

\* The threads have joined, and Main is in the test's code or in a future's.
Settled ==
    /\ \A th \in Threads : call[th].pc = "idle"
    /\ loop \in {"gone", "panicked"} \/ (InCode /\ Phase # "drop")

Internal ==
    \/ \E th \in Threads : Schedule(th)
    \/ RunTask \/ EndDrop \/ Finish \/ TakeInbox \/ CancelAll

\* The call of process_tasks, which takes no more than there is.
Drain(n) ==
    LET k == IF n < Len(inbox) THEN n ELSE Len(inbox) IN
    IF k = 0 THEN UNCHANGED vars ELSE ProcessTasks(k)

Observe(step) ==
    /\ \/ step[1] = "polls" /\ Phase = "poll" /\ Top.task = step[2]
       \/ step[1] = "returns" /\ Phase = "loop"
       \/ step[1] = "panicked" /\ loop = "panicked"
       \/ step[1] = "queue_len" /\ Len(inbox) = step[2]
       \/ step[1] = "notified" /\ signal = step[2]
       \/ step[1] = "released" /\ slot[step[2]] = "absent"
       \/ step[1] = "kept" /\ slot[step[2]] = "idle"
    /\ UNCHANGED vars

Do(step) ==
    \/ step[1] = "wake_on" /\ CallWake(step[3], step[2])
    \/ /\ Settled
       /\ \/ step[1] = "spawn" /\ Spawn(step[2])
          \/ step[1] = "detach" /\ Detach(step[2])
          \/ step[1] = "drop_handle" /\ DropHandle(step[2])
          \/ step[1] = "drop_executor" /\ CloseExecutor
          \/ step[1] = "process_tasks" /\ Drain(step[2])
          \/ step[1] = "tick" /\ step[2] = (inbox # <<>>) /\ Drain(all)
          \/ step[1] = "block_on" /\ BlockOn(step[2])
          \/ step[1] = "wake" /\ CallWake(Main, step[2])
          \/ step[1] = "pending" /\ PollPending
          \/ step[1] = "ready" /\ PollReady
          \/ Observe(step)

\* The polls of a batch, each with what the future does in it.
polls_pending(t) == <<polls(t), pending>>
polls_ready(t) == <<polls(t), ready>>
yields(t) == <<polls(t), wake(t), pending>>
Each(Op(_), from, to) == FlattenSeq([i \in 1 .. to - from + 1 |-> Op(from + i - 1)])
-----------------------------------------------------------------------------
spawn_schedules_task_and_wakes_event_loop ==
    <<spawn(0), notified(TRUE), queue_len(1), detach(0), process_tasks(1)>>
        \o polls_ready(0) \o <<queue_len(0)>>

process_tasks_respects_count_limit ==
    Each(spawn_detached, 0, 1)
        \o <<process_tasks(1)>> \o polls_ready(0) \o <<queue_len(1)>>
        \o <<process_tasks(1)>> \o polls_ready(1) \o <<queue_len(0)>>

tasks_run_in_spawn_order ==
    Each(spawn_detached, 0, 2) \o <<process_tasks(3)>> \o Each(polls_ready, 0, 2)
        \o <<returns>>

\* An emit is the wake of the task that listens, as long as it does.
processing_tasks_allows_rescheduling_while_running ==
    <<notified(FALSE), spawn(0), process_tasks(1)>> \o polls_pending(0) \o <<queue_len(0)>>
        \o <<wake(0), queue_len(1), process_tasks(1)>> \o polls_pending(0) \o <<queue_len(0)>>
        \o <<wake(0), queue_len(1), process_tasks(1)>> \o polls_ready(0) \o <<queue_len(0)>>

spawn_does_not_poll_eagerly ==
    spawn_detached(0) \o <<returns, process_tasks(all)>> \o polls_ready(0)

new_executor_has_no_tasks ==
    <<queue_len(0), notified(FALSE), process_tasks(all), queue_len(0)>>

process_tasks_with_zero_count_does_nothing ==
    spawn_detached(0) \o <<process_tasks(0), returns, queue_len(1)>>

process_tasks_with_count_above_queue_len_runs_everything ==
    Each(spawn_detached, 0, 2) \o <<process_tasks(10)>> \o Each(polls_ready, 0, 2)
        \o <<queue_len(0)>>

each_spawn_wakes_event_loop_once ==
    <<notified(FALSE)>> \o Each(spawn_detached, 0, 4) \o <<notified(TRUE), queue_len(5)>>

dropping_handle_before_poll_cancels_task ==
    <<spawn(0), drop_handle(0), released(0), process_tasks(all), returns, queue_len(0)>>

dropping_handle_of_pending_task_drops_future ==
    <<spawn(0), process_tasks(all)>> \o polls_pending(0)
        \o <<kept(0), drop_handle(0), released(0), wake(0), queue_len(0)>>

detached_task_keeps_running_after_handle_is_gone ==
    spawn_detached(0) \o <<process_tasks(all)>> \o polls_pending(0)
        \o <<wake(0), queue_len(1), process_tasks(all)>> \o polls_ready(0) \o <<returns>>

held_handle_keeps_task_alive ==
    <<spawn(0), process_tasks(all)>> \o yields(0) \o <<process_tasks(all)>> \o yields(0)
        \o <<process_tasks(all)>> \o yields(0) \o <<process_tasks(all)>> \o polls_ready(0)
        \o <<queue_len(0), drop_handle(0)>>

future_is_dropped_on_completion ==
    <<spawn(0), process_tasks(all)>> \o polls_ready(0) \o <<released(0), drop_handle(0)>>

multiple_wakes_before_poll_queue_task_once ==
    spawn_detached(0) \o <<process_tasks(all)>> \o polls_pending(0)
        \o <<wake(0), wake(0), wake(0), queue_len(1), process_tasks(all)>>
        \o polls_pending(0) \o <<queue_len(0)>>

waking_completed_task_is_ignored ==
    spawn_detached(0) \o <<process_tasks(all)>> \o polls_ready(0)
        \o <<wake(0), wake(0), queue_len(0)>>

waker_outliving_executor_is_harmless ==
    spawn_detached(0) \o <<process_tasks(all)>> \o polls_pending(0)
        \o <<drop_executor, released(0), wake_on("w1", 0), wake_on("w1", 0), queue_len(0)>>

dropping_executor_releases_queued_futures ==
    spawn_detached(0) \o <<queue_len(1), drop_executor, released(0)>>

dropping_executor_releases_pending_futures_even_with_live_wakers ==
    spawn_detached(0) \o <<process_tasks(all)>> \o polls_pending(0)
        \o <<kept(0), drop_executor, released(0), wake_on("w1", 0)>>

dropping_wakers_does_not_release_detached_task ==
    spawn_detached(0) \o <<process_tasks(all)>> \o polls_pending(0)
        \o <<kept(0), drop_executor, released(0)>>

executor_drops_borrowing_futures_before_borrowed_data ==
    spawn_detached(0) \o <<process_tasks(all)>> \o polls_pending(0)
        \o <<kept(0), drop_executor, released(0)>>

waking_from_another_thread_runs_task_on_executor_thread ==
    spawn_detached(0) \o <<process_tasks(all)>> \o polls_pending(0)
        \o <<queue_len(0), wake_on("w1", 0), queue_len(1), notified(TRUE), process_tasks(all)>>
        \o polls_ready(0) \o <<returns>>

concurrent_wakes_from_many_threads_queue_task_once ==
    spawn_detached(0) \o <<process_tasks(all)>> \o polls_pending(0)
        \o <<wake_on("w1", 0), wake_on("w2", 0), wake_on("w2", 0), wake_on("w1", 0),
             queue_len(1), notified(TRUE)>>

waker_dropped_on_another_thread_after_executor_is_gone ==
    spawn_detached(0) \o <<process_tasks(all)>> \o polls_pending(0)
        \o <<drop_executor, released(0), wake_on("w1", 0), wake_on("w1", 0), queue_len(0)>>

stale_queue_entry_after_cancel_is_never_polled ==
    <<spawn(0), queue_len(1), drop_handle(0), queue_len(1), process_tasks(all), returns,
      queue_len(0)>>
        \o spawn_detached(1) \o <<process_tasks(all)>> \o polls_ready(1) \o <<returns>>

yielding_task_is_requeued_for_next_batch ==
    Each(spawn_detached, 0, 1)
        \o <<process_tasks(all)>> \o yields(0) \o polls_ready(1) \o <<returns, queue_len(1)>>
        \o <<process_tasks(all)>> \o polls_ready(0) \o <<queue_len(0)>>

yielding_tasks_interleave_round_robin ==
    LET batch == <<process_tasks(all)>> \o Each(yields, 0, 2) IN
    Each(spawn_detached, 0, 2) \o batch \o batch \o batch
        \o <<process_tasks(all)>> \o Each(polls_ready, 0, 2) \o <<queue_len(0)>>

task_spawned_while_processing_runs_in_next_batch ==
    spawn_detached(0) \o <<process_tasks(all), polls(0)>> \o spawn_detached(1)
        \o <<ready, returns, queue_len(1), process_tasks(all)>> \o polls_ready(1)

cancelling_queued_task_from_another_task_skips_it ==
    spawn_detached(0) \o <<spawn(1), process_tasks(all), polls(0), drop_handle(1), ready,
                           returns, queue_len(0)>>

task_can_cancel_itself_while_running ==
    <<spawn(0), process_tasks(all), polls(0), drop_handle(0), wake(0), pending,
      returns, released(0), queue_len(0)>>

cloned_executors_share_the_queue ==
    spawn_detached(0) \o <<queue_len(1), process_tasks(all)>> \o polls_ready(0)
        \o <<queue_len(0), notified(TRUE)>>

tick_reports_whether_work_was_done ==
    <<tick(FALSE)>> \o spawn_detached(0) \o <<tick(TRUE)>> \o yields(0)
        \o <<tick(TRUE)>> \o polls_ready(0) \o <<tick(FALSE)>>

block_on_runs_future_to_completion ==
    <<block_on(0)>> \o Each(LAMBDA i : yields(0), 1, 5) \o polls_ready(0)
        \o <<returns, queue_len(0)>>

block_on_drives_nested_spawns ==
    <<block_on(0), polls(0)>> \o Each(spawn_detached, 1, 3) \o <<ready>>
        \o Each(yields, 1, 3) \o Each(polls_ready, 1, 3) \o <<returns, queue_len(0)>>

block_on_also_drives_previously_spawned_tasks ==
    spawn_detached(0) \o <<block_on(1)>> \o Each(polls_ready, 0, 1) \o <<returns>>

block_on_returns_future_output ==
    <<block_on(0)>> \o yields(0) \o polls_ready(0) \o <<returns>>

block_on_waits_for_wake_from_another_task ==
    spawn_detached(0) \o <<block_on(1)>> \o yields(0) \o polls_pending(1)
        \o <<polls(0), wake(1), ready>> \o polls_ready(1) \o <<returns, queue_len(0)>>

block_on_panics_when_future_can_never_complete ==
    <<block_on(0)>> \o polls_pending(0) \o <<panicked>>

executor_can_run_futures_borrowing_local_data ==
    <<block_on(0)>> \o Each(LAMBDA i : yields(0), 1, 4) \o polls_ready(0)
        \o <<returns, drop_executor>>

oneshot_channel_wakes_waiting_task ==
    spawn_detached(0) \o <<process_tasks(all)>> \o polls_pending(0)
        \o <<queue_len(0), wake(0), process_tasks(all)>> \o polls_ready(0) \o <<queue_len(0)>>

many_tasks_complete ==
    LET last == MaxTasks - 1 IN
    Each(spawn_detached, 0, last) \o <<process_tasks(all)>> \o Each(yields, 0, last)
        \o <<returns, process_tasks(all)>> \o Each(polls_ready, 0, last) \o <<queue_len(0)>>

Tests ==
    {spawn_schedules_task_and_wakes_event_loop,
     process_tasks_respects_count_limit,
     tasks_run_in_spawn_order,
     processing_tasks_allows_rescheduling_while_running,
     spawn_does_not_poll_eagerly,
     new_executor_has_no_tasks,
     process_tasks_with_zero_count_does_nothing,
     process_tasks_with_count_above_queue_len_runs_everything,
     each_spawn_wakes_event_loop_once,
     dropping_handle_before_poll_cancels_task,
     dropping_handle_of_pending_task_drops_future,
     detached_task_keeps_running_after_handle_is_gone,
     held_handle_keeps_task_alive,
     future_is_dropped_on_completion,
     multiple_wakes_before_poll_queue_task_once,
     waking_completed_task_is_ignored,
     waker_outliving_executor_is_harmless,
     dropping_executor_releases_queued_futures,
     dropping_executor_releases_pending_futures_even_with_live_wakers,
     dropping_wakers_does_not_release_detached_task,
     executor_drops_borrowing_futures_before_borrowed_data,
     waking_from_another_thread_runs_task_on_executor_thread,
     concurrent_wakes_from_many_threads_queue_task_once,
     waker_dropped_on_another_thread_after_executor_is_gone,
     stale_queue_entry_after_cancel_is_never_polled,
     yielding_task_is_requeued_for_next_batch,
     yielding_tasks_interleave_round_robin,
     task_spawned_while_processing_runs_in_next_batch,
     cancelling_queued_task_from_another_task_skips_it,
     task_can_cancel_itself_while_running,
     cloned_executors_share_the_queue,
     tick_reports_whether_work_was_done,
     block_on_runs_future_to_completion,
     block_on_drives_nested_spawns,
     block_on_also_drives_previously_spawned_tasks,
     block_on_returns_future_output,
     block_on_waits_for_wake_from_another_task,
     block_on_panics_when_future_can_never_complete,
     executor_can_run_futures_borrowing_local_data,
     oneshot_channel_wakes_waiting_task,
     many_tasks_complete}
=============================================================================
