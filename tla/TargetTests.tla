----------------------------- MODULE TargetTests ----------------------------
(***************************************************************************)
(* The tests of streams (src/event.rs), emitters, observable cells and     *)
(* wait groups, as scripts for the model of EventTargets, in the form of   *)
(* EventTests.  The values of an emitter are numbered in the order they    *)
(* are emitted.  A Listener is its stream, which is dropped when the       *)
(* callback has returned false; a run of the TestSpawner polls the streams *)
(* of its tasks until they are pending.                                    *)
(***************************************************************************)
EXTENDS EventTargets

new == Initial                          \* the value a cell starts with, and two others
changed == CHOOSE v \in Value : v # new
changed_again == CHOOSE v \in Value : v \notin {new, changed}

subscribe(s) == <<"subscribe", s>>
pending(s) == <<"pending", s>>
ready(s, n) == <<"ready", s, n>>        \* Ready(Some(..)), with the n-th notification
ended(s) == <<"ended", s>>              \* Ready(None)
unsubscribe(s) == <<"unsubscribe", s>>
wakes(s) == <<"wakes", s>>
no_wakes(s) == <<"no_wakes", s>>
emit == <<"emit">>
drop_handle == <<"drop_handle">>
upgrade == <<"upgrade">>
no_upgrade == <<"no_upgrade">>
set(v) == <<"set", v>>
get(v) == <<"get", v>>
borrow == <<"borrow">>
drop_ref == <<"drop_ref">>
no_borrow == <<"no_borrow">>            \* try_borrow is None, borrow panics
borrow_mut == <<"borrow_mut">>
write == <<"write">>                    \* through the guard
drop_guard == <<"drop_guard">>
no_borrow_mut == <<"no_borrow_mut">>
add == <<"add">>
drop_ticket == <<"drop_ticket">>
len(n) == <<"len", n>>
wait_pending == <<"wait_pending">>
wait_ready == <<"wait_ready">>
drop_wait == <<"drop_wait">>

\* A finished stream answers None again; wait() without a ticket returns at once.
EndedBefore(s) == stream[s] = "done" /\ UNCHANGED targetVars
NothingToWaitFor == stream[Waiter] = "none" /\ tickets = 0 /\ UNCHANGED targetVars

OfStreams(step) ==
    \/ step[1] = "subscribe" /\ SubscribeCell(step[2])
    \/ step[1] = "pending" /\ PollCell(step[2]) /\ stream'[step[2]] = "listening"
    \/ step[1] = "ready" /\ Observe(step[2]) /\ ev.value[step[2]] = step[3]
    \/ step[1] = "ended" /\ PollCell(step[2]) /\ stream'[step[2]] = "done"
    \/ step[1] = "unsubscribe" /\ DropObserver(step[2])
    \/ step[1] = "drop_handle" /\ DropHandle

OfCells(step) ==
    \/ step[1] = "emit" /\ EmitterNext
    \/ step[1] = "upgrade" /\ UpgradeHandle
    \/ step[1] = "set" /\ Set(step[2])
    \/ step[1] = "borrow" /\ Borrow
    \/ step[1] = "drop_ref" /\ DropRef
    \/ step[1] = "borrow_mut" /\ BorrowMut
    \/ step[1] = "write" /\ DerefMut
    \/ step[1] = "drop_guard" /\ DropGuard

OfWaitGroup(step) ==
    \/ step[1] = "add" /\ Add
    \/ step[1] = "drop_ticket" /\ DropTicket
    \/ step[1] = "wait_pending" /\ (WaitFirst \/ PollWaiter) /\ stream'[Waiter] = "listening"
    \/ step[1] = "wait_ready" /\ PollWaiter /\ stream'[Waiter] = "none"
    \/ step[1] = "drop_wait" /\ DropWait

\* The steps that change nothing: an outcome that is asserted, or a call that
\* has no effect.
Holds(step) ==
    \/ step[1] = "wakes" /\ step[2] \notin asleep
    \/ step[1] = "no_wakes" /\ step[2] \in asleep
    \/ step[1] = "get" /\ value = step[2]
    \/ step[1] = "set" /\ value = step[2]
    \/ step[1] = "no_borrow" /\ guard # "none"
    \/ step[1] = "no_borrow_mut" /\ (guard # "none" \/ refs > 0)
    \/ step[1] = "no_upgrade" /\ strong = 0
    \/ step[1] = "write" /\ guard = "mutated"
    \/ step[1] = "len" /\ tickets = step[2]

Do(step) ==
    \/ (OfStreams(step) \/ OfCells(step)) /\ UNCHANGED <<tickets, kind>>
    \/ OfWaitGroup(step) /\ UNCHANGED <<cellVars, kind>>
    \/ step[1] = "ended" /\ EndedBefore(step[2])
    \/ step[1] = "wait_ready" /\ NothingToWaitFor
    \/ Holds(step) /\ UNCHANGED targetVars
-----------------------------------------------------------------------------
(* The streams of an event; an emitter notifies as these tests do.           *)

stream_is_pending_until_notified_and_then_yields ==
    <<subscribe("stream"), pending("stream"), emit, ready("stream", 1)>>

stream_resubscribes_after_each_item ==
    <<subscribe("stream"), emit, ready("stream", 1), pending("stream"),
      emit, ready("stream", 2), pending("stream"), emit, ready("stream", 3), pending("stream")>>

stream_yields_typed_values ==
    <<subscribe("stream"), emit, ready("stream", 1), pending("stream"), emit,
      ready("stream", 2)>>

multiple_streams_each_receive_broadcasts ==
    <<subscribe("first"), subscribe("second"), emit, ready("first", 1), ready("second", 1)>>

stream_ends_once_the_event_is_dropped ==
    <<subscribe("stream"), emit, ready("stream", 1), drop_handle, ended("stream"),
      ended("stream")>>

waiting_stream_ends_when_the_event_is_dropped ==
    <<subscribe("stream"), pending("stream"), drop_handle, ended("stream")>>

(* Emitter                                                                   *)

emitted_value_reaches_single_subscriber ==
    <<subscribe("stream"), pending("stream"), emit, ready("stream", 1)>>

emitted_value_is_broadcast_to_all_subscribers ==
    <<subscribe("first"), subscribe("second"), emit, ready("first", 1), ready("second", 1)>>

listener_stops_once_callback_returns_false ==
    <<subscribe("stream"), pending("stream"), emit, ready("stream", 1), pending("stream"),
      emit, ready("stream", 2), unsubscribe("stream")>>

stream_finishes_after_emitter_is_dropped ==
    <<subscribe("stream"), emit, drop_handle, ready("stream", 1), ended("stream")>>

subscriber_is_pending_until_a_value_is_emitted ==
    <<subscribe("stream"), pending("stream"), emit, ready("stream", 1)>>

emit_wakes_waiting_subscriber ==
    <<subscribe("stream"), pending("stream"), no_wakes("stream"), emit, wakes("stream")>>

every_subscriber_receives_a_clone_of_the_value ==
    <<subscribe("first"), subscribe("second"), emit, ready("first", 1), ready("second", 1)>>

emit_without_subscribers_is_a_noop == <<emit, subscribe("late"), pending("late")>>

values_emitted_before_subscribing_are_not_replayed ==
    <<emit, subscribe("stream"), emit, ready("stream", 2)>>

stream_yields_successive_values_in_order ==
    <<subscribe("stream"), emit, ready("stream", 1), pending("stream"),
      emit, ready("stream", 2), pending("stream"), emit, ready("stream", 3), pending("stream"),
      emit, ready("stream", 4), pending("stream"), emit, ready("stream", 5), pending("stream")>>

dropped_subscriber_does_not_disturb_the_others ==
    <<subscribe("first"), subscribe("second"), unsubscribe("first"), emit, ready("second", 1)>>

stream_ends_after_emitter_is_dropped ==
    <<subscribe("stream"), emit, ready("stream", 1), drop_handle, ended("stream"),
      ended("stream")>>

waiting_stream_ends_when_emitter_is_dropped ==
    <<subscribe("stream"), pending("stream"), drop_handle, ended("stream")>>

subscribe_once_resolves_with_the_first_value ==
    <<subscribe("stream"), pending("stream"), emit, ready("stream", 1), unsubscribe("stream")>>

subscribe_once_works_with_block_on ==
    <<subscribe("stream"), emit, ready("stream", 1), unsubscribe("stream")>>

listener_is_pending_while_the_stream_is_idle ==
    <<subscribe("stream"), pending("stream"), emit, ready("stream", 1), pending("stream"),
      emit, ready("stream", 2), pending("stream")>>

listener_finishes_when_the_emitter_goes_away ==
    <<subscribe("stream"), emit, ready("stream", 1), pending("stream"), drop_handle,
      ended("stream")>>

listen_runs_callback_for_each_event_until_it_returns_false ==
    <<subscribe("stream"), pending("stream"), emit, ready("stream", 1), pending("stream"),
      emit, ready("stream", 2), unsubscribe("stream"), emit>>

listen_task_completes_when_emitter_is_dropped ==
    <<subscribe("stream"), pending("stream"), emit, ready("stream", 1), pending("stream"),
      drop_handle, ended("stream"), unsubscribe("stream")>>

listen_with_passes_the_upgraded_value_to_the_callback ==
    <<subscribe("stream"), pending("stream"), emit, ready("stream", 1), pending("stream"),
      emit, ready("stream", 2), pending("stream")>>

listen_with_stops_once_the_value_is_dropped ==
    <<subscribe("stream"), pending("stream"), emit, ready("stream", 1), pending("stream"),
      emit, ready("stream", 2), unsubscribe("stream")>>

multiple_listeners_all_observe_the_same_events ==
    <<subscribe("first"), subscribe("second"), pending("first"), pending("second"),
      emit, ready("first", 1), pending("first"), ready("second", 1), pending("second"),
      emit, ready("first", 2), pending("first"), ready("second", 2), pending("second")>>

EmitterTests ==
    {stream_is_pending_until_notified_and_then_yields,
     stream_resubscribes_after_each_item,
     stream_yields_typed_values,
     multiple_streams_each_receive_broadcasts,
     stream_ends_once_the_event_is_dropped,
     waiting_stream_ends_when_the_event_is_dropped,
     emitted_value_reaches_single_subscriber,
     emitted_value_is_broadcast_to_all_subscribers,
     listener_stops_once_callback_returns_false,
     stream_finishes_after_emitter_is_dropped,
     subscriber_is_pending_until_a_value_is_emitted,
     emit_wakes_waiting_subscriber,
     every_subscriber_receives_a_clone_of_the_value,
     emit_without_subscribers_is_a_noop,
     values_emitted_before_subscribing_are_not_replayed,
     stream_yields_successive_values_in_order,
     dropped_subscriber_does_not_disturb_the_others,
     stream_ends_after_emitter_is_dropped,
     waiting_stream_ends_when_emitter_is_dropped,
     subscribe_once_resolves_with_the_first_value,
     subscribe_once_works_with_block_on,
     listener_is_pending_while_the_stream_is_idle,
     listener_finishes_when_the_emitter_goes_away,
     listen_runs_callback_for_each_event_until_it_returns_false,
     listen_task_completes_when_emitter_is_dropped,
     listen_with_passes_the_upgraded_value_to_the_callback,
     listen_with_stops_once_the_value_is_dropped,
     multiple_listeners_all_observe_the_same_events}

(* ObservableCell                                                            *)

new_starts_with_initial_value == <<get(new)>>

set_updates_stored_value == <<set(changed), get(changed)>>

subscriber_is_pending_until_value_changes ==
    <<subscribe("stream"), pending("stream"), set(changed), ready("stream", 1)>>

multiple_subscribers_are_notified_on_change ==
    <<subscribe("first"), subscribe("second"), pending("first"), pending("second"),
      set(changed), ready("first", 1), ready("second", 1)>>

repeated_changes_notify_same_subscriber ==
    <<subscribe("stream"), set(changed), ready("stream", 1), pending("stream"),
      set(changed_again), ready("stream", 2)>>

setting_same_value_does_not_notify ==
    <<subscribe("stream"), pending("stream"), set(new), pending("stream")>>

change_wakes_waiting_subscriber ==
    <<subscribe("stream"), pending("stream"), set(changed), wakes("stream")>>

weak_upgrade_shares_state_with_the_original ==
    <<upgrade, set(changed), get(changed), set(changed_again), get(changed_again)>>

cell_weak_upgrade_shares_subscribers ==
    <<subscribe("stream"), pending("stream"), upgrade, set(changed), drop_handle,
      ready("stream", 1)>>

weak_fails_to_upgrade_after_the_cell_is_dropped == <<drop_handle, no_upgrade, no_upgrade>>

CellTests ==
    {new_starts_with_initial_value,
     set_updates_stored_value,
     subscriber_is_pending_until_value_changes,
     multiple_subscribers_are_notified_on_change,
     repeated_changes_notify_same_subscriber,
     setting_same_value_does_not_notify,
     change_wakes_waiting_subscriber,
     weak_upgrade_shares_state_with_the_original,
     cell_weak_upgrade_shares_subscribers,
     weak_fails_to_upgrade_after_the_cell_is_dropped}
-----------------------------------------------------------------------------
(* ObservableRefCell                                                         *)

read == <<borrow, drop_ref>>
mutate == <<borrow_mut, write, drop_guard>>

new_cell_exposes_initial_value == read \o read \o read

borrow_mut_updates_the_value == mutate \o read

multiple_shared_borrows_coexist == <<borrow, borrow>> \o read

try_borrow_fails_while_mutably_borrowed ==
    <<borrow_mut, no_borrow, no_borrow_mut, drop_guard, borrow, drop_ref, borrow_mut,
      drop_guard>>

try_borrow_mut_fails_while_borrowed ==
    <<borrow, no_borrow_mut, borrow, drop_ref, drop_ref, borrow_mut, drop_guard>>

borrow_mut_panics_while_borrowed == <<borrow, no_borrow_mut>>

borrow_panics_while_mutably_borrowed == <<borrow_mut, no_borrow>>

try_borrow_mut_guard_mutates_and_notifies ==
    <<subscribe("stream"), pending("stream")>> \o mutate \o read \o <<ready("stream", 1)>>

mutation_notifies_subscribers_when_guard_drops ==
    <<subscribe("stream"), pending("stream"), borrow_mut, write, no_wakes("stream"),
      drop_guard, wakes("stream"), ready("stream", 1)>>

read_only_access_through_borrow_mut_does_not_notify ==
    <<subscribe("stream"), pending("stream"), borrow_mut, drop_guard, pending("stream")>>

plain_shared_borrow_does_not_notify ==
    <<subscribe("stream"), pending("stream"), borrow, drop_ref, pending("stream")>>

notification_is_sent_even_when_value_is_unchanged ==
    <<subscribe("stream"), pending("stream")>> \o mutate \o <<ready("stream", 1)>>

multiple_mutations_in_one_guard_notify_once ==
    <<subscribe("stream"), pending("stream"), borrow_mut, write, write, write, drop_guard,
      wakes("stream"), ready("stream", 1), pending("stream")>>

every_subscriber_is_notified ==
    <<subscribe("first"), subscribe("second")>> \o mutate
        \o <<ready("first", 1), ready("second", 1)>>

subscriber_receives_successive_mutations ==
    <<subscribe("stream")>> \o mutate \o <<ready("stream", 1), pending("stream")>>
        \o mutate \o <<ready("stream", 2), pending("stream")>>
        \o mutate \o <<ready("stream", 3), pending("stream")>>

subscribe_once_resolves_on_first_mutation ==
    <<subscribe("stream"), pending("stream")>> \o mutate \o <<ready("stream", 1)>>

deref_mut_marks_guard_as_mutated ==
    <<subscribe("stream"), pending("stream")>> \o mutate \o <<ready("stream", 1)>>

borrow_trait_on_guard_does_not_notify_but_borrow_mut_trait_does ==
    <<subscribe("stream"), pending("stream"), borrow_mut, drop_guard, pending("stream")>>
        \o mutate \o read \o <<ready("stream", 1)>>

weak_upgrade_returns_the_same_cell == <<upgrade>> \o mutate \o read

ref_cell_weak_upgrade_shares_subscribers ==
    <<subscribe("stream"), pending("stream"), upgrade>> \o mutate
        \o <<drop_handle, ready("stream", 1)>>

weak_fails_to_upgrade_after_all_strong_handles_are_gone ==
    <<drop_handle, no_upgrade, no_upgrade>>

upgraded_cell_keeps_the_value_alive ==
    <<upgrade, drop_handle, upgrade, drop_handle, drop_handle, no_upgrade>>

subscribe_once_works_for_other_event_targets ==
    <<subscribe("stream"), pending("stream")>> \o mutate \o <<ready("stream", 1)>>

listen_works_on_event_targets_other_than_emitter ==
    <<subscribe("stream"), pending("stream")>>
        \o mutate \o <<ready("stream", 1), pending("stream")>>
        \o mutate \o <<ready("stream", 2), pending("stream")>>

listen_with_this_passes_the_upgraded_target ==
    <<subscribe("stream"), pending("stream")>>
        \o mutate \o <<ready("stream", 1), upgrade>> \o read \o <<drop_handle, pending("stream")>>
        \o mutate \o <<ready("stream", 2), upgrade>> \o read \o <<drop_handle, pending("stream")>>

listen_with_this_and_stops_once_the_other_value_is_dropped ==
    <<subscribe("stream"), pending("stream")>>
        \o mutate \o <<ready("stream", 1), pending("stream")>>
        \o mutate \o <<ready("stream", 2), unsubscribe("stream")>>

RefCellTests ==
    {new_cell_exposes_initial_value,
     borrow_mut_updates_the_value,
     multiple_shared_borrows_coexist,
     try_borrow_fails_while_mutably_borrowed,
     try_borrow_mut_fails_while_borrowed,
     borrow_mut_panics_while_borrowed,
     borrow_panics_while_mutably_borrowed,
     try_borrow_mut_guard_mutates_and_notifies,
     mutation_notifies_subscribers_when_guard_drops,
     read_only_access_through_borrow_mut_does_not_notify,
     plain_shared_borrow_does_not_notify,
     notification_is_sent_even_when_value_is_unchanged,
     multiple_mutations_in_one_guard_notify_once,
     every_subscriber_is_notified,
     subscriber_receives_successive_mutations,
     subscribe_once_resolves_on_first_mutation,
     deref_mut_marks_guard_as_mutated,
     borrow_trait_on_guard_does_not_notify_but_borrow_mut_trait_does,
     weak_upgrade_returns_the_same_cell,
     ref_cell_weak_upgrade_shares_subscribers,
     weak_fails_to_upgrade_after_all_strong_handles_are_gone,
     upgraded_cell_keeps_the_value_alive,
     subscribe_once_works_for_other_event_targets,
     listen_works_on_event_targets_other_than_emitter,
     listen_with_this_passes_the_upgraded_target,
     listen_with_this_and_stops_once_the_other_value_is_dropped}
-----------------------------------------------------------------------------
(* WaitGroup                                                                 *)

new_wait_group_is_empty == <<len(0)>>

add_increments_len == <<add, len(1), add, add, len(3)>>

dropping_ticket_decrements_len == <<add, add, drop_ticket, len(1), drop_ticket, len(0)>>

wait_returns_immediately_when_empty == <<wait_ready>>

wait_completes_immediately_after_all_tickets_were_dropped ==
    <<add, drop_ticket, add, drop_ticket, wait_ready>>

wait_is_pending_while_a_ticket_is_outstanding == <<add, wait_pending>>

wait_wakes_and_completes_when_ticket_is_dropped ==
    <<add, wait_pending, no_wakes(Waiter), drop_ticket, wakes(Waiter), wait_ready>>

wait_stays_pending_until_every_ticket_is_dropped ==
    <<add, add, wait_pending, drop_ticket, wait_pending, drop_ticket, wait_ready>>

wait_completes_when_all_tickets_drop_before_next_poll ==
    <<add, add, add, wait_pending, drop_ticket, drop_ticket, drop_ticket, wait_ready>>

wait_group_can_be_reused_after_waiting ==
    <<add, drop_ticket, wait_ready, add, len(1), wait_pending, drop_wait, drop_ticket,
      wait_ready, len(0)>>

WaitGroupTests ==
    {new_wait_group_is_empty,
     add_increments_len,
     dropping_ticket_decrements_len,
     wait_returns_immediately_when_empty,
     wait_completes_immediately_after_all_tickets_were_dropped,
     wait_is_pending_while_a_ticket_is_outstanding,
     wait_wakes_and_completes_when_ticket_is_dropped,
     wait_stays_pending_until_every_ticket_is_dropped,
     wait_completes_when_all_tickets_drop_before_next_poll,
     wait_group_can_be_reused_after_waiting}
=============================================================================
