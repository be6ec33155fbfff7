----------------------------- MODULE EventTests -----------------------------
(***************************************************************************)
(* The tests of src/event.rs as scripts for the model of Event.  A test is *)
(* a sequence of steps, under the name it has in the source; a step is a   *)
(* call, with the outcome the test asserts of it, or an assertion.         *)
(*                                                                         *)
(* Listeners and wakers have the names of the test's variables; a poll by  *)
(* pollster::block_on is one that is ready at once.  A counter of wakes is *)
(* read as "woken or not".  What a test drops at its end is left out.      *)
(***************************************************************************)
EXTENDS Event

listens(ls) == [i \in DOMAIN ls |-> <<"listen", ls[i]>>]
listen(l) == <<"listen", l>>
notify_with(n, v) == <<"notify", n, v>>
notify(n) == notify_with(n, "()")
additional_with(n, v) == <<"additional", n, v>>
additional(n) == additional_with(n, "()")
ready_with(l, v) == <<"ready", l, v>>
ready(l) == ready_with(l, "()")
pending(l, t) == <<"pending", l, t>>
drop(l) == <<"drop", l>>
drop_event == <<"drop_event">>
notified(S) == <<"notified", S>>
wakes(S) == <<"wakes", S>>

\* A step is taken when its call has the asserted outcome.
Do(step) ==
    \/ step[1] = "listen" /\ ListenFor(step[2])
    \/ step[1] = "notify" /\ Notify(step[2], step[3])
    \/ step[1] = "additional" /\ NotifyAdditional(step[2], step[3])
    \/ step[1] = "ready" /\ PollReady(step[2]) /\ ev.value[step[2]] = step[3]
    \/ step[1] = "pending" /\ PollPending(step[2], step[3])
    \/ step[1] = "drop" /\ DropHandle(step[2])
    \/ step[1] = "drop_event" /\ DropEvent
    \/ step[1] = "notified" /\ Notified(ev) = step[2] /\ UNCHANGED vars
    \/ step[1] = "wakes" /\ woken = step[2] /\ UNCHANGED vars
-----------------------------------------------------------------------------
listener_starts_unnotified_and_pending ==
    <<listen("listener"), notified({}), pending("listener", "noop")>>

notify_one_notifies_earliest_listener ==
    <<listen("first"), listen("second"), notify(1), notified({"first"}),
      ready("first"), pending("second", "noop")>>

notify_all_notifies_all_active_listeners ==
    <<listen("first"), listen("second"), listen("third"), notify(UsizeMax),
      ready("first"), ready("second"), ready("third")>>

additional_only_notifies_still_waiting_listeners ==
    <<listen("first"), listen("second"), listen("third"), notify(1), additional(1),
      ready("first"), ready("second"), pending("third", "noop")>>

listener_transitions_to_terminated_once_notified ==
    <<listen("listener"), notified({}), notify(1), notified({"listener"}),
      ready("listener")>>

with_notification_delivers_typed_value ==
    <<listen("listener"), notify_with(1, "42"), ready_with("listener", "42")>>

dropping_notified_listener_transfers_notification_to_next_waiting ==
    <<listen("first"), listen("second"), listen("third"), notify(1), notified({"first"}),
      drop("first"), notified({"second"}), ready("second"), pending("third", "noop")>>

default_event_is_usable == <<listen("listener"), notify(1), notified({"listener"})>>

notify_without_listeners_is_a_noop ==
    <<notify(1), notify(UsizeMax), additional(3), listen("listener"), notified({})>>

notify_zero_notifies_nobody == <<listen("listener"), notify(0), notified({})>>

notify_n_notifies_exactly_n_listeners_in_registration_order ==
    listens(<<"l0", "l1", "l2", "l3", "l4">>)
        \o <<notify(3), notified({"l0", "l1", "l2"})>>

notify_more_than_listener_count_notifies_everyone ==
    <<listen("first"), listen("second"), notify(10), notified({"first", "second"})>>

notify_counts_already_notified_listeners_towards_the_total ==
    <<listen("first"), listen("second"), notify(1), notify(2),
      notified({"first", "second"})>>

additional_notifications_stack_on_top_of_existing_ones ==
    listens(<<"l0", "l1", "l2", "l3">>)
        \o <<notify(1), additional(2), notified({"l0", "l1", "l2"})>>

additional_max_notifies_every_waiting_listener ==
    <<listen("first"), listen("second"), listen("third"), notify(1), additional(UsizeMax),
      notified({"first", "second", "third"})>>

listener_created_after_notify_is_not_notified ==
    <<listen("early"), notify(UsizeMax), listen("late"), notified({"early"})>>

notify_wakes_the_registered_waker ==
    <<listen("listener"), pending("listener", "waker"), wakes({}), notify(1),
      wakes({"listener"}), ready("listener")>>

notify_only_wakes_selected_listeners ==
    <<listen("first"), listen("second"), pending("first", "first_waker"),
      pending("second", "second_waker"), notify(1), wakes({"first"})>>

notify_all_wakes_every_waiting_listener_once ==
    <<listen("first"), listen("second"), pending("first", "first_waker"),
      pending("second", "second_waker"), notify(UsizeMax), notify(UsizeMax),
      wakes({"first", "second"})>>

repolling_updates_the_stored_waker ==
    <<listen("listener"), pending("listener", "old_waker"),
      pending("listener", "new_waker"), notify(1), wakes({"listener"})>>

polling_a_consumed_listener_is_pending_again ==
    <<listen("listener"), notify(1), ready("listener"), pending("listener", "noop")>>

dropping_an_unnotified_listener_does_not_affect_others ==
    <<listen("first"), listen("second"), drop("first"), notify(1), notified({"second"})>>

dropping_a_notified_listener_with_no_one_waiting_discards_the_notification ==
    <<listen("first"), notify(1), drop("first"), listen("second"), notified({}),
      notify(1), notified({"second"})>>

dropping_a_notified_listener_wakes_the_listener_receiving_the_handoff ==
    <<listen("first"), listen("second"), pending("second", "waker"), notify(1), wakes({}),
      drop("first"), wakes({"second"}), ready("second")>>

handed_off_notification_keeps_its_typed_value ==
    <<listen("first"), listen("second"), notify_with(1, "99"), drop("first"),
      ready_with("second", "99")>>

with_notification_clones_value_for_each_listener ==
    <<listen("first"), listen("second"), notify_with(UsizeMax, "7"),
      ready_with("first", "7"), ready_with("second", "7")>>

additional_notification_can_carry_a_value ==
    <<listen("first"), listen("second"), notify_with(1, "one"), additional_with(1, "two"),
      ready_with("first", "one"), ready_with("second", "two")>>

dropping_the_event_wakes_pending_listeners ==
    <<listen("listener"), pending("listener", "waker"), drop_event, wakes({"listener"})>>

listener_outlives_its_event_without_panicking ==
    <<listen("listener"), drop_event, notified({}), drop("listener")>>

notify_one_still_works_after_a_notification_was_consumed ==
    <<listen("first"), notify(1), ready("first"), drop("first"),
      listen("second"), notify(1), notified({"second"})>>

Tests ==
    {listener_starts_unnotified_and_pending,
     notify_one_notifies_earliest_listener,
     notify_all_notifies_all_active_listeners,
     additional_only_notifies_still_waiting_listeners,
     listener_transitions_to_terminated_once_notified,
     with_notification_delivers_typed_value,
     dropping_notified_listener_transfers_notification_to_next_waiting,
     default_event_is_usable,
     notify_without_listeners_is_a_noop,
     notify_zero_notifies_nobody,
     notify_n_notifies_exactly_n_listeners_in_registration_order,
     notify_more_than_listener_count_notifies_everyone,
     notify_counts_already_notified_listeners_towards_the_total,
     additional_notifications_stack_on_top_of_existing_ones,
     additional_max_notifies_every_waiting_listener,
     listener_created_after_notify_is_not_notified,
     notify_wakes_the_registered_waker,
     notify_only_wakes_selected_listeners,
     notify_all_wakes_every_waiting_listener_once,
     repolling_updates_the_stored_waker,
     polling_a_consumed_listener_is_pending_again,
     dropping_an_unnotified_listener_does_not_affect_others,
     dropping_a_notified_listener_with_no_one_waiting_discards_the_notification,
     dropping_a_notified_listener_wakes_the_listener_receiving_the_handoff,
     handed_off_notification_keeps_its_typed_value,
     with_notification_clones_value_for_each_listener,
     additional_notification_can_carry_a_value,
     dropping_the_event_wakes_pending_listeners,
     listener_outlives_its_event_without_panicking,
     notify_one_still_works_after_a_notification_was_consumed}
=============================================================================
