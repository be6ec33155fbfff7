------------------------------ MODULE MpscTests -----------------------------
(***************************************************************************)
(* The tests of src/channel/mpsc.rs as scripts for the model of Mpsc, in   *)
(* the form of EventTests.  A test starts with the size of its channel,    *)
(* and its first sender is "sender".  An item is known by the slot it was  *)
(* sent from.  A slot has one Send future at a time: where a test makes a  *)
(* second one, it is made by a clone.                                      *)
(***************************************************************************)
EXTENDS Mpsc

channel(n) == <<"channel", n>>
clone(p, q) == <<"clone", p, q>>
drop(p) == <<"drop", p>>
try_send(p) == <<"try_send", p>>
try_send_fails(p) == <<"try_send_fails", p>>
sent(p) == <<"sent", p>>
blocked(p) == <<"blocked", p>>
send_fails(p) == <<"send_fails", p>>
cancel(p) == <<"cancel", p>>
item(p) == <<"item", p>>
recv_pending == <<"recv_pending">>
recv_end == <<"recv_end">>
drop_receiver == <<"drop_receiver">>
new_send(p) == <<"send", p>>
wakes(t) == <<"wakes", t>>
no_wake(t) == <<"no_wake", t>>
empty(b) == <<"empty", b>>
full(b) == <<"full", b>>
closed(b) == <<"closed", b>>
sender_closed(b) == <<"sender_closed", b>>

\* Receiver::is_empty, is_full and is_closed, and Sender::is_closed.
is_empty == queue = <<>>
is_full == Len(queue) >= max_queue_size
is_closed == senders = 0
sender_is_closed == ~Open \/ senders = 0

RunSend(p) == PollNewSend(p) \/ PollNotifiedSend(p)

PollSend(p) == RunSend(p) \/ (p \in Waiting \ Notified(sender_event) /\ UNCHANGED vars)

PollRecv == PollReceiver \/ PollNotifiedReceiver

Assertion(step) ==
    \/ step[1] = "channel" /\ max_queue_size = step[2]
    \/ step[1] = "wakes" /\ step[2] \in woken
    \/ step[1] = "no_wake" /\ step[2] \notin woken
    \/ step[1] = "empty" /\ is_empty = step[2]
    \/ step[1] = "full" /\ is_full = step[2]
    \/ step[1] = "closed" /\ is_closed = step[2]
    \/ step[1] = "sender_closed" /\ sender_is_closed = step[2]

Do(step) ==
    \/ step[1] = "clone" /\ CloneSender(step[2], step[3])
    \/ step[1] = "drop" /\ DropSender(step[2])
    \/ step[1] = "try_send" /\ TrySend(step[2])
    \/ step[1] = "try_send_fails" /\ TrySendFails(step[2])
    \/ step[1] = "send" /\ NewSend(step[2])
    \/ step[1] = "sent" /\ RunSend(step[2]) /\ returned' = step
    \/ step[1] = "blocked" /\ PollSend(step[2]) /\ send'[step[2]] = "waiting"
    \/ step[1] = "send_fails" /\ RunSend(step[2]) /\ returned' = <<"failed", step[2]>>
    \/ step[1] = "cancel" /\ DropSend(step[2])
    \/ step[1] = "item" /\ PollRecv /\ returned' = step
    \/ step[1] = "recv_pending" /\ PollRecv /\ recv' = "waiting"
    \/ step[1] = "recv_end" /\ PollRecv /\ returned' = <<"end">>
    \/ step[1] = "drop_receiver" /\ DropReceiver
    \/ Assertion(step) /\ UNCHANGED vars

\* The state in which a test starts.
Start(test) == Init /\ sender = {"sender"} /\ channel(max_queue_size) = test[1]
-----------------------------------------------------------------------------
receiver_wakes_when_data_becomes_available ==
    <<channel(1), recv_pending, no_wake(Receiver), try_send("sender"), wakes(Receiver),
      item("sender")>>

sender_wakes_when_capacity_becomes_available ==
    <<channel(1), try_send("sender"), new_send("sender"), blocked("sender"),
      no_wake("sender"), item("sender"), wakes("sender"), sent("sender"),
      item("sender")>>

waiting_sender_errors_when_receiver_is_dropped ==
    <<channel(1), try_send("sender"), new_send("sender"), blocked("sender"),
      no_wake("sender"), drop_receiver, wakes("sender"), send_fails("sender")>>

receiver_finishes_only_after_queue_is_empty_and_all_senders_are_dropped ==
    <<channel(2), clone("sender", "sender_clone"), try_send("sender"), drop("sender"),
      item("sender"), recv_pending, no_wake(Receiver), drop("sender_clone"),
      wakes(Receiver), recv_end>>

queue_state_tracks_fill_level_and_receiver_closure ==
    <<channel(1), empty(TRUE), full(FALSE), closed(FALSE), sender_closed(FALSE),
      try_send("sender"), empty(FALSE), full(TRUE), drop_receiver, sender_closed(TRUE),
      try_send_fails("sender")>>

items_are_received_in_fifo_order ==
    <<channel(10)>> \o [i \in 1 .. 5 |-> try_send("sender")]
                    \o [i \in 1 .. 5 |-> item("sender")] \o <<recv_pending>>

try_send_returns_the_value_when_the_queue_is_full ==
    <<channel(2), try_send("sender"), try_send("sender"), try_send_fails("sender"),
      item("sender"), try_send("sender"), item("sender"), item("sender"), recv_pending>>

zero_capacity_channel_rejects_try_send ==
    <<channel(0), full(TRUE), empty(TRUE), try_send_fails("sender")>>

send_completes_immediately_when_there_is_capacity ==
    <<channel(1), new_send("sender"), sent("sender"), item("sender")>>

send_is_pending_while_full_and_completes_after_a_receive ==
    <<channel(1), try_send("sender"), new_send("sender"), blocked("sender"),
      no_wake("sender"), item("sender"), wakes("sender"), sent("sender"),
      item("sender")>>

dropping_a_pending_send_does_not_enqueue_its_value ==
    <<channel(1), try_send("sender"), new_send("sender"), blocked("sender"),
      cancel("sender"), item("sender"), recv_pending>>

send_fails_once_the_receiver_is_gone ==
    <<channel(1), drop_receiver, new_send("sender"), send_fails("sender")>>

try_send_hands_the_value_back_once_the_receiver_is_gone ==
    <<channel(1), drop_receiver, sender_closed(TRUE), try_send_fails("sender")>>

receiver_is_pending_on_an_empty_channel_with_live_senders ==
    <<channel(1), recv_pending, drop("sender")>>

receiver_ends_immediately_when_all_senders_are_dropped_and_queue_is_empty ==
    <<channel(1), drop("sender"), closed(TRUE), recv_end>>

receiver_drains_queued_items_before_reporting_the_end ==
    <<channel(3), try_send("sender"), try_send("sender"), drop("sender"),
      item("sender"), item("sender"), recv_end>>

cloned_senders_feed_the_same_receiver ==
    <<channel(4), clone("sender", "other"), try_send("sender"), try_send("other"),
      item("sender"), item("other"), recv_pending>>

channel_stays_open_until_the_last_sender_clone_is_dropped ==
    <<channel(1), clone("sender", "other"), sender_closed(FALSE), drop("sender"),
      closed(FALSE), sender_closed(FALSE), drop("other"), closed(TRUE)>>

receiver_is_woken_when_the_last_sender_is_dropped ==
    <<channel(1), recv_pending, drop("sender"), wakes(Receiver), recv_end>>

send_futures_from_a_sender_clone_outlive_the_original_sender ==
    <<channel(1), clone("sender", "other"), drop("sender"), new_send("other"),
      sent("other"), item("other")>>

receiver_wakes_for_a_second_item_after_consuming_the_first ==
    <<channel(2), recv_pending, try_send("sender"), wakes(Receiver), item("sender"),
      recv_pending, try_send("sender"), wakes(Receiver), item("sender")>>

blocked_senders_proceed_one_at_a_time ==
    <<channel(1), try_send("sender"), new_send("sender"), clone("sender", "other"),
      new_send("other"), blocked("sender"), blocked("other"), item("sender"), sent("sender"),
      blocked("other"), no_wake("other"), item("sender"), wakes("other"), sent("other"),
      item("other")>>

Tests ==
    {receiver_wakes_when_data_becomes_available,
     sender_wakes_when_capacity_becomes_available,
     waiting_sender_errors_when_receiver_is_dropped,
     receiver_finishes_only_after_queue_is_empty_and_all_senders_are_dropped,
     queue_state_tracks_fill_level_and_receiver_closure,
     items_are_received_in_fifo_order,
     try_send_returns_the_value_when_the_queue_is_full,
     zero_capacity_channel_rejects_try_send,
     send_completes_immediately_when_there_is_capacity,
     send_is_pending_while_full_and_completes_after_a_receive,
     dropping_a_pending_send_does_not_enqueue_its_value,
     send_fails_once_the_receiver_is_gone,
     try_send_hands_the_value_back_once_the_receiver_is_gone,
     receiver_is_pending_on_an_empty_channel_with_live_senders,
     receiver_ends_immediately_when_all_senders_are_dropped_and_queue_is_empty,
     receiver_drains_queued_items_before_reporting_the_end,
     cloned_senders_feed_the_same_receiver,
     channel_stays_open_until_the_last_sender_clone_is_dropped,
     receiver_is_woken_when_the_last_sender_is_dropped,
     send_futures_from_a_sender_clone_outlive_the_original_sender,
     receiver_wakes_for_a_second_item_after_consuming_the_first,
     blocked_senders_proceed_one_at_a_time}
=============================================================================
