----------------------------- MODULE OneshotTests ---------------------------
(***************************************************************************)
(* The tests of src/channel/oneshot.rs as scripts for the model of         *)
(* Oneshot, in the form of EventTests, each on the channel "channel".      *)
(***************************************************************************)
EXTENDS Oneshot

send_ok == <<"send_ok">>
send_fails == <<"send_fails">>
drop_sender == <<"drop_sender">>
close == <<"close">>
drop_receiver == <<"drop_receiver">>
pending(t) == <<"pending", t>>
ready_ok == <<"ready_ok">>
ready_err == <<"ready_err">>
try_some == <<"try_some">>
try_none == <<"try_none">>
try_err == <<"try_err">>
wakes(b) == <<"wakes", b>>

Do(step) ==
    LET c == "channel"
        Returns(what) == returned' = <<what, c>> IN
    \/ step[1] = "send_ok" /\ Send(c)
    \/ step[1] = "send_fails" /\ SendRefused(c)
    \/ step[1] = "drop_sender" /\ DropSender(c)
    \/ step[1] = "close" /\ CloseReceiver(c)
    \/ step[1] = "drop_receiver" /\ DropReceiver(c)
    \/ step[1] = "pending" /\ PollPending(c, step[2])
    \/ step[1] = "ready_ok" /\ Poll(c) /\ Returns("value")
    \/ step[1] = "ready_err" /\ Poll(c) /\ Returns("error")
    \/ step[1] = "try_some" /\ TryRecv(c) /\ Returns("value")
    \/ step[1] = "try_none" /\ TryRecv(c) /\ Returns("nothing")
    \/ step[1] = "try_err" /\ TryRecv(c) /\ Returns("error")
    \/ step[1] = "wakes" /\ (c \in woken) = step[2] /\ UNCHANGED vars
-----------------------------------------------------------------------------
receiver_starts_pending_until_sender_fires == <<pending("noop"), send_ok, ready_ok>>

sent_value_is_delivered_once == <<send_ok, ready_ok>>

send_fails_after_receiver_is_dropped == <<drop_receiver, send_fails>>

receiver_is_closed_after_sender_is_dropped == <<drop_sender, ready_err>>

value_can_be_awaited_after_sending == <<send_ok, ready_ok>>

awaiting_after_the_sender_was_dropped_fails == <<drop_sender, ready_err>>

receiver_is_woken_by_send ==
    <<pending("waker"), wakes(FALSE), send_ok, wakes(TRUE), ready_ok>>

receiver_is_woken_when_sender_is_dropped ==
    <<pending("waker"), drop_sender, wakes(TRUE), ready_err>>

try_recv_is_none_before_anything_is_sent == <<try_none, try_none>>

try_recv_returns_the_value_once == <<send_ok, try_some, try_none>>

try_recv_errors_after_sender_drop == <<drop_sender, try_err>>

try_recv_still_returns_a_value_sent_before_the_sender_dropped == <<send_ok, try_some>>

closing_the_receiver_makes_send_fail == <<close, send_fails>>

closing_the_receiver_makes_try_recv_fail == <<close, try_err>>

closing_twice_is_harmless == <<close, close, send_fails>>

closing_after_a_value_was_sent_keeps_the_value == <<send_ok, close, try_some>>

dropping_an_unsent_sender_does_not_panic_and_pending_receiver_can_be_dropped ==
    <<pending("noop"), drop_sender, drop_receiver>>

Tests ==
    {receiver_starts_pending_until_sender_fires,
     sent_value_is_delivered_once,
     send_fails_after_receiver_is_dropped,
     receiver_is_closed_after_sender_is_dropped,
     value_can_be_awaited_after_sending,
     awaiting_after_the_sender_was_dropped_fails,
     receiver_is_woken_by_send,
     receiver_is_woken_when_sender_is_dropped,
     try_recv_is_none_before_anything_is_sent,
     try_recv_returns_the_value_once,
     try_recv_errors_after_sender_drop,
     try_recv_still_returns_a_value_sent_before_the_sender_dropped,
     closing_the_receiver_makes_send_fail,
     closing_the_receiver_makes_try_recv_fail,
     closing_twice_is_harmless,
     closing_after_a_value_was_sent_keeps_the_value,
     dropping_an_unsent_sender_does_not_panic_and_pending_receiver_can_be_dropped}
=============================================================================
