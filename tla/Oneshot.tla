------------------------------- MODULE Oneshot -------------------------------
(***************************************************************************)
(* The one-value channels of src/channel/oneshot.rs.  A channel is a state *)
(* word, a value and an event on which the receiver listens from the       *)
(* start; the sender owns the event, so that whatever ends the sender also *)
(* drops the event.  A task may await several receivers, and a receiver    *)
(* may move between tasks.  Everything runs on one thread.                 *)
(***************************************************************************)
EXTENDS EventOps

CONSTANTS Channel,      \* the channels of the program; each names its listener
          Task,         \* the tasks that await receivers
          Unit,         \* the value of the notifications of an Event<()>
          NoTask        \* nobody awaits the receiver

ASSUME TaskAssumption == NoTask \notin Task

VARIABLES state,        \* State::state of each channel
          value,        \* the channels whose State::value is Some
          event,        \* Sender::event of each channel
          sender,       \* "held", or how the Sender ended
          receiver,     \* the channels whose Receiver is alive
          closed,       \* the channels whose receiver called close() or was dropped
          received,     \* the channels whose value was handed to the receiver
          poller,       \* the task that last found the receiver pending
          woken,        \* the pending receivers whose last poller was woken
          returned      \* what the last call or poll returned

vars == <<state, value, event, sender, receiver, closed, received, poller, woken, returned>>

\* A call that returns nothing of the channel.
Nothing == <<>>

Init ==
    /\ state = [c \in Channel |-> "Empty"]
    /\ value = {}
    /\ event = [c \in Channel |-> Listen(NewEvent, c)]
    /\ sender = [c \in Channel |-> "held"]
    /\ receiver = Channel
    /\ closed = {}
    /\ received = {}
    /\ poller = [c \in Channel |-> NoTask]
    /\ woken = {}
    /\ returned = Nothing

\* The sender ends: the event, notified before as e, is dropped.
EndSender(c, e, tasks) ==
    /\ event' = [event EXCEPT ![c] = Close(e)]
    /\ woken' = woken \cup {d \in Channel : poller[d] \in tasks \cup WakersOf(e, Listeners(e))}

EndSenderNotifying(c) == EndSender(c, NotifyOne(event[c], Unit), WokenByOne(event[c]))

\* Sender::send on an empty channel.
Send(c) ==
    /\ sender[c] = "held"
    /\ state[c] = "Empty"
    /\ value' = value \cup {c}
    /\ state' = [state EXCEPT ![c] = "Full"]
    /\ sender' = [sender EXCEPT ![c] = "sent"]
    /\ EndSenderNotifying(c)
    /\ returned' = <<"sent", c>>
    /\ UNCHANGED <<receiver, closed, received, poller>>

\* Sender::send when the receiver has closed the channel.
SendRefused(c) ==
    /\ sender[c] = "held"
    /\ state[c] = "ReceiverClosed"
    /\ sender' = [sender EXCEPT ![c] = "refused"]
    /\ EndSender(c, event[c], {})
    /\ returned' = <<"refused", c>>
    /\ UNCHANGED <<state, value, receiver, closed, received, poller>>

\* Broken on purpose: a dropped sender leaves the state as it is.
DropSenderSilently(c) ==
    /\ sender[c] = "held"
    /\ sender' = [sender EXCEPT ![c] = "dropped"]
    /\ EndSenderNotifying(c)
    /\ returned' = Nothing
    /\ UNCHANGED <<state, value, receiver, closed, received, poller>>

\* Sender::drop without a send.
DropSender(c) ==
    /\ sender[c] = "held"
    /\ sender' = [sender EXCEPT ![c] = "dropped"]
    /\ IF state[c] = "Empty"
       THEN state' = [state EXCEPT ![c] = "SenderClosed"] /\ EndSenderNotifying(c)
       ELSE state' = state /\ EndSender(c, event[c], {})
    /\ returned' = Nothing
    /\ UNCHANGED <<value, receiver, closed, received, poller>>
-----------------------------------------------------------------------------
\* Broken on purpose: the state is set whatever it was.
ShutAlways(c) ==
    /\ state' = [state EXCEPT ![c] = "ReceiverClosed"]
    /\ value' = value \ {c}
    /\ closed' = closed \cup {c}

\* Broken on purpose: the state of a dropped sender is set.
ShutAsSender(c) ==
    /\ state' = [state EXCEPT ![c] = IF @ = "Empty" THEN "SenderClosed" ELSE @]
    /\ value' = IF state[c] = "Empty" THEN value \ {c} ELSE value
    /\ closed' = closed \cup {c}

\* Receiver::close acts on an empty channel only.
Shut(c) ==
    /\ state' = [state EXCEPT ![c] = IF @ = "Empty" THEN "ReceiverClosed" ELSE @]
    /\ value' = IF state[c] = "Empty" THEN value \ {c} ELSE value
    /\ closed' = closed \cup {c}

CloseReceiver(c) ==
    /\ c \in receiver
    /\ Shut(c)
    /\ returned' = Nothing
    /\ UNCHANGED <<event, sender, receiver, received, poller, woken>>

\* Receiver::drop closes, then the listener goes.
DropReceiver(c) ==
    /\ c \in receiver
    /\ Shut(c)
    /\ receiver' = receiver \ {c}
    /\ event' = [event EXCEPT ![c] = DropListener(@, c)]
    /\ poller' = [poller EXCEPT ![c] = NoTask]
    /\ woken' = woken \ {c}
    /\ returned' = Nothing
    /\ UNCHANGED <<sender, received>>

\* Broken on purpose: the state stays full.
TakeKeepsState(c) ==
    /\ state[c] = "Full"
    /\ value' = value \ {c}
    /\ received' = received \cup {c}
    /\ returned' = <<"value", c>>
    /\ UNCHANGED state

\* A full channel gives its value and is empty again.
Take(c) ==
    /\ state[c] = "Full"
    /\ value' = value \ {c}
    /\ state' = [state EXCEPT ![c] = "Empty"]
    /\ received' = received \cup {c}
    /\ returned' = <<"value", c>>

\* The channel is left as it is.
Answer(c, what) ==
    /\ returned' = <<what, c>>
    /\ UNCHANGED <<state, value, received>>

\* Receiver::try_recv.
TryRecv(c) ==
    /\ c \in receiver
    /\ \/ Take(c)
       \/ state[c] \in {"SenderClosed", "ReceiverClosed"} /\ Answer(c, "error")
       \/ state[c] = "Empty" /\ Answer(c, "nothing")
    /\ UNCHANGED <<event, sender, receiver, closed, poller, woken>>

\* Receiver::poll by some task, when it is ready.
PollReady(c) ==
    /\ c \in receiver
    /\ Take(c) \/ (state[c] = "SenderClosed" /\ Answer(c, "error"))
    /\ poller' = [poller EXCEPT ![c] = NoTask]
    /\ woken' = woken \ {c}
    /\ UNCHANGED <<event, sender, receiver, closed>>

\* Receiver::poll by task t, when there is nothing to return.  A notification
\* that is left over is consumed, and then no waker is stored.
PollPending(c, t) ==
    /\ c \in receiver
    /\ state[c] \in {"Empty", "ReceiverClosed"}
    /\ event' = [event EXCEPT ![c] = IF c \in Notified(@) THEN Consume(@, c) ELSE Park(@, c, t)]
    /\ poller' = [poller EXCEPT ![c] = t]
    /\ woken' = woken \ {c}
    /\ Answer(c, "pending")
    /\ UNCHANGED <<sender, receiver, closed>>

Poll(c) == PollReady(c) \/ \E t \in Task : PollPending(c, t)

Next ==
    \E c \in Channel :
        \/ Send(c) \/ SendRefused(c) \/ DropSender(c)
        \/ CloseReceiver(c) \/ DropReceiver(c) \/ TryRecv(c) \/ Poll(c)

\* A woken receiver is polled.  No one has to send, close or give up.
Fairness == \A c \in Channel : WF_vars(c \in woken /\ Poll(c))

Spec == Init /\ [][Next]_vars /\ Fairness
-----------------------------------------------------------------------------
Ended == {c \in Channel : sender[c] # "held"}
Refusing == {c \in Channel : state[c] = "ReceiverClosed"}
Awaited == {c \in Channel : poller[c] # NoTask}

\* What happened to the value of each channel.
Fate == [c \in Channel |->
    IF sender[c] # "sent" THEN "none" ELSE IF c \in received THEN "received" ELSE "sent"]

P == INSTANCE Promise WITH
    ended <- Ended, fate <- Fate, refusing <- Refusing, reader <- receiver, waiting <- Awaited

\* What the calls of a channel return, in whatever order its two ends are used, is
\* what a promise of one value returns: the value once and only if it was sent, an
\* error only if it will not come, "pending" only while it may.
ImplementsPromise == P!Spec

\* The value is there exactly while the state says Full, the event is dropped
\* with the sender, and the only listener is the receiver.
TypeOK ==
    /\ state \in [Channel -> {"Empty", "SenderClosed", "ReceiverClosed", "Full"}]
    /\ value = {c \in Channel : state[c] = "Full"}
    /\ sender \in [Channel -> {"held", "sent", "refused", "dropped"}]
    /\ \A c \in Channel :
        /\ event[c] \in EventType({c}, {Unit}, Task)
        /\ event[c].closed <=> sender[c] # "held"
        /\ Listeners(event[c]) = receiver \cap {c}
    /\ poller \in [Channel -> Task \cup {NoTask}]
    /\ woken \cup Awaited \subseteq receiver

\* The assertion in Sender::send: while a sender is held its channel is empty or
\* closed by the receiver, whatever the receiver has polled, tried and closed.
SendIsReachable ==
    \A c \in Channel : sender[c] = "held" => state[c] \in {"Empty", "ReceiverClosed"}

\* A value whose send succeeded waits in the channel until it is received, also
\* when the receiver closes the channel behind it; it is received once.
SentIsKept ==
    \A c \in Channel :
        sender[c] = "sent" => (state[c] = "Full" <=> c \notin received)

\* An awaited receiver is woken when its sender ends, by the waker of the task that
\* polled it last, unless nothing is left for it: it took the value itself with
\* try_recv, which makes the channel empty again, or closed the channel before.
AwaiterIsWoken ==
    \A c \in Channel :
        poller[c] # NoTask /\ sender[c] # "held" /\ c \notin woken =>
            state[c] \in {"Empty", "ReceiverClosed"} /\ c \in received \cup closed

\* An awaited receiver resolves once its sender is gone, unless it closed the
\* channel itself or took the value with try_recv.
ReceiverResolves ==
    \A c \in Channel :
        poller[c] # NoTask /\ sender[c] # "held"
            ~> poller[c] = NoTask \/ c \in closed \/ c \in received
=============================================================================
