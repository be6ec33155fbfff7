-------------------------------- MODULE Mpsc --------------------------------
(***************************************************************************)
(* The bounded multi-producer channel of src/channel/mpsc.rs: a queue, one *)
(* event on which the receiver waits for data and one on which Send        *)
(* futures wait for capacity.  A producer slot holds a Sender handle, a    *)
(* Send future, or both: a Send holds only a Weak to the channel, so it    *)
(* lives on without any handle.                                            *)
(*                                                                         *)
(* A queued item is named by the producer it came from.  Everything runs   *)
(* on one thread, so a poll runs its loop to the end in one step.  A poll  *)
(* of a future that waits and is not notified changes nothing: it stores   *)
(* the waker of the same task again.                                       *)
(***************************************************************************)
EXTENDS EventOps

CONSTANTS Producer,     \* producer slots
          Receiver,     \* the receiver's task
          Capacity,     \* the values of max_queue_size that are checked
          Unit          \* the value of the notifications of an Event<()>

ASSUME ReceiverAssumption == Receiver \notin Producer
ASSUME CapacityAssumption == Capacity \subseteq Nat
ASSUME ProducerAssumption == IsFiniteSet(Producer)

VARIABLES max_queue_size,
          queue,
          sender,       \* the slots whose Sender handle is alive
          senders,      \* State::senders
          send,         \* each slot's Send future: "none", "new" or "waiting"
          recv,         \* the Receiver: "idle", "waiting" or "dropped"
          receiver_event,
          sender_event,
          woken,        \* the tasks woken since their last poll
          returned      \* what the last call or poll returned

vars == <<max_queue_size, queue, sender, senders, send, recv, receiver_event,
          sender_event, woken, returned>>

\* A poll that is pending, and a call that returns no outcome.
Nothing == <<>>

Waiting == {p \in Producer : send[p] = "waiting"}
Open == recv # "dropped"
HasRoom == Len(queue) < max_queue_size

\* channel(max_queue_size): one sender and the receiver.
Init ==
    /\ max_queue_size \in Capacity
    /\ queue = <<>>
    /\ \E p \in Producer : sender = {p}
    /\ senders = 1
    /\ send = [p \in Producer |-> "none"]
    /\ recv = "idle"
    /\ receiver_event = NewEvent
    /\ sender_event = NewEvent
    /\ woken = {}
    /\ returned = Nothing
-----------------------------------------------------------------------------
\* Broken on purpose: the receiver is notified when the queue was not empty.
PushNotifiesLate(p, tasks) ==
    /\ Open
    /\ HasRoom
    /\ queue' = Append(queue, p)
    /\ returned' = <<"sent", p>>
    /\ receiver_event' = IF queue # <<>> THEN NotifyOne(receiver_event, Unit)
                                         ELSE receiver_event
    /\ woken' = tasks \cup (IF queue # <<>> THEN WokenByOne(receiver_event) ELSE {})

\* push_back; the receiver is notified when the queue was empty.
Push(p, tasks) ==
    /\ Open
    /\ HasRoom
    /\ queue' = Append(queue, p)
    /\ returned' = <<"sent", p>>
    /\ receiver_event' = IF queue = <<>> THEN NotifyOne(receiver_event, Unit)
                                         ELSE receiver_event
    /\ woken' = tasks \cup (IF queue = <<>> THEN WokenByOne(receiver_event) ELSE {})

\* Sender::try_send, when there is room.
TrySend(p) ==
    /\ p \in sender
    /\ Push(p, woken)
    /\ UNCHANGED <<max_queue_size, sender, senders, send, recv, sender_event>>

\* try_send on a full or closed channel hands the value back.
TrySendFails(p) ==
    /\ p \in sender
    /\ ~(Open /\ HasRoom)
    /\ returned' = <<"refused", p>>
    /\ UNCHANGED <<max_queue_size, queue, sender, senders, send, recv, receiver_event,
                   sender_event, woken>>

\* Sender::send makes a future that has done nothing yet.
NewSend(p) ==
    /\ p \in sender
    /\ send[p] = "none"
    /\ send' = [send EXCEPT ![p] = "new"]
    /\ returned' = Nothing
    /\ UNCHANGED <<max_queue_size, queue, sender, senders, recv, receiver_event,
                   sender_event, woken>>

(***************************************************************************)
(* Send::poll in state Idle, with event e: the value is queued, the future *)
(* waits for capacity, or it fails because the receiver is gone.           *)
(***************************************************************************)
SendOk(p, e) ==
    /\ Push(p, woken \ {p})
    /\ send' = [send EXCEPT ![p] = "none"]
    /\ sender_event' = e

SendWaits(p, e) ==
    /\ Open
    /\ ~HasRoom
    /\ send' = [send EXCEPT ![p] = "waiting"]
    /\ returned' = Nothing
    /\ sender_event' = Park(Listen(e, p), p, p)
    /\ woken' = woken \ {p}
    /\ UNCHANGED <<queue, receiver_event>>

SendFails(p, e) ==
    /\ ~Open
    /\ send' = [send EXCEPT ![p] = "none"]
    /\ returned' = <<"failed", p>>
    /\ sender_event' = e
    /\ woken' = woken \ {p}
    /\ UNCHANGED <<queue, receiver_event>>

SendIdle(p, e) ==
    /\ SendOk(p, e) \/ SendWaits(p, e) \/ SendFails(p, e)
    /\ UNCHANGED <<max_queue_size, sender, senders, recv>>

\* The first poll of a Send future.
PollNewSend(p) == send[p] = "new" /\ SendIdle(p, sender_event)

\* The poll of a notified Send: the listener is consumed and dropped first.
PollNotifiedSend(p) ==
    /\ p \in Waiting \cap Notified(sender_event)
    /\ SendIdle(p, DropListener(Consume(sender_event, p), p))

\* A Send future is dropped.
DropSend(p) ==
    /\ send[p] # "none"
    /\ send' = [send EXCEPT ![p] = "none"]
    /\ returned' = Nothing
    /\ sender_event' = IF p \in Waiting THEN DropListener(sender_event, p) ELSE sender_event
    /\ woken' = (woken \ {p}) \cup (IF p \in Waiting THEN WokenByDrop(sender_event, p) ELSE {})
    /\ UNCHANGED <<max_queue_size, queue, sender, senders, recv, receiver_event>>

\* Broken on purpose: a clone is not counted.
CloneUncounted(p, q) ==
    /\ p \in sender
    /\ q \notin sender
    /\ sender' = sender \cup {q}
    /\ returned' = Nothing
    /\ UNCHANGED <<max_queue_size, queue, senders, send, recv, receiver_event,
                   sender_event, woken>>

\* Sender::clone into a free slot; the count is kept while the channel exists.
CloneSender(p, q) ==
    /\ p \in sender
    /\ q \notin sender
    /\ sender' = sender \cup {q}
    /\ returned' = Nothing
    /\ senders' = IF Open THEN senders + 1 ELSE senders
    /\ UNCHANGED <<max_queue_size, queue, send, recv, receiver_event, sender_event, woken>>

\* Broken on purpose: the count is tested before it is decremented.
DropSenderTestsFirst(p) ==
    LET last == Open /\ senders = 0 IN
    /\ p \in sender
    /\ sender' = sender \ {p}
    /\ returned' = Nothing
    /\ senders' = IF Open THEN senders - 1 ELSE senders
    /\ receiver_event' = IF last THEN NotifyAll(receiver_event, Unit) ELSE receiver_event
    /\ woken' = woken \cup (IF last THEN WokenByAll(receiver_event) ELSE {})
    /\ UNCHANGED <<max_queue_size, queue, send, recv, sender_event>>

\* Sender::drop: the last one notifies the receiver.
DropSender(p) ==
    LET last == Open /\ senders = 1 IN
    /\ p \in sender
    /\ sender' = sender \ {p}
    /\ returned' = Nothing
    /\ senders' = IF Open THEN senders - 1 ELSE senders
    /\ receiver_event' = IF last THEN NotifyAll(receiver_event, Unit) ELSE receiver_event
    /\ woken' = woken \cup (IF last THEN WokenByAll(receiver_event) ELSE {})
    /\ UNCHANGED <<max_queue_size, queue, send, recv, sender_event>>
-----------------------------------------------------------------------------
(***************************************************************************)
(* Receiver::poll_next in state Idle, with event e: an item, the end, or   *)
(* it waits for data.                                                      *)
(***************************************************************************)
\* Broken on purpose: whether the queue is full is tested after the pop.
RecvItemTestsLast(e) ==
    LET wasFull == Len(queue) - 1 = max_queue_size IN
    /\ queue # <<>>
    /\ queue' = Tail(queue)
    /\ returned' = <<"item", Head(queue)>>
    /\ recv' = "idle"
    /\ receiver_event' = e
    /\ sender_event' = IF wasFull THEN NotifyOne(sender_event, Unit) ELSE sender_event
    /\ woken' = (woken \ {Receiver}) \cup (IF wasFull THEN WokenByOne(sender_event) ELSE {})

\* pop_front; one blocked sender is notified when the queue was full.
RecvItem(e) ==
    LET wasFull == Len(queue) = max_queue_size IN
    /\ queue # <<>>
    /\ queue' = Tail(queue)
    /\ returned' = <<"item", Head(queue)>>
    /\ recv' = "idle"
    /\ receiver_event' = e
    /\ sender_event' = IF wasFull THEN NotifyOne(sender_event, Unit) ELSE sender_event
    /\ woken' = (woken \ {Receiver}) \cup (IF wasFull THEN WokenByOne(sender_event) ELSE {})

\* Broken on purpose: the counter is tested before the queue.
RecvEndFirst(e) ==
    /\ senders = 0
    /\ recv' = "idle"
    /\ returned' = <<"end">>
    /\ receiver_event' = e
    /\ woken' = woken \ {Receiver}
    /\ UNCHANGED <<queue, sender_event>>

RecvEnd(e) ==
    /\ queue = <<>>
    /\ senders = 0
    /\ recv' = "idle"
    /\ returned' = <<"end">>
    /\ receiver_event' = e
    /\ woken' = woken \ {Receiver}
    /\ UNCHANGED <<queue, sender_event>>

RecvWaits(e) ==
    /\ queue = <<>>
    /\ senders # 0
    /\ recv' = "waiting"
    /\ returned' = Nothing
    /\ receiver_event' = Park(Listen(e, Receiver), Receiver, Receiver)
    /\ woken' = woken \ {Receiver}
    /\ UNCHANGED <<queue, sender_event>>

RecvIdle(e) ==
    /\ RecvItem(e) \/ RecvEnd(e) \/ RecvWaits(e)
    /\ UNCHANGED <<max_queue_size, sender, senders, send>>

PollReceiver == recv = "idle" /\ RecvIdle(receiver_event)

\* The poll of a notified receiver.
PollNotifiedReceiver ==
    /\ recv = "waiting"
    /\ Receiver \in Notified(receiver_event)
    /\ RecvIdle(DropListener(Consume(receiver_event, Receiver), Receiver))

\* Broken on purpose: a dropped receiver notifies one blocked sender.
DropReceiverNotifiesOne ==
    /\ Open
    /\ recv' = "dropped"
    /\ returned' = Nothing
    /\ queue' = <<>>
    /\ sender_event' = Close(NotifyOne(sender_event, Unit))
    /\ receiver_event' = Close(NewEvent)
    /\ woken' = (woken \ {Receiver}) \cup WokenByAll(sender_event)
    /\ UNCHANGED <<max_queue_size, sender, senders, send>>

\* Receiver::drop notifies every blocked sender; then the shared state goes, and
\* both events with it.
DropReceiver ==
    /\ Open
    /\ recv' = "dropped"
    /\ returned' = Nothing
    /\ queue' = <<>>
    /\ sender_event' = Close(NotifyAll(sender_event, Unit))
    /\ receiver_event' = Close(NewEvent)
    /\ woken' = (woken \ {Receiver}) \cup WokenByAll(sender_event)
    /\ UNCHANGED <<max_queue_size, sender, senders, send>>

Next ==
    \/ \E p \in Producer :
        \/ TrySend(p) \/ TrySendFails(p) \/ NewSend(p) \/ PollNewSend(p)
        \/ PollNotifiedSend(p) \/ DropSend(p) \/ DropSender(p)
        \/ \E q \in Producer : CloneSender(p, q)
    \/ PollReceiver \/ PollNotifiedReceiver \/ DropReceiver

\* A woken task is polled.
Fairness ==
    /\ WF_vars(Receiver \in woken /\ PollNotifiedReceiver)
    /\ \A p \in Producer : WF_vars(p \in woken /\ PollNotifiedSend(p))

Spec == Init /\ [][Next]_vars /\ Fairness
-----------------------------------------------------------------------------
Results ==
    {Nothing, <<"end">>} \cup ({"sent", "refused", "failed", "item"} \X Producer)

\* The queue is bounded, the counter counts the handles, and the registered
\* listeners are those of the waiting futures.
TypeOK ==
    /\ queue \in Seq(Producer) /\ Len(queue) <= max_queue_size
    /\ sender \subseteq Producer
    /\ Open => senders = Cardinality(sender)
    /\ send \in [Producer -> {"none", "new", "waiting"}]
    /\ recv \in {"idle", "waiting", "dropped"}
    /\ receiver_event \in EventType({Receiver}, {Unit}, {Receiver})
    /\ sender_event \in EventType(Producer, {Unit}, Producer)
    /\ Distinct(receiver_event) /\ Distinct(sender_event)
    /\ Listeners(receiver_event) = IF recv = "waiting" THEN {Receiver} ELSE {}
    /\ Listeners(sender_event) = Waiting
    /\ woken \subseteq Producer \cup {Receiver}
    /\ returned \in Results

\* A waiting receiver with an item to read, or with no sender left, is notified
\* and woken, although producers notify it only when the queue was empty and only
\* the last handle to go announces the end.
NoLostData ==
    recv = "waiting" /\ (queue # <<>> \/ senders = 0) =>
        Receiver \in Notified(receiver_event) \cap woken

FreedCapacityIsNotified ==
    Open /\ HasRoom /\ Waiting # {} => Waiting \cap Notified(sender_event) \cap woken # {}

\* In a channel with one slot, where every pop frees a full queue, a blocked Send
\* is notified and woken while there is room, also when the Send that was
\* notified first is dropped or outrun by another sender.
NoLostCapacity == max_queue_size = 1 => FreedCapacityIsNotified

\* Notifies blocked senders when capacity is freed: the receiver and a sender
\* never sleep at the same time, one waiting for data and one for capacity, with
\* nobody woken.
NoMutualWait ==
    max_queue_size > 0 /\ recv = "waiting" /\ Waiting # {} => woken # {}

\* Once the receiver is gone every blocked Send is notified and woken, so that
\* it returns its error.
BlockedSendsFail ==
    ~Open => Waiting \subseteq Notified(sender_event) \cap woken

\* A waiting receiver gets the item or the end it waits for.
ReceiverIsServed ==
    recv = "waiting" /\ (queue # <<>> \/ senders = 0) ~> recv # "waiting"

\* The channel is a bounded queue: items leave in the order in which they came,
\* whoever finds room is let in, a send fails only when the receiver is gone, and
\* the receiver sees the end exactly when the queue is empty and the last handle
\* went, although the code knows of the handles by a counter only.
Sending == {p \in Producer : send[p] # "none"}
F == INSTANCE Fifo WITH capacity <- max_queue_size, handles <- sender, sending <- Sending,
                        blocked <- Waiting, reader <- recv
ImplementsFifo == F!Spec
=============================================================================
