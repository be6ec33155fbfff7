----------------------------- MODULE MpscProofs ------------------------------
(***************************************************************************)
(* The channel loses neither an item nor a slot, for every number of       *)
(* producers and every size.                                               *)
(*                                                                         *)
(* The two events are queues in the sense of EventOpsProofs: a listener    *)
(* waits parked until it is notified, and the tasks that are woken are     *)
(* those of the notified listeners.  The two queues share the set of woken *)
(* tasks: the receiver's part of it belongs to the one, the producers'     *)
(* part to the other, and no operation of one event touches the other's    *)
(* part.  With that the properties are inductive as they stand: a push     *)
(* notifies the receiver when the queue was empty, so a receiver with more *)
(* to read was notified before; a pop of a channel with one slot always    *)
(* finds it full; and what a dropped future was notified of goes to the    *)
(* next one.                                                               *)
(***************************************************************************)
EXTENDS Mpsc, EventOpsProofs

ReceiverWoken == woken \cap {Receiver}

SendersWoken == woken \cap Producer

\* The registered listeners are those of the waiting futures, and they are queues.
Queues ==
    /\ Queue(receiver_event, ReceiverWoken, {Receiver}, Unit)
    /\ Queue(sender_event, SendersWoken, Producer, Unit)
    /\ Listeners(receiver_event) = IF recv = "waiting" THEN {Receiver} ELSE {}
    /\ Listeners(sender_event) = Waiting

\* The types, and the counter that counts the handles.
Channel ==
    /\ max_queue_size \in Nat
    /\ queue \in Seq(Producer) /\ Len(queue) <= max_queue_size
    /\ sender \subseteq Producer
    /\ senders \in Nat
    /\ Open => senders = Cardinality(sender)
    /\ send \in [Producer -> {"none", "new", "waiting"}]
    /\ recv \in {"idle", "waiting", "dropped"}
    /\ woken \subseteq Producer \cup {Receiver}

\* What the events promise, without the tasks that are woken.
Promises ==
    /\ recv = "waiting" /\ (queue # <<>> \/ senders = 0) => Receiver \in Notified(receiver_event)
    /\ max_queue_size = 1 /\ Open /\ HasRoom /\ Waiting # {} => Notified(sender_event) # {}
    /\ ~Open => Waiting \subseteq Notified(sender_event)

IInv == Channel /\ Queues /\ Promises
-----------------------------------------------------------------------------
\* The tasks an operation wakes are owners of listeners.
LEMMA WokenOwners ==
    ASSUME NEW S, NEW u, NEW e, NEW w, Queue(e, w, S, u)
    PROVE  /\ WokenByOne(e) \subseteq S /\ WokenByAll(e) \subseteq S
           /\ Notified(e) \subseteq Listeners(e) /\ Listeners(e) \subseteq S /\ w = Notified(e)
  <1>1. /\ Listeners(e) \subseteq S /\ Notified(e) \subseteq Listeners(e)
        /\ \A c \in Parked(e) : c \in S /\ e.waker[c] = c
    BY EventSets DEF Queue, EventInv
  <1> QED
    BY <1>1 DEF WokenByOne, WokenByAll, WakersOf, Queue

\* notify_all notifies and wakes every listener.
LEMMA NotifyAllQueue ==
    ASSUME NEW S, IsFiniteSet(S), NEW u, NEW e, NEW w, Queue(e, w, S, u)
    PROVE  LET d == NotifyAll(e, u) IN
           /\ Queue(d, w \cup WokenByAll(e), S, u)
           /\ Listeners(d) = Listeners(e) /\ Notified(d) = Listeners(e)
  <1> DEFINE T == Unnotified(e)
             d == NotifyAll(e, u)
  <1>1. /\ EventInv(e, S, {u}, S) /\ Parked(e) = T /\ w = Notified(e)
        /\ \A c \in Parked(e) : e.waker[c] = c
        /\ Notified(e) \subseteq Listeners(e)
    BY DEF Queue, Unnotified, EventInv
  <1>2. d = Mark(e, T, u) /\ WokenByAll(e) = T
    BY <1>1 DEF NotifyAll, WokenByAll, WakersOf
  <1>3. Notified(e) \cup T = Listeners(e)
    BY <1>1 DEF Unnotified
  <1> HIDE DEF T, d
  <1>4. EventInv(d, S, {u}, S) /\ Marked(d, e, T)
    BY <1>1, <1>2, MarkInv DEF T
  <1>5. Listeners(d) = Listeners(e) /\ Notified(d) = Listeners(e) /\ Parked(d) = {}
    BY <1>1, <1>3, <1>4 DEF Marked
  <1>6. Queue(d, w \cup WokenByAll(e), S, u)
    BY <1>1, <1>2, <1>3, <1>4, <1>5 DEF Queue
  <1> QED
    BY <1>5, <1>6 DEF d

\* An event whose listeners are all notified may go: nobody is parked.
LEMMA CloseQueue ==
    ASSUME NEW S, NEW u, NEW e, NEW w, Queue(e, w, S, u), Notified(e) = Listeners(e)
    PROVE  LET d == Close(e) IN
           /\ Queue(d, w, S, u)
           /\ Listeners(d) = Listeners(e) /\ Notified(d) = Notified(e)
  <1> DEFINE d == Close(e)
  <1>1. EventInv(e, S, {u}, S) /\ w = Notified(e)
    BY DEF Queue
  <1>2. /\ EventInv(d, S, {u}, S) /\ Listeners(d) = Listeners(e)
        /\ Notified(d) = Notified(e) /\ Parked(d) = {}
    <2>1. /\ EventInv(Close(e), S, {u}, S) /\ Listeners(Close(e)) = Listeners(e)
          /\ Notified(Close(e)) = Notified(e) /\ Parked(Close(e)) = {}
          /\ Close(e).closed
      BY ONLY <1>1, CloseInv, Zenon
    <2> QED
      BY <2>1
  <1> HIDE DEF d
  <1>3. Queue(d, w, S, u)
    BY <1>1, <1>2 DEF Queue
  <1> QED
    BY <1>2, <1>3 DEF d

\* A new event is an empty queue, also when it is dropped at once.
LEMMA NewQueue ==
    ASSUME NEW S, NEW u
    PROVE  /\ Queue(NewEvent, {}, S, u) /\ Listeners(NewEvent) = {}
           /\ Queue(Close(NewEvent), {}, S, u) /\ Listeners(Close(NewEvent)) = {}
  <1>1. Queue(NewEvent, {}, S, u) /\ Listeners(NewEvent) = {} /\ Notified(NewEvent) = {}
    BY NewEventInv DEF Queue
  <1> QED
    BY <1>1, CloseQueue

\* A future that goes, polled or dropped, takes no other's notification with it.
LEMMA NotificationsStay ==
    ASSUME NEW S, IsFiniteSet(S), NEW u, NEW e, NEW w, Queue(e, w, S, u)
    PROVE  /\ \A c \in Listeners(e) : Notified(e) \ {c} \subseteq Notified(DropListener(e, c))
           /\ \A c \in Notified(e) :
                  Notified(e) \ {c} \subseteq Notified(DropListener(Consume(e, c), c))
  <1>1. EventInv(e, S, {u}, S) /\ Notified(e) \subseteq Listeners(e)
    BY DEF Queue, EventInv
  <1>2. ASSUME NEW c \in Listeners(e)
        PROVE  Notified(e) \ {c} \subseteq Notified(DropListener(e, c))
    BY <1>1, DropListenerInv
  <1>3. ASSUME NEW c \in Notified(e)
        PROVE  Notified(e) \ {c} \subseteq Notified(DropListener(Consume(e, c), c))
    <2> DEFINE r == Consume(e, c)
    <2>1. /\ EventInv(r, S, {u}, S) /\ Listeners(r) = Listeners(e)
          /\ Notified(r) = Notified(e) \ {c}
      BY <1>1, ConsumeInv
    <2> HIDE DEF r
    <2>2. Notified(r) \ {c} \subseteq Notified(DropListener(r, c))
      BY <1>1, <2>1, DropListenerInv
    <2> QED
      BY <2>1, <2>2 DEF r
  <1> QED
    BY <1>2, <1>3
-----------------------------------------------------------------------------
\* A new channel has one handle and nobody waits.
LEMMA InitInv == Init => IInv
  <1> SUFFICES ASSUME Init PROVE IInv
    OBVIOUS
  <1>1. Channel
    <2>1. PICK p \in Producer : sender = {p}
      BY DEF Init
    <2>2. Cardinality(sender) = 1
      BY <2>1, FS_Singleton
    <2> QED
      BY <2>1, <2>2, CapacityAssumption DEF Init, Channel, Open
  <1>2. Waiting = {}
    BY DEF Init, Waiting
  <1>3. Queues
    <2>1. ReceiverWoken = {} /\ SendersWoken = {}
      BY DEF Init, ReceiverWoken, SendersWoken
    <2> QED
      BY <1>2, <2>1, NewQueue DEF Init, Queues
  <1>4. Promises
    BY <1>2 DEF Init, Promises, Open
  <1> QED
    BY <1>1, <1>3, <1>4 DEF IInv

\* What a push does: the receiver's queue is kept and a waiting receiver is notified.
LEMMA PushInv ==
    ASSUME IInv, NEW p \in Producer, NEW tasks, tasks \subseteq Producer \cup {Receiver},
           tasks \cap {Receiver} = ReceiverWoken, Push(p, tasks)
    PROVE  /\ Queue(receiver_event', ReceiverWoken', {Receiver}, Unit)
           /\ Listeners(receiver_event') = Listeners(receiver_event)
           /\ SendersWoken' = tasks \cap Producer
           /\ woken' \subseteq Producer \cup {Receiver}
           /\ queue' \in Seq(Producer) /\ Len(queue') <= max_queue_size /\ Len(queue') > 0
           /\ recv = "waiting" => Receiver \in Notified(receiver_event')
  <1>1. /\ Queue(receiver_event, tasks \cap {Receiver}, {Receiver}, Unit)
        /\ Listeners(receiver_event) = IF recv = "waiting" THEN {Receiver} ELSE {}
    BY DEF IInv, Queues
  <1>2. /\ queue' \in Seq(Producer) /\ Len(queue') <= max_queue_size /\ Len(queue') > 0
    <2>1. queue \in Seq(Producer) /\ Len(queue) < max_queue_size /\ queue' = Append(queue, p)
          /\ Len(queue) \in Nat /\ max_queue_size \in Nat
      BY DEF Push, HasRoom, IInv, Channel
    <2> QED
      BY <2>1
  <1>3. CASE queue = <<>>
    <2>1. receiver_event' = NotifyOne(receiver_event, Unit)
          /\ woken' = tasks \cup WokenByOne(receiver_event)
      BY <1>3 DEF Push
    <2>2. WokenByOne(receiver_event) \subseteq {Receiver}
      BY <1>1, WokenOwners
    <2>3. /\ ReceiverWoken' = (tasks \cap {Receiver}) \cup WokenByOne(receiver_event)
          /\ SendersWoken' = tasks \cap Producer
          /\ woken' \subseteq Producer \cup {Receiver}
      BY <2>1, <2>2, ReceiverAssumption DEF ReceiverWoken, SendersWoken
    <2>4. IsFiniteSet({Receiver})
      BY FS_Singleton
    <2>5. /\ Queue(receiver_event', ReceiverWoken', {Receiver}, Unit)
          /\ Listeners(receiver_event') = Listeners(receiver_event)
          /\ Listeners(receiver_event) # {} => Notified(receiver_event') # {}
      <3> DEFINE w == tasks \cap {Receiver}
                 d == NotifyOne(receiver_event, Unit)
      <3>1. Queue(receiver_event, w, {Receiver}, Unit)
        BY <1>1
      <3> HIDE DEF w
      <3>2. /\ Queue(d, w \cup WokenByOne(receiver_event), {Receiver}, Unit)
            /\ Listeners(d) = Listeners(receiver_event)
            /\ Listeners(receiver_event) # {} => Notified(d) # {}
        BY <2>4, <3>1, NotifyOneQueue
      <3> QED
        BY <2>1, <2>3, <3>2 DEF w
    <2>6. Notified(receiver_event') \subseteq {Receiver}
      BY <2>5, WokenOwners
    <2> QED
      BY <1>1, <1>2, <2>3, <2>5, <2>6
  <1>4. CASE queue # <<>>
    <2>1. receiver_event' = receiver_event /\ woken' = tasks
      BY <1>4 DEF Push
    <2>2. ReceiverWoken' = tasks \cap {Receiver} /\ SendersWoken' = tasks \cap Producer
      BY <2>1 DEF ReceiverWoken, SendersWoken
    <2>3. recv = "waiting" => Receiver \in Notified(receiver_event)
      BY <1>4 DEF IInv, Promises
    <2> QED
      BY <1>1, <1>2, <2>1, <2>2, <2>3
  <1> QED
    BY <1>3, <1>4
-----------------------------------------------------------------------------
(***************************************************************************)
(* The producers.                                                          *)
(***************************************************************************)

\* try_send: nothing but the queue and the receiver's event changes.
LEMMA TrySendInv ==
    ASSUME IInv, NEW p \in Producer, TrySend(p)
    PROVE  IInv'
  <1>1. /\ Push(p, woken) /\ Open
        /\ UNCHANGED <<max_queue_size, sender, senders, send, recv, sender_event>>
    BY DEF TrySend, Push
  <1>2. woken \subseteq Producer \cup {Receiver} /\ woken \cap {Receiver} = ReceiverWoken
    BY DEF IInv, Channel, ReceiverWoken
  <1>3. /\ Queue(receiver_event', ReceiverWoken', {Receiver}, Unit)
        /\ Listeners(receiver_event') = Listeners(receiver_event)
        /\ SendersWoken' = SendersWoken
        /\ woken' \subseteq Producer \cup {Receiver}
        /\ queue' \in Seq(Producer) /\ Len(queue') <= max_queue_size /\ Len(queue') > 0
        /\ recv = "waiting" => Receiver \in Notified(receiver_event')
    BY <1>1, <1>2, PushInv DEF SendersWoken
  <1>4. Channel'
    BY <1>1, <1>3 DEF IInv, Channel, Open
  <1>5. Waiting' = Waiting /\ Open'
    BY <1>1 DEF Waiting, Open
  <1>6. Queues'
    BY <1>1, <1>3, <1>5 DEF IInv, Queues
  <1>7. Promises'
    BY <1>1, <1>3, <1>4, <1>5 DEF Promises, HasRoom, Channel
  <1> QED
    BY <1>4, <1>6, <1>7 DEF IInv

\* The first poll of a Send, or one after its listener is gone: event e has the
\* listeners of the other futures, and a dropped receiver has notified them all.
LEMMA SendIdleInv ==
    ASSUME IInv, NEW p \in Producer, NEW e, SendIdle(p, e),
           Queue(e, SendersWoken \ {p}, Producer, Unit), Listeners(e) = Waiting \ {p},
           ~Open => Listeners(e) \subseteq Notified(e)
    PROVE  IInv'
  <1>1. /\ UNCHANGED <<max_queue_size, sender, senders, recv>>
        /\ send \in [Producer -> {"none", "new", "waiting"}]
        /\ Queue(receiver_event, ReceiverWoken, {Receiver}, Unit)
        /\ Listeners(receiver_event) = IF recv = "waiting" THEN {Receiver} ELSE {}
    BY DEF SendIdle, IInv, Channel, Queues
  <1>2. /\ woken \ {p} \subseteq Producer \cup {Receiver}
        /\ (woken \ {p}) \cap {Receiver} = ReceiverWoken
        /\ (woken \ {p}) \cap Producer = SendersWoken \ {p}
    BY ReceiverAssumption DEF IInv, Channel, ReceiverWoken, SendersWoken
  <1>3. CASE SendOk(p, e)
    <2>1. /\ Push(p, woken \ {p}) /\ Open /\ sender_event' = e
          /\ send' = [send EXCEPT ![p] = "none"]
      BY <1>3 DEF SendOk, Push
    <2>2. /\ Queue(receiver_event', ReceiverWoken', {Receiver}, Unit)
          /\ Listeners(receiver_event') = Listeners(receiver_event)
          /\ SendersWoken' = SendersWoken \ {p}
          /\ woken' \subseteq Producer \cup {Receiver}
          /\ queue' \in Seq(Producer) /\ Len(queue') <= max_queue_size /\ Len(queue') > 0
          /\ recv = "waiting" => Receiver \in Notified(receiver_event')
      BY <1>2, <2>1, PushInv
    <2>3. Waiting' = Waiting \ {p} /\ Open'
      BY <1>1, <2>1 DEF Waiting, Open
    <2>4. Channel'
      BY <1>1, <2>1, <2>2 DEF IInv, Channel, Open
    <2>5. Queues'
      BY <1>1, <2>1, <2>2, <2>3 DEF Queues
    <2>6. Promises'
      BY <1>1, <2>1, <2>2, <2>3, <2>4 DEF Promises, HasRoom, Channel
    <2> QED
      BY <2>4, <2>5, <2>6 DEF IInv
  <1>4. CASE SendWaits(p, e)
    <2>1. /\ Open /\ ~HasRoom /\ sender_event' = Park(Listen(e, p), p, p)
          /\ send' = [send EXCEPT ![p] = "waiting"]
          /\ woken' = woken \ {p} /\ UNCHANGED <<queue, receiver_event>>
      BY <1>4 DEF SendWaits
    <2>2. /\ ReceiverWoken' = ReceiverWoken /\ SendersWoken' = (SendersWoken \ {p}) \ {p}
          /\ woken' \subseteq Producer \cup {Receiver}
      BY <1>2, <2>1 DEF ReceiverWoken, SendersWoken
    <2>3. Waiting' = (Waiting \ {p}) \cup {p} /\ Open' /\ ~HasRoom'
      BY <1>1, <2>1 DEF Waiting, Open, HasRoom
    <2>4. /\ Queue(sender_event', SendersWoken', Producer, Unit)
          /\ Listeners(sender_event') = Waiting'
      BY <2>1, <2>2, <2>3, EnqueueQueue, ProducerAssumption
    <2>5. Channel'
      BY <1>1, <2>1, <2>2 DEF IInv, Channel, Open
    <2>6. Queues'
      BY <1>1, <2>1, <2>2, <2>4 DEF Queues
    <2>7. Promises'
      BY <1>1, <2>1, <2>3 DEF IInv, Promises
    <2> QED
      BY <2>5, <2>6, <2>7 DEF IInv
  <1>5. CASE SendFails(p, e)
    <2>1. /\ ~Open /\ sender_event' = e
          /\ send' = [send EXCEPT ![p] = "none"]
          /\ woken' = woken \ {p} /\ UNCHANGED <<queue, receiver_event>>
      BY <1>5 DEF SendFails
    <2>2. /\ ReceiverWoken' = ReceiverWoken /\ SendersWoken' = SendersWoken \ {p}
          /\ woken' \subseteq Producer \cup {Receiver}
      BY <1>2, <2>1 DEF ReceiverWoken, SendersWoken
    <2>3. Waiting' = Waiting \ {p} /\ ~Open'
      BY <1>1, <2>1 DEF Waiting, Open
    <2>4. Channel'
      BY <1>1, <2>1, <2>2 DEF IInv, Channel, Open
    <2>5. Queues'
      BY <1>1, <2>1, <2>2, <2>3 DEF Queues
    <2>6. Promises'
      BY <1>1, <2>1, <2>3 DEF IInv, Promises
    <2> QED
      BY <2>4, <2>5, <2>6 DEF IInv
  <1> QED
    BY <1>3, <1>4, <1>5 DEF SendIdle

\* The event of the first poll: the future has no listener yet.
LEMMA PollNewSendInv ==
    ASSUME IInv, NEW p \in Producer, PollNewSend(p)
    PROVE  IInv'
  <1>1. /\ Queue(sender_event, SendersWoken, Producer, Unit) /\ Listeners(sender_event) = Waiting
        /\ ~Open => Waiting \subseteq Notified(sender_event)
    BY DEF IInv, Queues, Promises
  <1>2. p \notin Waiting /\ SendIdle(p, sender_event)
    BY DEF PollNewSend, Waiting
  <1>3. SendersWoken \subseteq Waiting
    BY <1>1, WokenOwners
  <1>4. SendersWoken \ {p} = SendersWoken /\ Waiting \ {p} = Waiting
    BY <1>2, <1>3
  <1> QED
    BY <1>1, <1>2, <1>4, SendIdleInv

\* The event of a later poll: the notification is consumed, the listener dropped.
LEMMA PollNotifiedSendInv ==
    ASSUME IInv, NEW p \in Producer, PollNotifiedSend(p)
    PROVE  IInv'
  <1> DEFINE e == DropListener(Consume(sender_event, p), p)
  <1>1. /\ Queue(sender_event, SendersWoken, Producer, Unit) /\ Listeners(sender_event) = Waiting
        /\ ~Open => Waiting \subseteq Notified(sender_event)
        /\ p \in Notified(sender_event) /\ SendIdle(p, e)
    BY DEF IInv, Queues, Promises, PollNotifiedSend
  <1>2. /\ Queue(e, SendersWoken \ {p}, Producer, Unit) /\ Listeners(e) = Waiting \ {p}
        /\ Notified(sender_event) \ {p} \subseteq Notified(e)
    BY <1>1, ConsumeQueue, NotificationsStay, ProducerAssumption
  <1> HIDE DEF e
  <1>3. ~Open => Listeners(e) \subseteq Notified(e)
    BY <1>1, <1>2
  <1> QED
    BY <1>1, <1>2, <1>3, SendIdleInv

\* A new Send does not listen.
LEMMA NewSendInv ==
    ASSUME IInv, NEW p \in Producer, NewSend(p)
    PROVE  IInv'
  <1>1. /\ UNCHANGED <<max_queue_size, queue, sender, senders, recv, receiver_event,
                       sender_event, woken>>
        /\ send[p] = "none" /\ send' = [send EXCEPT ![p] = "new"]
        /\ send \in [Producer -> {"none", "new", "waiting"}]
    BY DEF NewSend, IInv, Channel
  <1>2. Waiting' = Waiting /\ Open' = Open /\ HasRoom' = HasRoom
        /\ ReceiverWoken' = ReceiverWoken /\ SendersWoken' = SendersWoken
    BY <1>1 DEF Waiting, Open, HasRoom, ReceiverWoken, SendersWoken
  <1>3. Channel'
    BY <1>1, <1>2 DEF IInv, Channel
  <1> QED
    BY <1>1, <1>2, <1>3 DEF IInv, Queues, Promises

\* The notification of a dropped Send goes to the next one.
LEMMA DropSendInv ==
    ASSUME IInv, NEW p \in Producer, DropSend(p)
    PROVE  IInv'
  <1>1. /\ UNCHANGED <<max_queue_size, queue, sender, senders, recv, receiver_event>>
        /\ send' = [send EXCEPT ![p] = "none"]
        /\ send \in [Producer -> {"none", "new", "waiting"}]
        /\ Queue(sender_event, SendersWoken, Producer, Unit) /\ Listeners(sender_event) = Waiting
        /\ ~Open => Waiting \subseteq Notified(sender_event)
        /\ max_queue_size = 1 /\ Open /\ HasRoom /\ Waiting # {} => Notified(sender_event) # {}
    BY DEF DropSend, IInv, Channel, Queues, Promises
  <1>2. Waiting' = Waiting \ {p} /\ Open' = Open /\ HasRoom' = HasRoom
    BY <1>1 DEF Waiting, Open, HasRoom
  <1>3. /\ Queue(sender_event', SendersWoken', Producer, Unit)
        /\ Listeners(sender_event') = Waiting \ {p}
        /\ Notified(sender_event) \ {p} \subseteq Notified(sender_event')
        /\ Notified(sender_event) # {} /\ Waiting \ {p} # {} => Notified(sender_event') # {}
        /\ woken' \subseteq Producer \cup {Receiver} /\ ReceiverWoken' = ReceiverWoken
    <2>1. CASE p \in Waiting
      <3> DEFINE d == DropListener(sender_event, p)
                 w == WokenByDrop(sender_event, p)
      <3>1. sender_event' = d /\ woken' = (woken \ {p}) \cup w
        BY <2>1 DEF DropSend
      <3>2. /\ Queue(d, (SendersWoken \ {p}) \cup w, Producer, Unit)
            /\ Listeners(d) = Waiting \ {p}
            /\ Notified(sender_event) # {} /\ Waiting \ {p} # {} => Notified(d) # {}
            /\ Notified(sender_event) \ {p} \subseteq Notified(d)
        BY <1>1, <2>1, DropQueue, NotificationsStay, ProducerAssumption
      <3> HIDE DEF d, w
      <3>3. w \subseteq Producer
        BY <3>2, WokenOwners
      <3>4. /\ SendersWoken' = (SendersWoken \ {p}) \cup w
            /\ ReceiverWoken' = ReceiverWoken
            /\ woken' \subseteq Producer \cup {Receiver}
        BY <3>1, <3>3, ReceiverAssumption DEF SendersWoken, ReceiverWoken, IInv, Channel
      <3> QED
        BY <3>1, <3>2, <3>4
    <2>2. CASE p \notin Waiting
      <3>1. sender_event' = sender_event /\ woken' = woken \ {p}
        BY <2>2 DEF DropSend
      <3>2. SendersWoken \subseteq Waiting /\ Waiting \ {p} = Waiting
        BY <1>1, <2>2, WokenOwners
      <3>3. /\ SendersWoken' = SendersWoken /\ ReceiverWoken' = ReceiverWoken
            /\ woken' \subseteq Producer \cup {Receiver}
        BY <2>2, <3>1, <3>2, ReceiverAssumption DEF SendersWoken, ReceiverWoken, IInv, Channel
      <3> QED
        BY <1>1, <3>1, <3>2, <3>3
    <2> QED
      BY <2>1, <2>2
  <1>4. Channel'
    BY <1>1, <1>2, <1>3 DEF IInv, Channel
  <1>5. Queues'
    BY <1>1, <1>2, <1>3 DEF IInv, Queues
  <1>6. Promises'
    BY <1>1, <1>2, <1>3 DEF IInv, Promises
  <1> QED
    BY <1>4, <1>5, <1>6 DEF IInv

\* A clone is counted; it neither reads nor notifies.
LEMMA CloneSenderInv ==
    ASSUME IInv, NEW p \in Producer, NEW q \in Producer, CloneSender(p, q)
    PROVE  IInv'
  <1>1. /\ UNCHANGED <<max_queue_size, queue, send, recv, receiver_event, sender_event, woken>>
        /\ q \notin sender /\ sender' = sender \cup {q}
        /\ senders' = IF Open THEN senders + 1 ELSE senders
        /\ sender \subseteq Producer /\ senders \in Nat
        /\ Open => senders = Cardinality(sender)
    BY DEF CloneSender, IInv, Channel
  <1>2. Waiting' = Waiting /\ Open' = Open /\ HasRoom' = HasRoom
        /\ ReceiverWoken' = ReceiverWoken /\ SendersWoken' = SendersWoken
    BY <1>1 DEF Waiting, Open, HasRoom, ReceiverWoken, SendersWoken
  <1>3. IsFiniteSet(sender) /\ Cardinality(sender') = Cardinality(sender) + 1
    BY <1>1, ProducerAssumption, FS_Subset, FS_AddElement
  <1>4. Channel'
    BY <1>1, <1>2, <1>3 DEF IInv, Channel
  <1>5. Open => senders' # 0
    BY <1>1
  <1>6. Promises'
    BY <1>1, <1>2, <1>5 DEF IInv, Promises, Open
  <1> QED
    BY <1>1, <1>2, <1>4, <1>6 DEF IInv, Queues

\* A refused try_send changes nothing.
LEMMA TrySendFailsInv ==
    ASSUME IInv, NEW p \in Producer, TrySendFails(p)
    PROVE  IInv'
  <1>1. UNCHANGED <<max_queue_size, queue, sender, senders, send, recv, receiver_event,
                    sender_event, woken>>
    BY DEF TrySendFails
  <1> QED
    BY <1>1 DEF IInv, Channel, Queues, Promises, ReceiverWoken, SendersWoken, Open, HasRoom,
                Waiting

\* The last handle that goes notifies a waiting receiver.
LEMMA DropSenderInv ==
    ASSUME IInv, NEW p \in Producer, DropSender(p)
    PROVE  IInv'
  <1>1. /\ UNCHANGED <<max_queue_size, queue, send, recv, sender_event>>
        /\ p \in sender /\ sender' = sender \ {p}
        /\ senders' = IF Open THEN senders - 1 ELSE senders
        /\ sender \subseteq Producer /\ senders \in Nat
        /\ Open => senders = Cardinality(sender)
        /\ Queue(receiver_event, ReceiverWoken, {Receiver}, Unit)
        /\ Listeners(receiver_event) = IF recv = "waiting" THEN {Receiver} ELSE {}
    BY DEF DropSender, IInv, Channel, Queues
  <1>2. Waiting' = Waiting /\ Open' = Open /\ HasRoom' = HasRoom
    BY <1>1 DEF Waiting, Open, HasRoom
  <1>3. /\ IsFiniteSet(sender) /\ Cardinality(sender') = Cardinality(sender) - 1
        /\ Cardinality(sender') \in Nat
    <2>1. IsFiniteSet(sender)
      BY <1>1, ProducerAssumption, FS_Subset
    <2>2. IsFiniteSet(sender') /\ Cardinality(sender') = Cardinality(sender) - 1
      BY <1>1, <2>1, FS_RemoveElement
    <2> QED
      BY <2>1, <2>2, FS_CardinalityType
  <1>4. /\ Queue(receiver_event', ReceiverWoken', {Receiver}, Unit)
        /\ Listeners(receiver_event') = Listeners(receiver_event)
        /\ Notified(receiver_event) \subseteq Notified(receiver_event')
        /\ recv = "waiting" /\ senders' = 0 => Receiver \in Notified(receiver_event')
        /\ woken' \subseteq Producer \cup {Receiver} /\ SendersWoken' = SendersWoken
    <2>1. CASE Open /\ senders = 1
      <3>1. /\ receiver_event' = NotifyAll(receiver_event, Unit)
            /\ woken' = woken \cup WokenByAll(receiver_event)
        BY <2>1 DEF DropSender
      <3>2. WokenByAll(receiver_event) \subseteq {Receiver}
            /\ Notified(receiver_event) \subseteq Listeners(receiver_event)
        BY <1>1, WokenOwners
      <3>3. /\ ReceiverWoken' = ReceiverWoken \cup WokenByAll(receiver_event)
            /\ SendersWoken' = SendersWoken /\ woken' \subseteq Producer \cup {Receiver}
        BY <3>1, <3>2, ReceiverAssumption DEF ReceiverWoken, SendersWoken, IInv, Channel
      <3>4. IsFiniteSet({Receiver})
        BY FS_Singleton
      <3>5. /\ Queue(receiver_event', ReceiverWoken', {Receiver}, Unit)
            /\ Listeners(receiver_event') = Listeners(receiver_event)
            /\ Notified(receiver_event') = Listeners(receiver_event)
        BY <1>1, <3>1, <3>3, <3>4, NotifyAllQueue
      <3> QED
        BY <1>1, <3>2, <3>3, <3>5
    <2>2. CASE ~(Open /\ senders = 1)
      <3>1. receiver_event' = receiver_event /\ woken' = woken
        BY <2>2 DEF DropSender
      <3>2. ReceiverWoken' = ReceiverWoken /\ SendersWoken' = SendersWoken
        BY <3>1 DEF ReceiverWoken, SendersWoken
      <3>3. recv = "waiting" => senders' # 0
        BY <1>1, <2>2 DEF Open
      <3> QED
        BY <1>1, <3>1, <3>2, <3>3 DEF IInv, Channel
    <2> QED
      BY <2>1, <2>2
  <1>5. Channel'
    BY <1>1, <1>2, <1>3, <1>4 DEF IInv, Channel
  <1>6. Queues'
    BY <1>1, <1>2, <1>4 DEF IInv, Queues
  <1>7. Promises'
    BY <1>1, <1>2, <1>4 DEF IInv, Promises
  <1> QED
    BY <1>5, <1>6, <1>7 DEF IInv
-----------------------------------------------------------------------------
(***************************************************************************)
(* The receiver.                                                           *)
(***************************************************************************)

\* A poll of a receiver that has no listener, with event e.
LEMMA RecvIdleInv ==
    ASSUME IInv, Open, NEW e, RecvIdle(e),
           Queue(e, {}, {Receiver}, Unit), Listeners(e) = {}
    PROVE  IInv'
  <1>1. /\ UNCHANGED <<max_queue_size, sender, senders, send>>
        /\ queue \in Seq(Producer) /\ Len(queue) <= max_queue_size /\ max_queue_size \in Nat
        /\ Queue(sender_event, SendersWoken, Producer, Unit) /\ Listeners(sender_event) = Waiting
        /\ Waiting' = Waiting
    BY DEF RecvIdle, IInv, Channel, Queues, Waiting
  <1>2. CASE RecvItem(e)
    <2>1. /\ queue # <<>> /\ queue' = Tail(queue) /\ recv' = "idle" /\ receiver_event' = e
      BY <1>2 DEF RecvItem
    <2>2. queue' \in Seq(Producer) /\ Len(queue') = Len(queue) - 1 /\ Len(queue) \in Nat
      BY <1>1, <2>1
    <2>3. /\ Queue(sender_event', SendersWoken', Producer, Unit)
          /\ Listeners(sender_event') = Waiting
          /\ max_queue_size = 1 /\ Waiting # {} => Notified(sender_event') # {}
          /\ woken' \subseteq Producer \cup {Receiver} /\ ReceiverWoken' = {}
      <3>1. CASE Len(queue) = max_queue_size
        <4>1. /\ sender_event' = NotifyOne(sender_event, Unit)
              /\ woken' = (woken \ {Receiver}) \cup WokenByOne(sender_event)
          BY <1>2, <3>1 DEF RecvItem
        <4>2. WokenByOne(sender_event) \subseteq Producer
          BY <1>1, WokenOwners
        <4>3. /\ SendersWoken' = SendersWoken \cup WokenByOne(sender_event)
              /\ ReceiverWoken' = {} /\ woken' \subseteq Producer \cup {Receiver}
          BY <4>1, <4>2, ReceiverAssumption DEF SendersWoken, ReceiverWoken, IInv, Channel
        <4> QED
          BY <1>1, <4>1, <4>3, NotifyOneQueue, ProducerAssumption
      <3>2. CASE Len(queue) # max_queue_size
        <4>1. sender_event' = sender_event /\ woken' = woken \ {Receiver}
          BY <1>2, <3>2 DEF RecvItem
        <4>2. /\ SendersWoken' = SendersWoken
              /\ ReceiverWoken' = {} /\ woken' \subseteq Producer \cup {Receiver}
          BY <4>1, ReceiverAssumption DEF SendersWoken, ReceiverWoken, IInv, Channel
        <4>3. max_queue_size # 1
          BY <1>1, <2>1, <3>2
        <4> QED
          BY <1>1, <4>1, <4>2, <4>3
      <3> QED
        BY <3>1, <3>2
    <2>4. Channel'
      BY <1>1, <2>1, <2>2, <2>3 DEF IInv, Channel, Open
    <2>5. Queues'
      BY <1>1, <2>1, <2>3 DEF Queues
    <2>6. Promises'
      BY <1>1, <2>1, <2>3 DEF Promises, Open
    <2> QED
      BY <2>4, <2>5, <2>6 DEF IInv
  <1>3. CASE RecvEnd(e) \/ RecvWaits(e)
    <2>1. /\ queue = <<>> /\ UNCHANGED <<queue, sender_event>> /\ woken' = woken \ {Receiver}
          /\ recv' \in {"idle", "waiting"}
      BY <1>3 DEF RecvEnd, RecvWaits
    <2>2. /\ SendersWoken' = SendersWoken
          /\ ReceiverWoken' = {} /\ woken' \subseteq Producer \cup {Receiver}
      BY <2>1, ReceiverAssumption DEF SendersWoken, ReceiverWoken, IInv, Channel
    <2>3. /\ Queue(receiver_event', {}, {Receiver}, Unit)
          /\ Listeners(receiver_event') = IF recv' = "waiting" THEN {Receiver} ELSE {}
          /\ recv' = "waiting" => senders # 0
      <3>1. CASE RecvEnd(e)
        BY <3>1 DEF RecvEnd
      <3>2. CASE RecvWaits(e)
        <4>1. /\ receiver_event' = Park(Listen(e, Receiver), Receiver, Receiver)
              /\ recv' = "waiting" /\ senders # 0
          BY <3>2 DEF RecvWaits
        <4>2. IsFiniteSet({Receiver})
          BY FS_Singleton
        <4>3. /\ Queue(receiver_event', {} \ {Receiver}, {Receiver}, Unit)
              /\ Listeners(receiver_event') = {} \cup {Receiver}
          BY <4>1, <4>2, EnqueueQueue
        <4>4. {} \ {Receiver} = {} /\ {} \cup {Receiver} = {Receiver}
          OBVIOUS
        <4> QED
          BY <4>1, <4>3, <4>4
      <3> QED
        BY <1>3, <3>1, <3>2
    <2>4. Open' /\ HasRoom' = HasRoom
      BY <1>1, <2>1 DEF Open, HasRoom
    <2>5. Channel'
      BY <1>1, <2>1, <2>2, <2>4 DEF IInv, Channel
    <2>6. Queues'
      BY <1>1, <2>1, <2>2, <2>3 DEF Queues
    <2>7. Promises'
      BY <1>1, <2>1, <2>3, <2>4 DEF IInv, Promises
    <2> QED
      BY <2>5, <2>6, <2>7 DEF IInv
  <1> QED
    BY <1>2, <1>3 DEF RecvIdle

\* An idle receiver has no listener; a notified one consumes and drops its own.
LEMMA PollReceiverInv ==
    ASSUME IInv, PollReceiver \/ PollNotifiedReceiver
    PROVE  IInv'
  <1>1. /\ Queue(receiver_event, ReceiverWoken, {Receiver}, Unit)
        /\ Listeners(receiver_event) = IF recv = "waiting" THEN {Receiver} ELSE {}
        /\ Notified(receiver_event) \subseteq Listeners(receiver_event)
        /\ ReceiverWoken = Notified(receiver_event)
    BY WokenOwners DEF IInv, Queues
  <1>2. CASE PollReceiver
    <2>1. recv = "idle" /\ Open /\ RecvIdle(receiver_event)
      BY <1>2 DEF PollReceiver, Open
    <2>2. Listeners(receiver_event) = {} /\ ReceiverWoken = {}
      BY <1>1, <2>1
    <2> QED
      BY <1>1, <2>1, <2>2, RecvIdleInv
  <1>3. CASE PollNotifiedReceiver
    <2> DEFINE e == DropListener(Consume(receiver_event, Receiver), Receiver)
    <2>1. recv = "waiting" /\ Open /\ RecvIdle(e) /\ Receiver \in Notified(receiver_event)
      BY <1>3 DEF PollNotifiedReceiver, Open
    <2>2. IsFiniteSet({Receiver})
      BY FS_Singleton
    <2>3. /\ Queue(e, ReceiverWoken \ {Receiver}, {Receiver}, Unit)
          /\ Listeners(e) = Listeners(receiver_event) \ {Receiver}
      BY <1>1, <2>1, <2>2, ConsumeQueue
    <2> HIDE DEF e
    <2>4. ReceiverWoken \ {Receiver} = {} /\ Listeners(receiver_event) \ {Receiver} = {}
      BY <1>1, <2>1
    <2> QED
      BY <2>1, <2>3, <2>4, RecvIdleInv
  <1> QED
    BY <1>2, <1>3

\* A dropped receiver notifies every blocked sender.
LEMMA DropReceiverInv ==
    ASSUME IInv, DropReceiver
    PROVE  IInv'
  <1> DEFINE d == NotifyAll(sender_event, Unit)
  <1>1. /\ UNCHANGED <<max_queue_size, sender, senders, send>>
        /\ recv' = "dropped" /\ queue' = <<>>
        /\ sender_event' = Close(d) /\ receiver_event' = Close(NewEvent)
        /\ woken' = (woken \ {Receiver}) \cup WokenByAll(sender_event)
        /\ Queue(sender_event, SendersWoken, Producer, Unit) /\ Listeners(sender_event) = Waiting
    BY DEF DropReceiver, IInv, Queues
  <1>2. WokenByAll(sender_event) \subseteq Producer
    BY <1>1, WokenOwners
  <1>3. /\ SendersWoken' = SendersWoken \cup WokenByAll(sender_event)
        /\ ReceiverWoken' = {} /\ woken' \subseteq Producer \cup {Receiver}
    BY <1>1, <1>2, ReceiverAssumption DEF SendersWoken, ReceiverWoken, IInv, Channel
  <1>4. /\ Queue(d, SendersWoken', Producer, Unit)
        /\ Listeners(d) = Waiting /\ Notified(d) = Waiting
    BY <1>1, <1>3, NotifyAllQueue, ProducerAssumption
  <1> HIDE DEF d
  <1>5. /\ Queue(sender_event', SendersWoken', Producer, Unit)
        /\ Listeners(sender_event') = Waiting /\ Notified(sender_event') = Waiting
    BY <1>1, <1>4, CloseQueue
  <1>6. Queue(receiver_event', ReceiverWoken', {Receiver}, Unit) /\ Listeners(receiver_event') = {}
    BY <1>1, <1>3, NewQueue
  <1>7. Waiting' = Waiting /\ ~Open'
    BY <1>1 DEF Waiting, Open
  <1>8. Channel'
    BY <1>1, <1>3, <1>7 DEF IInv, Channel
  <1>9. Queues' /\ Promises'
    BY <1>1, <1>5, <1>6, <1>7 DEF Queues, Promises
  <1> QED
    BY <1>8, <1>9 DEF IInv
-----------------------------------------------------------------------------
\* Every step keeps the invariant.
LEMMA NextInv == IInv /\ [Next]_vars => IInv'
  <1> SUFFICES ASSUME IInv, [Next]_vars PROVE IInv'
    OBVIOUS
  <1>1. CASE UNCHANGED vars
    BY <1>1 DEF vars, IInv, Channel, Queues, Promises, ReceiverWoken, SendersWoken, Open,
                HasRoom, Waiting
  <1>2. ASSUME NEW p \in Producer,
               \/ TrySend(p) \/ TrySendFails(p) \/ NewSend(p) \/ PollNewSend(p) \/ PollNotifiedSend(p)
               \/ DropSend(p) \/ DropSender(p)
        PROVE  IInv'
    BY <1>2, TrySendInv, TrySendFailsInv, NewSendInv, PollNewSendInv, PollNotifiedSendInv, DropSendInv,
       DropSenderInv
  <1>3. ASSUME NEW p \in Producer, NEW q \in Producer, CloneSender(p, q) PROVE IInv'
    BY <1>3, CloneSenderInv
  <1> QED
    BY <1>1, <1>2, <1>3, PollReceiverInv, DropReceiverInv DEF Next

\* The channel's invariant.
THEOREM ChannelInvariant == Spec => []IInv
  <1> QED
    BY InitInv, NextInv, PTL DEF Spec

Returned == returned \in Results

\* What a call returns names a producer: the caller's, or that of the queue's head.
LEMMA ReturnedInv == IInv /\ Returned /\ [Next]_vars => Returned'
  <1> SUFFICES ASSUME IInv, returned \in Results, [Next]_vars PROVE returned' \in Results
    BY DEF Returned, Results, Nothing
  <1>1. ASSUME NEW p \in Producer,
               returned' \in {Nothing, <<"sent", p>>, <<"refused", p>>, <<"failed", p>>}
        PROVE  returned' \in Results
    BY <1>1 DEF Results
  <1>2. ASSUME NEW p \in Producer,
               \/ TrySend(p) \/ TrySendFails(p) \/ NewSend(p) \/ PollNewSend(p)
               \/ PollNotifiedSend(p) \/ DropSend(p) \/ DropSender(p)
               \/ \E q \in Producer : CloneSender(p, q)
        PROVE  returned' \in Results
    BY <1>1, <1>2 DEF TrySend, Push, TrySendFails, NewSend, PollNewSend, PollNotifiedSend,
       SendIdle, SendOk, SendWaits, SendFails, DropSend, DropSender, CloneSender
  <1>3. ASSUME NEW e, RecvIdle(e) PROVE returned' \in Results
    <2>1. queue \in Seq(Producer)
      BY DEF IInv, Channel
    <2>2. CASE RecvItem(e)
      <3>1. Head(queue) \in Producer /\ returned' = <<"item", Head(queue)>>
        BY <2>1, <2>2 DEF RecvItem
      <3> QED
        BY <3>1 DEF Results
    <2>3. CASE RecvEnd(e) \/ RecvWaits(e)
      BY <2>3 DEF RecvEnd, RecvWaits, Results
    <2> QED
      BY <1>3, <2>2, <2>3 DEF RecvIdle
  <1>4. CASE PollReceiver \/ PollNotifiedReceiver
    BY <1>3, <1>4 DEF PollReceiver, PollNotifiedReceiver
  <1>5. CASE DropReceiver \/ UNCHANGED vars
    BY <1>5 DEF DropReceiver, vars, Results
  <1> QED
    BY <1>2, <1>4, <1>5 DEF Next

\* The queue is bounded, the counter counts the handles, and the listeners are
\* those of the waiting futures.
THEOREM ChannelTypeCorrect == Spec => []TypeOK
  <1>1. IInv /\ Returned => TypeOK
    <2> SUFFICES ASSUME IInv, returned \in Results PROVE TypeOK
      BY DEF Returned
    <2>1. /\ EventInv(receiver_event, {Receiver}, {Unit}, {Receiver})
          /\ EventInv(sender_event, Producer, {Unit}, Producer)
      BY DEF IInv, Queues, Queue
    <2> QED
      BY <2>1 DEF IInv, Channel, Queues, EventInv, TypeOK
  <1>2. Init => Returned
    BY DEF Init, Returned, Results
  <1> QED
    BY <1>1, <1>2, ReturnedInv, ChannelInvariant, PTL DEF Spec

\* A waiting receiver with an item to read, or with no sender left, is notified
\* and woken.
THEOREM DataIsAnnounced == Spec => []NoLostData
  <1>1. IInv => NoLostData
    BY WokenOwners DEF IInv, Queues, Promises, NoLostData, ReceiverWoken
  <1> QED
    BY <1>1, ChannelInvariant, PTL

\* In a channel with one slot a blocked Send is notified and woken while there is room.
THEOREM CapacityIsAnnounced == Spec => []NoLostCapacity
  <1>1. IInv => NoLostCapacity
    <2> SUFFICES ASSUME IInv, max_queue_size = 1, Open, HasRoom, Waiting # {}
                 PROVE  Waiting \cap Notified(sender_event) \cap woken # {}
      BY DEF NoLostCapacity, FreedCapacityIsNotified
    <2>1. /\ Notified(sender_event) # {} /\ Notified(sender_event) \subseteq Waiting
          /\ SendersWoken = Notified(sender_event)
      BY WokenOwners DEF IInv, Queues, Promises
    <2> QED
      BY <2>1 DEF SendersWoken
  <1> QED
    BY <1>1, ChannelInvariant, PTL

\* Once the receiver is gone every blocked Send is notified and woken.
THEOREM BlockedSendsAreTold == Spec => []BlockedSendsFail
  <1>1. IInv => BlockedSendsFail
    <2> SUFFICES ASSUME IInv, ~Open PROVE Waiting \subseteq Notified(sender_event) \cap woken
      BY DEF BlockedSendsFail
    <2>1. /\ Waiting \subseteq Notified(sender_event)
          /\ SendersWoken = Notified(sender_event)
      BY WokenOwners DEF IInv, Queues, Promises
    <2> QED
      BY <2>1 DEF SendersWoken
  <1> QED
    BY <1>1, ChannelInvariant, PTL
-----------------------------------------------------------------------------
(***************************************************************************)
(* The channel is a bounded queue.  What the steps have to show is that    *)
(* the counter stands for the handles, and that nothing else about events  *)
(* and wakers decides what a call returns.                                 *)
(***************************************************************************)

\* While the channel is open its counter is zero exactly if no handle is left.
LEMMA CountedHandles ==
    ASSUME IInv, Open
    PROVE  senders = 0 <=> sender = {}
  <1>1. IsFiniteSet(sender) /\ senders = Cardinality(sender)
    BY ProducerAssumption, FS_Subset DEF IInv, Channel
  <1> QED
    BY <1>1, FS_EmptySet

\* A push is an Enqueue.
LEMMA PushEnqueues ==
    ASSUME NEW p \in Producer, NEW tasks, Push(p, tasks)
    PROVE  F!Enqueue(p)
  <1> QED
    BY DEF Push, Open, HasRoom, F!Enqueue, F!Alive, F!Room

\* A Send that is over is neither under way nor blocked.
LEMMA SendSettles ==
    ASSUME IInv, NEW p \in Producer, send' = [send EXCEPT ![p] = "none"]
    PROVE  F!Settle(p)
  <1>1. send \in [Producer -> {"none", "new", "waiting"}]
    BY DEF IInv, Channel
  <1> QED
    BY <1>1 DEF F!Settle, Sending, Waiting

\* The calls of a Sender.
LEMMA SenderSteps ==
    ASSUME IInv, NEW p \in Producer,
           TrySend(p) \/ TrySendFails(p) \/ NewSend(p) \/ DropSender(p)
    PROVE  F!Next
  <1>1. CASE TrySend(p)
    <2>1. F!Enqueue(p)
      BY <1>1, PushEnqueues DEF TrySend
    <2>2. F!TrySend(p)
      BY <1>1, <2>1 DEF TrySend, F!TrySend, Sending, Waiting
    <2> QED
      BY <2>2 DEF F!Next
  <1>2. CASE TrySendFails(p)
    <2>1. F!TrySend(p)
      BY <1>2 DEF TrySendFails, Open, HasRoom, F!TrySend, F!Alive, F!Room, Sending, Waiting
    <2> QED
      BY <2>1 DEF F!Next
  <1>3. CASE NewSend(p)
    <2>1. /\ p \in sender \ Sending /\ Sending' = Sending \cup {p} /\ Waiting' = Waiting
      BY <1>3 DEF NewSend, IInv, Channel, Sending, Waiting
    <2>2. F!Begin(p)
      BY <1>3, <2>1 DEF NewSend, F!Begin, F!Nothing, Nothing
    <2> QED
      BY <2>2 DEF F!Next
  <1>4. CASE DropSender(p)
    <2>1. F!Handle(p)
      BY <1>4 DEF DropSender, F!Handle, F!Nothing, Nothing, Sending, Waiting
    <2> QED
      BY <2>1 DEF F!Next
  <1> QED
    BY <1>1, <1>2, <1>3, <1>4

\* A clone is made from another handle.
LEMMA CloneStep ==
    ASSUME NEW p \in Producer, NEW q \in Producer, CloneSender(p, q)
    PROVE  F!Next
  <1>1. F!Handle(q)
    BY DEF CloneSender, F!Handle, F!Nothing, Nothing, Sending, Waiting
  <1> QED
    BY <1>1 DEF F!Next

\* A poll of a Send, whatever its event: done, blocked or failed.
LEMMA SendIdleStep ==
    ASSUME IInv, NEW p \in Producer, p \in Sending, NEW e, SendIdle(p, e)
    PROVE  F!Next
  <1>1. UNCHANGED <<max_queue_size, sender, senders, recv>>
    BY DEF SendIdle
  <1>2. CASE SendOk(p, e)
    <2>1. F!Enqueue(p) /\ F!Settle(p)
      BY <1>2, PushEnqueues, SendSettles DEF SendOk
    <2>2. F!Complete(p)
      BY <1>1, <2>1 DEF F!Complete
    <2> QED
      BY <2>2 DEF F!Next
  <1>3. CASE SendWaits(p, e)
    <2>1. Sending' = Sending /\ Waiting' = Waiting \cup {p}
      BY <1>3 DEF SendWaits, IInv, Channel, Sending, Waiting
    <2>2. F!Block(p)
      BY <1>1, <1>3, <2>1
         DEF SendWaits, Open, HasRoom, F!Block, F!Alive, F!Room, F!Nothing, Nothing
    <2> QED
      BY <2>2 DEF F!Next
  <1>4. CASE SendFails(p, e)
    <2>1. F!Settle(p)
      BY <1>4, SendSettles DEF SendFails
    <2>2. F!Fail(p)
      BY <1>1, <1>4, <2>1 DEF SendFails, Open, F!Fail, F!Alive
    <2> QED
      BY <2>2 DEF F!Next
  <1> QED
    BY <1>2, <1>3, <1>4 DEF SendIdle

\* The polls and the drop of a Send.
LEMMA SendSteps ==
    ASSUME IInv, NEW p \in Producer, PollNewSend(p) \/ PollNotifiedSend(p) \/ DropSend(p)
    PROVE  F!Next
  <1>1. CASE PollNewSend(p)
    BY <1>1, SendIdleStep DEF PollNewSend, Sending
  <1>2. CASE PollNotifiedSend(p)
    BY <1>2, SendIdleStep DEF PollNotifiedSend, Sending, Waiting
  <1>3. CASE DropSend(p)
    <2>1. p \in Sending /\ F!Settle(p)
      BY <1>3, SendSettles DEF DropSend, Sending
    <2>2. F!Abandon(p)
      BY <1>3, <2>1 DEF DropSend, F!Abandon, F!Nothing, Nothing
    <2> QED
      BY <2>2 DEF F!Next
  <1> QED
    BY <1>1, <1>2, <1>3

\* A poll of the receiver: an item, the end once the counter is zero, or it waits.
LEMMA RecvIdleStep ==
    ASSUME IInv, Open, NEW e, RecvIdle(e)
    PROVE  F!Next
  <1>1. /\ UNCHANGED <<max_queue_size, sender, senders, send>>
        /\ Sending' = Sending /\ Waiting' = Waiting
    BY DEF RecvIdle, Sending, Waiting
  <1>2. CASE RecvItem(e)
    <2>1. F!Receive
      BY <1>1, <1>2 DEF RecvItem, Open, F!Receive, F!Alive
    <2> QED
      BY <2>1 DEF F!Next
  <1>3. CASE RecvEnd(e)
    <2>1. F!End
      BY <1>1, <1>3, CountedHandles DEF RecvEnd, Open, F!End, F!Alive
    <2> QED
      BY <2>1 DEF F!Next
  <1>4. CASE RecvWaits(e)
    <2>1. F!Wait
      BY <1>1, <1>4, CountedHandles
         DEF RecvWaits, Open, F!Wait, F!Alive, F!Nothing, Nothing
    <2> QED
      BY <2>1 DEF F!Next
  <1> QED
    BY <1>2, <1>3, <1>4 DEF RecvIdle

\* The polls and the drop of the receiver.
LEMMA ReceiverSteps ==
    ASSUME IInv, PollReceiver \/ PollNotifiedReceiver \/ DropReceiver
    PROVE  F!Next
  <1>1. CASE PollReceiver
    BY <1>1, RecvIdleStep DEF PollReceiver, Open
  <1>2. CASE PollNotifiedReceiver
    BY <1>2, RecvIdleStep DEF PollNotifiedReceiver, Open
  <1>3. CASE DropReceiver
    <2>1. F!Leave
      BY <1>3 DEF DropReceiver, Open, F!Leave, F!Alive, F!Nothing, Nothing, Sending, Waiting
    <2> QED
      BY <2>1 DEF F!Next
  <1> QED
    BY <1>1, <1>2, <1>3

\* The channel implements a bounded queue: items leave in the order in which they
\* came, a send fails only when the receiver is gone, and the end is seen exactly
\* when the queue is empty and the last handle went.
THEOREM ChannelIsFifo == Spec => ImplementsFifo
  <1>1. Init => F!Init
    BY CapacityAssumption DEF Init, F!Init, F!Nothing, Nothing, Sending, Waiting
  <1>2. IInv /\ [Next]_vars => [F!Next]_F!fifoVars
    <2> SUFFICES ASSUME IInv, [Next]_vars PROVE F!Next \/ UNCHANGED F!fifoVars
      OBVIOUS
    <2>1. CASE UNCHANGED vars
      BY <2>1 DEF vars, F!fifoVars, Sending, Waiting
    <2>2. ASSUME NEW p \in Producer,
                 \/ TrySend(p) \/ TrySendFails(p) \/ NewSend(p) \/ PollNewSend(p)
                 \/ PollNotifiedSend(p) \/ DropSend(p) \/ DropSender(p)
          PROVE  F!Next
      BY <2>2, SenderSteps, SendSteps
    <2> QED
      BY <2>1, <2>2, CloneStep, ReceiverSteps DEF Next
  <1> QED
    BY <1>1, <1>2, ChannelInvariant, PTL DEF Spec, ImplementsFifo, F!Spec
=============================================================================
