----------------------------- MODULE MutexProofs -----------------------------
(***************************************************************************)
(* Mutual exclusion and the absence of lost wake-ups in the asynchronous   *)
(* mutex, for every finite set of clients; then the same with a poller     *)
(* that may stop polling at any time, and the order of the items that its  *)
(* locked sink forwards.                                                   *)
(*                                                                         *)
(* The argument follows the event: every registered client is notified or  *)
(* parked under its own name, and the woken clients are the notified ones. *)
(* Queue of EventOpsProofs says so; each operation of the event that the   *)
(* mutex uses keeps it and leaves someone notified whenever it has to.     *)
(* IInv adds the clients.                                                  *)
(*                                                                         *)
(* A step of the poller is a step of a client, except that its guard       *)
(* belongs to another client, or is gone at the end of the step, so IInv   *)
(* serves for both.  The sink has an invariant of its own: a full slot     *)
(* holds the last item sent.                                               *)
(***************************************************************************)
EXTENDS PollMutex, EventOpsProofs

(***************************************************************************)
(* The mutex.                                                              *)
(***************************************************************************)
IInv ==
    /\ Queue(ev, woken, Client, Unit)
    /\ locked \in BOOLEAN
    /\ state \in [Client -> {"idle", "waiting", "holding"}]
    /\ Listeners(ev) = Waiting
    /\ MutualExclusion
    /\ ~locked /\ Waiting # {} => Notified(ev) # {}

\* Nobody waits for a new mutex.
LEMMA InitInv == Init => IInv
  <1> SUFFICES ASSUME Init PROVE IInv
    OBVIOUS
  <1>1. /\ EventInv(ev, Client, {Unit}, Client)
        /\ Listeners(ev) = {} /\ Notified(ev) = {} /\ Parked(ev) = {}
    BY NewEventInv DEF Init
  <1>2. Waiting = {} /\ Holding = {}
    BY DEF Init, Waiting, Holding
  <1> QED
    BY <1>1, <1>2 DEF Init, IInv, Queue, MutualExclusion

\* A client that is not registered takes the lock if it is free.
LEMMA AcquireInv ==
    ASSUME IInv, NEW c \in Client, state[c] # "holding", NEW e, Acquire(c, e),
           Queue(e, woken \ {c}, Client, Unit), Listeners(e) = Waiting \ {c}
    PROVE  IInv'
  <1>1. /\ ~locked /\ locked' = TRUE /\ ev' = NotifyOne(e, Unit)
        /\ woken' = (woken \ {c}) \cup WokenByOne(e)
        /\ state' = [state EXCEPT ![c] = "holding"]
    BY DEF Acquire
  <1>2. Queue(ev', woken', Client, Unit) /\ Listeners(ev') = Waiting \ {c}
    BY <1>1, NotifyOneQueue, ClientAssumption
  <1>3. /\ Waiting' = Waiting \ {c} /\ Holding' = Holding \cup {c}
        /\ state' \in [Client -> {"idle", "waiting", "holding"}]
    BY <1>1 DEF IInv, Waiting, Holding
  <1>4. Holding = {}
    BY <1>1 DEF IInv, MutualExclusion
  <1>5. MutualExclusion'
    BY <1>1, <1>3, <1>4 DEF MutualExclusion
  <1> QED
    BY <1>1, <1>2, <1>3, <1>5 DEF IInv

\* A client that is not registered joins the queue if the lock is taken.
LEMMA EnqueueInv ==
    ASSUME IInv, NEW c \in Client, state[c] # "holding", NEW e, Enqueue(c, e),
           Queue(e, woken \ {c}, Client, Unit), Listeners(e) = Waiting \ {c}
    PROVE  IInv'
  <1>1. /\ locked /\ locked' = locked /\ ev' = Park(Listen(e, c), c, c)
        /\ woken' = woken \ {c} /\ state' = [state EXCEPT ![c] = "waiting"]
    BY DEF Enqueue
  <1>2. Queue(ev', (woken \ {c}) \ {c}, Client, Unit) /\ Listeners(ev') = Waiting \cup {c}
    BY <1>1, EnqueueQueue, ClientAssumption
  <1>3. (woken \ {c}) \ {c} = woken'
    BY <1>1
  <1>4. /\ Waiting' = Waiting \cup {c} /\ Holding' = Holding
        /\ state' \in [Client -> {"idle", "waiting", "holding"}]
    BY <1>1 DEF IInv, Waiting, Holding
  <1> QED
    BY <1>1, <1>2, <1>3, <1>4 DEF IInv, MutualExclusion

\* Every step of a client keeps the invariant.
LEMMA NextInv == IInv /\ [Next]_vars => IInv'
  <1> SUFFICES ASSUME IInv, [Next]_vars PROVE IInv'
    OBVIOUS
  <1>0. /\ Queue(ev, woken, Client, Unit) /\ Listeners(ev) = Waiting
        /\ woken = Notified(ev) /\ Notified(ev) \subseteq Waiting
    BY DEF IInv, Queue, EventInv
  <1>1. ASSUME NEW c \in Client, PollFirst(c) PROVE IInv'
    <2>1. state[c] = "idle" /\ c \notin Waiting
      BY <1>1 DEF PollFirst, Waiting
    <2>2. woken \ {c} = woken /\ Waiting \ {c} = Waiting
      BY <1>0, <2>1
    <2> QED
      BY <1>0, <1>1, <2>1, <2>2, AcquireInv, EnqueueInv DEF PollFirst
  <1>2. ASSUME NEW c \in Client, PollNotified(c) PROVE IInv'
    <2> DEFINE e == DropListener(Consume(ev, c), c)
    <2>1. c \in Waiting /\ c \in Notified(ev) /\ (Acquire(c, e) \/ Enqueue(c, e))
      BY <1>2 DEF PollNotified
    <2>2. Queue(e, woken \ {c}, Client, Unit) /\ Listeners(e) = Waiting \ {c}
      BY <1>0, <2>1, ConsumeQueue, ClientAssumption
    <2> HIDE DEF e
    <2> QED
      BY <2>1, <2>2, AcquireInv, EnqueueInv DEF Waiting
  <1>3. ASSUME NEW c \in Client, PollPending(c) PROVE IInv'
    <2>1. /\ ev' = Park(ev, c, c) /\ woken' = woken \ {c}
          /\ locked' = locked /\ state' = state
      BY <1>3 DEF PollPending
    <2>2. c \in Unnotified(ev)
      BY <1>0, <1>3 DEF PollPending, Unnotified
    <2>3. Queue(ev', woken', Client, Unit) /\ Listeners(ev') = Listeners(ev) /\ Notified(ev') = Notified(ev)
      BY <1>0, <2>1, <2>2, ParkQueue, ClientAssumption
    <2> QED
      BY <2>1, <2>3 DEF IInv, MutualExclusion, Waiting, Holding
  <1>4. ASSUME NEW c \in Client, DropFuture(c) PROVE IInv'
    <2>1. /\ c \in Waiting /\ ev' = DropListener(ev, c) /\ locked' = locked
          /\ woken' = (woken \ {c}) \cup WokenByDrop(ev, c)
          /\ state' = [state EXCEPT ![c] = "idle"]
      BY <1>4 DEF DropFuture
    <2>2. /\ Queue(ev', woken', Client, Unit) /\ Listeners(ev') = Waiting \ {c}
          /\ Notified(ev) # {} /\ Listeners(ev') # {} => Notified(ev') # {}
      BY <1>0, <2>1, DropQueue, ClientAssumption
    <2>3. /\ Waiting' = Waiting \ {c} /\ Holding' = Holding
          /\ state' \in [Client -> {"idle", "waiting", "holding"}]
      BY <2>1 DEF IInv, Waiting, Holding
    <2> QED
      BY <2>1, <2>2, <2>3 DEF IInv, MutualExclusion
  <1>5. ASSUME NEW c \in Client, Unlock(c) PROVE IInv'
    <2>1. /\ c \in Holding /\ ev' = NotifyOne(ev, Unit) /\ locked' = FALSE
          /\ woken' = woken \cup WokenByOne(ev)
          /\ state' = [state EXCEPT ![c] = "idle"]
      BY <1>5 DEF Unlock
    <2>2. /\ Queue(ev', woken', Client, Unit) /\ Listeners(ev') = Waiting
          /\ Waiting # {} => Notified(ev') # {}
      BY <1>0, <2>1, NotifyOneQueue, ClientAssumption
    <2>3. /\ Waiting' = Waiting /\ Holding' = Holding \ {c}
          /\ state' \in [Client -> {"idle", "waiting", "holding"}]
      BY <2>1 DEF IInv, Waiting, Holding
    <2>4. Holding' = {}
      BY <2>1, <2>3 DEF IInv, MutualExclusion
    <2> QED
      BY <2>1, <2>2, <2>3, <2>4 DEF IInv, MutualExclusion
  <1>6. CASE UNCHANGED vars
    BY <1>6 DEF vars, IInv, MutualExclusion, Waiting, Holding
  <1> QED
    BY <1>1, <1>2, <1>3, <1>4, <1>5, <1>6 DEF Next

\* The inductive invariant holds in every reachable state.
THEOREM MutexInvariant == Spec => []IInv
  BY InitInv, NextInv, PTL DEF Spec

\* The waiting futures are the registered ones, each notified or parked.
THEOREM MutexTypeCorrect == Spec => []TypeOK
  <1>1. IInv => TypeOK
    <2> SUFFICES ASSUME IInv PROVE TypeOK
      OBVIOUS
    <2>1. Queue(ev, woken, Client, Unit) /\ EventInv(ev, Client, {Unit}, Client)
      BY DEF IInv, Queue
    <2>2. /\ ev \in EventType(Client, {Unit}, Client) /\ Distinct(ev)
          /\ Notified(ev) \subseteq Listeners(ev) /\ Notified(ev) \subseteq Client
      BY <2>1, EventSets DEF EventInv
    <2> QED
      BY <2>1, <2>2 DEF IInv, Queue, TypeOK
  <1> QED
    BY <1>1, MutexInvariant, PTL

\* At most one guard exists, and the flag says whether one does.
THEOREM Exclusion == Spec => []MutualExclusion
  <1>1. IInv => MutualExclusion
    BY DEF IInv
  <1> QED
    BY <1>1, MutexInvariant, PTL

\* The woken tasks are those of the notified futures.
THEOREM WokenAreNotified == Spec => []WokenIffNotified
  <1>1. IInv => WokenIffNotified
    BY DEF IInv, Queue, WokenIffNotified
  <1> QED
    BY <1>1, MutexInvariant, PTL

\* A free mutex with waiters has a notified, woken one.
THEOREM NoWakeupIsLost == Spec => []NoLostWakeup
  <1>1. IInv => NoLostWakeup
    BY DEF IInv, Queue, EventInv, NoLostWakeup
  <1> QED
    BY <1>1, MutexInvariant, PTL

\* A step of the mutex changes the guards as a lock does, or not at all.
LEMMA LockStep == IInv /\ [Next]_vars => [L!Next]_Guards
  <1> SUFFICES ASSUME IInv, [Next]_vars PROVE [L!Next]_Guards
    OBVIOUS
  <1>1. state \in [Client -> {"idle", "waiting", "holding"}] /\ MutualExclusion
    BY DEF IInv
  <1>2. ASSUME NEW c \in Client, state[c] # "holding", NEW e, Acquire(c, e)
        PROVE L!Next
    <2>1. ~locked /\ state' = [state EXCEPT ![c] = "holding"]
      BY <1>2 DEF Acquire
    <2>2. Guards[c] = "none" /\ \A d \in Client : Guards[d] = "none"
      BY <1>1, <1>2, <2>1 DEF Guards, MutualExclusion, Holding
    <2>3. Guards' = [Guards EXCEPT ![c] = "write"]
      BY <1>1, <2>1 DEF Guards
    <2> QED
      BY <2>2, <2>3 DEF L!Next, L!Acquire
  <1>3. ASSUME NEW c \in Client, state[c] # "holding",
               state' = [state EXCEPT ![c] = "waiting"] \/ state' = [state EXCEPT ![c] = "idle"]
        PROVE Guards' = Guards
    BY <1>1, <1>3 DEF Guards
  <1>4. ASSUME NEW c \in Client, PollFirst(c) PROVE [L!Next]_Guards
    BY <1>2, <1>3, <1>4 DEF PollFirst, Enqueue
  <1>5. ASSUME NEW c \in Client, PollNotified(c) PROVE [L!Next]_Guards
    BY <1>2, <1>3, <1>5 DEF PollNotified, Enqueue, Waiting
  <1>6. ASSUME NEW c \in Client, PollPending(c) PROVE Guards' = Guards
    BY <1>6 DEF PollPending, Guards
  <1>7. ASSUME NEW c \in Client, DropFuture(c) PROVE Guards' = Guards
    BY <1>3, <1>7 DEF DropFuture, Waiting
  <1>8. ASSUME NEW c \in Client, Unlock(c) PROVE L!Next
    <2>1. state[c] = "holding" /\ state' = [state EXCEPT ![c] = "idle"]
      BY <1>8 DEF Unlock, Holding
    <2>2. Guards[c] = "write" /\ Guards' = [Guards EXCEPT ![c] = "none"]
      BY <1>1, <2>1 DEF Guards
    <2> QED
      BY <2>2 DEF L!Next, L!Release
  <1>9. CASE UNCHANGED vars
    BY <1>9 DEF vars, Guards
  <1> QED
    BY <1>4, <1>5, <1>6, <1>7, <1>8, <1>9 DEF Next

\* The mutex implements the abstract lock.
THEOREM MutexIsLock == Spec => ImplementsLock
  <1>1. Init => L!Init
    BY DEF Init, L!Init, Guards
  <1> QED
    BY <1>1, LockStep, MutexInvariant, PTL DEF Spec, ImplementsLock, L!Spec
-----------------------------------------------------------------------------
(***************************************************************************)
(* The poller.                                                             *)
(***************************************************************************)

\* The future that runs has no listener and no wake-up.
LEMMA UnregisteredQueue ==
    ASSUME IInv, Runs
    PROVE  /\ Queue(Unregistered, woken \ {Poller}, Client, Unit)
           /\ Listeners(Unregistered) = Waiting \ {Poller}
           /\ state[Poller] # "holding" /\ Poller \in Client
  <1>1. /\ Queue(ev, woken, Client, Unit) /\ Listeners(ev) = Waiting
        /\ woken = Notified(ev) /\ Notified(ev) \subseteq Waiting
    BY DEF IInv, Queue, EventInv
  <1>2. CASE state[Poller] = "idle"
    <2>1. Poller \notin Waiting /\ Unregistered = ev
      BY <1>2 DEF Waiting, Unregistered
    <2>2. woken \ {Poller} = woken /\ Waiting \ {Poller} = Waiting
      BY <1>1, <2>1
    <2> QED
      BY <1>1, <1>2, <2>1, <2>2, PollerAssumption
  <1>3. CASE state[Poller] # "idle"
    <2>1. /\ Poller \in Notified(ev) /\ Poller \in Waiting
          /\ Unregistered = DropListener(Consume(ev, Poller), Poller)
      BY <1>1, <1>3 DEF Runs, Unregistered
    <2>2. /\ Queue(Unregistered, woken \ {Poller}, Client, Unit)
          /\ Listeners(Unregistered) = Waiting \ {Poller}
      BY <1>1, <2>1, ConsumeQueue, ClientAssumption
    <2> QED
      BY <2>1, <2>2, PollerAssumption DEF Waiting
  <1> QED
    BY <1>2, <1>3

\* poll_lock that is ready gives its caller the only guard.
LEMMA PollLockReadyInv ==
    ASSUME IInv, NEW c \in Client, PollLockReady(c)
    PROVE  IInv'
  <1> DEFINE e == Unregistered
  <1>1. /\ ~locked /\ locked' = TRUE /\ c # Poller /\ state[c] = "idle"
        /\ ev' = NotifyOne(e, Unit) /\ woken' = (woken \ {Poller}) \cup WokenByOne(e)
        /\ state' = [state EXCEPT ![Poller] = "idle", ![c] = "holding"]
    BY DEF PollLockReady
  <1>2. /\ Queue(e, woken \ {Poller}, Client, Unit) /\ Listeners(e) = Waiting \ {Poller}
        /\ state[Poller] # "holding" /\ Poller \in Client
    BY UnregisteredQueue DEF PollLockReady
  <1> HIDE DEF e
  <1>3. Queue(ev', woken', Client, Unit) /\ Listeners(ev') = Waiting \ {Poller}
    BY <1>1, <1>2, NotifyOneQueue, ClientAssumption
  <1>4. Holding = {} /\ state \in [Client -> {"idle", "waiting", "holding"}]
    BY <1>1 DEF IInv, MutualExclusion
  <1>5. /\ Waiting' = Waiting \ {Poller} /\ Holding' = {c}
        /\ state' \in [Client -> {"idle", "waiting", "holding"}]
    BY <1>1, <1>2, <1>4 DEF Waiting, Holding
  <1> QED
    BY <1>1, <1>3, <1>5 DEF IInv, MutualExclusion

\* A poll of the sink leaves the mutex free and, if anyone waits, someone notified.
LEMMA PollSinkInv ==
    ASSUME IInv, PollSink
    PROVE  IInv'
  <1> DEFINE e == Unregistered
             d == NotifyOne(e, Unit)
  <1>1. /\ ~locked /\ locked' = locked
        /\ ev' = NotifyOne(d, Unit)
        /\ woken' = ((woken \ {Poller}) \cup WokenByOne(e)) \cup WokenByOne(d)
        /\ state' = [state EXCEPT ![Poller] = "idle"]
    BY DEF PollSink
  <1>2. /\ Queue(e, woken \ {Poller}, Client, Unit) /\ Listeners(e) = Waiting \ {Poller}
        /\ state[Poller] # "holding" /\ Poller \in Client
    BY UnregisteredQueue DEF PollSink
  <1> HIDE DEF e
  <1>3. /\ Queue(d, (woken \ {Poller}) \cup WokenByOne(e), Client, Unit)
        /\ Listeners(d) = Waiting \ {Poller}
    BY <1>2, NotifyOneQueue, ClientAssumption
  <1> HIDE DEF d
  <1>4. /\ Queue(ev', woken', Client, Unit) /\ Listeners(ev') = Waiting \ {Poller}
        /\ Waiting \ {Poller} # {} => Notified(ev') # {}
    BY <1>1, <1>3, NotifyOneQueue, ClientAssumption
  <1>5. /\ Waiting' = Waiting \ {Poller} /\ Holding' = Holding
        /\ state' \in [Client -> {"idle", "waiting", "holding"}]
    BY <1>1, <1>2 DEF IInv, Waiting, Holding
  <1> QED
    BY <1>1, <1>4, <1>5 DEF IInv, MutualExclusion

\* poll_lock that is pending is a step of the poller as a client.
LEMMA PollLockPendingInv ==
    ASSUME IInv, PollLockPending
    PROVE  IInv'
  <1>1. CASE PollPending(Poller)
    BY <1>1, NextInv, PollerAssumption DEF Next
  <1>2. CASE Runs /\ Enqueue(Poller, Unregistered)
    BY <1>2, UnregisteredQueue, EnqueueInv
  <1> QED
    BY <1>1, <1>2 DEF PollLockPending

\* Every step of the composition keeps the mutex's invariant.
LEMMA PollNextInv == IInv /\ [PollNext]_pollVars => IInv'
  <1> SUFFICES ASSUME IInv, [PollNext]_pollVars PROVE IInv'
    OBVIOUS
  <1>1. ASSUME NEW c \in Client, LockUser(c) \/ DropGuard(c) PROVE IInv'
    BY <1>1, NextInv DEF LockUser, DropGuard, Next
  <1>2. ASSUME UNCHANGED vars PROVE IInv'
    BY <1>2, NextInv
  <1>3. CASE StartSend
    BY <1>2, <1>3 DEF StartSend
  <1>4. CASE DropPollMutex
    BY <1>2, <1>4, NextInv, PollerAssumption DEF DropPollMutex, Next
  <1>5. CASE UNCHANGED pollVars
    BY <1>2, <1>5 DEF pollVars
  <1> QED
    BY <1>1, <1>3, <1>4, <1>5, PollLockReadyInv, PollSinkInv, PollLockPendingInv DEF PollNext

\* The mutex's invariant holds with a poller.
THEOREM PollMutexInvariant == PollSpec => []IInv
  <1>1. PollInit => IInv
    BY InitInv DEF PollInit
  <1> QED
    BY <1>1, PollNextInv, PTL DEF PollSpec

\* The future that the poller keeps is registered like any other.
THEOREM PollTypeCorrect == PollSpec => []TypeOK
  <1>1. IInv => TypeOK
    <2> SUFFICES ASSUME IInv PROVE TypeOK
      OBVIOUS
    <2>1. Queue(ev, woken, Client, Unit) /\ EventInv(ev, Client, {Unit}, Client)
      BY DEF IInv, Queue
    <2>2. /\ ev \in EventType(Client, {Unit}, Client) /\ Distinct(ev)
          /\ Notified(ev) \subseteq Listeners(ev) /\ Notified(ev) \subseteq Client
      BY <2>1, EventSets DEF EventInv
    <2> QED
      BY <2>1, <2>2 DEF IInv, Queue, TypeOK
  <1> QED
    BY <1>1, PollMutexInvariant, PTL

\* A free mutex with waiters has a notified, woken one, which may be the poller.
THEOREM PollNoWakeupIsLost == PollSpec => []NoLostWakeup
  <1>1. IInv => NoLostWakeup
    BY DEF IInv, Queue, EventInv, NoLostWakeup
  <1> QED
    BY <1>1, PollMutexInvariant, PTL
-----------------------------------------------------------------------------
\* A full slot holds the last item sent; no other item is missing.
SinkInv ==
    /\ sent \in Nat
    /\ slot \in {0, sent}
    /\ inner \in Seq(1 .. sent)
    /\ ItemsForwardedInOrder

\* What an accepted item does to the items of the inner sink.
LEMMA Accepted ==
    ASSUME SinkInv, slot # 0, inner' = Append(inner, slot), sent' = sent
    PROVE  /\ inner' \in Seq(1 .. sent)
           /\ Range(inner') = Range(inner) \cup {slot}
           /\ \A i, j \in DOMAIN inner' : i < j => inner'[i] < inner'[j]
  <1>1. sent \in Nat /\ slot = sent /\ slot \in 1 .. sent /\ inner \in Seq(1 .. sent)
    BY DEF SinkInv
  <1>2. /\ inner' \in Seq(1 .. sent) /\ DOMAIN inner' = 1 .. Len(inner) + 1
        /\ DOMAIN inner = 1 .. Len(inner) /\ Len(inner) \in Nat
        /\ \A i \in 1 .. Len(inner) : inner'[i] = inner[i]
        /\ inner'[Len(inner) + 1] = slot
    BY <1>1
  <1>3. \A i \in 1 .. Len(inner) : inner[i] \in 1 .. sent /\ inner[i] # slot
    BY <1>1, <1>2 DEF SinkInv, ItemsForwardedInOrder, Range
  <1>4. \A i \in 1 .. Len(inner) : inner[i] < slot
    BY <1>1, <1>3
  <1>5. \A i, j \in DOMAIN inner' : i < j => inner'[i] < inner'[j]
    BY <1>2, <1>4 DEF SinkInv, ItemsForwardedInOrder
  <1>6. Range(inner') = Range(inner) \cup {slot}
    BY <1>2 DEF Range
  <1> QED
    BY <1>2, <1>5, <1>6

\* The slot's item is accepted, answered with an error, or kept.
LEMMA FlushSlotInv ==
    ASSUME SinkInv, FlushSlot, sent' = sent
    PROVE  SinkInv'
  <1>1. CASE slot # 0 /\ slot' = 0 /\ inner' = Append(inner, slot) /\ UNCHANGED failed
    BY <1>1, Accepted DEF SinkInv, ItemsForwardedInOrder
  <1>2. CASE slot # 0 /\ slot' = 0 /\ failed' = failed \cup {slot} /\ UNCHANGED inner
    BY <1>2 DEF SinkInv, ItemsForwardedInOrder
  <1>3. CASE UNCHANGED <<slot, inner, failed>>
    BY <1>3 DEF SinkInv, ItemsForwardedInOrder
  <1> QED
    BY <1>1, <1>2, <1>3 DEF FlushSlot

\* An item is sent when the slot is empty.
LEMMA StartSendInv ==
    ASSUME SinkInv, StartSend
    PROVE  SinkInv'
  <1>1. /\ slot = 0 /\ sent' = sent + 1 /\ slot' = sent + 1
        /\ inner' = inner /\ failed' = failed /\ sent \in Nat
    BY DEF StartSend, SinkInv
  <1>2. 1 .. sent = Range(inner) \cup failed
    BY <1>1 DEF SinkInv, ItemsForwardedInOrder
  <1>3. sent + 1 \notin 1 .. sent /\ 1 .. sent + 1 = (1 .. sent) \cup {sent + 1}
    BY <1>1
  <1>4. inner \in Seq(1 .. sent + 1)
    BY <1>1 DEF SinkInv
  <1>5. Range(inner') = Range(inner)
    BY <1>1
  <1> QED
    BY <1>1, <1>2, <1>3, <1>4, <1>5 DEF SinkInv, ItemsForwardedInOrder

\* Every other step leaves the items alone.
LEMMA SinkNextInv == SinkInv /\ [PollNext]_pollVars => SinkInv'
  <1> SUFFICES ASSUME SinkInv, [PollNext]_pollVars PROVE SinkInv'
    OBVIOUS
  <1>1. CASE StartSend
    BY <1>1, StartSendInv
  <1>2. CASE PollSink
    BY <1>2, FlushSlotInv DEF PollSink
  <1>3. CASE UNCHANGED <<slot, sent, inner, failed>>
    BY <1>3 DEF SinkInv, ItemsForwardedInOrder
  <1>4. StartSend \/ PollSink \/ UNCHANGED <<slot, sent, inner, failed>>
    BY DEF PollNext, LockUser, DropGuard, PollLockReady, PollLockPending, DropPollMutex,
           pollVars, sinkVars
  <1> QED
    BY <1>1, <1>2, <1>3, <1>4

\* Items reach the inner sink once each and in the order they were sent.
THEOREM ItemsInOrder == PollSpec => []ItemsForwardedInOrder
  <1>1. PollInit => SinkInv
    BY DEF PollInit, SinkInv, ItemsForwardedInOrder, Range
  <1>2. SinkInv => ItemsForwardedInOrder
    BY DEF SinkInv
  <1> QED
    BY <1>1, <1>2, SinkNextInv, PTL DEF PollSpec
-----------------------------------------------------------------------------
\* A step of the composition changes the guards as a lock does, or not at all.
LEMMA PollLockStep == IInv /\ [PollNext]_pollVars => [L!Next]_Guards
  <1> SUFFICES ASSUME IInv, [PollNext]_pollVars PROVE [L!Next]_Guards
    OBVIOUS
  <1>1. /\ state \in [Client -> {"idle", "waiting", "holding"}] /\ MutualExclusion
        /\ Poller \in Client
    BY PollerAssumption DEF IInv
  <1>2. Runs => state[Poller] # "holding"
    BY UnregisteredQueue
  <1>3. ASSUME [Next]_vars PROVE [L!Next]_Guards
    BY <1>3, LockStep
  <1>4. ASSUME NEW c \in Client, PollLockReady(c) PROVE L!Next
    <2>1. /\ ~locked /\ c # Poller /\ state[Poller] # "holding"
          /\ state' = [state EXCEPT ![Poller] = "idle", ![c] = "holding"]
      BY <1>2, <1>4 DEF PollLockReady
    <2>2. \A d \in Client : Guards[d] = "none"
      BY <1>1, <2>1 DEF Guards, MutualExclusion, Holding
    <2>3. Guards' = [Guards EXCEPT ![c] = "write"]
      BY <1>1, <2>1 DEF Guards
    <2> QED
      BY <2>2, <2>3 DEF L!Next, L!Acquire
  <1>5. CASE PollSink
    BY <1>1, <1>2, <1>5 DEF PollSink, Guards
  <1>6. CASE PollLockPending
    BY <1>1, <1>2, <1>6 DEF PollLockPending, PollPending, Enqueue, Guards
  <1>7. ASSUME NEW c \in Client, LockUser(c) \/ DropGuard(c) PROVE [Next]_vars
    BY <1>7 DEF LockUser, DropGuard, Next
  <1>8. CASE StartSend \/ DropPollMutex \/ UNCHANGED pollVars
    <2>1. DropFuture(Poller) => Next
      BY <1>1 DEF Next
    <2>2. DropFuture(Poller) \/ UNCHANGED vars
      BY <1>8 DEF StartSend, DropPollMutex, pollVars
    <2> QED
      BY <1>3, <2>1, <2>2
  <1> QED
    BY <1>3, <1>4, <1>5, <1>6, <1>7, <1>8 DEF PollNext

\* The mutex is a lock with a poller, too.
THEOREM PollMutexIsLock == PollSpec => ImplementsLock
  <1>1. PollInit => L!Init
    BY DEF PollInit, Init, L!Init, Guards
  <1> QED
    BY <1>1, PollLockStep, PollMutexInvariant, PTL DEF PollSpec, ImplementsLock, L!Spec
=============================================================================
