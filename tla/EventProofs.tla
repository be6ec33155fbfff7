----------------------------- MODULE EventProofs -----------------------------
(***************************************************************************)
(* The properties of Event, for every finite set of listeners and every    *)
(* set of tasks and values.                                                *)
(*                                                                         *)
(* None of CountMatches, NoLostWake and WakerIsCurrent is inductive alone: *)
(* the counter needs the notified listeners to be registered and never     *)
(* parked, and a wake-up reaches its task only because the stored waker is *)
(* the one of the last poller.  IInv puts the three together.              *)
(***************************************************************************)
EXTENDS Event, EventOpsProofs

IInv ==
    /\ EventInv(ev, Listener, Value, Task)
    /\ woken \subseteq Listeners(ev)
    /\ poller \in [Listener -> Task \cup {NoTask}]
    /\ NoLostWake
    /\ WakerIsCurrent

\* Nobody is registered in the initial state.
LEMMA InitInv == Init => IInv
  <1> SUFFICES ASSUME Init PROVE IInv
    OBVIOUS
  <1>1. EventInv(ev, Listener, Value, Task) /\ Listeners(ev) = {} /\ Notified(ev) = {}
    BY NewEventInv DEF Init
  <1> QED
    BY <1>1 DEF Init, IInv, NoLostWake, WakerIsCurrent

\* A listener whose last poller sleeps is registered, parked, and its stored waker
\* is the one of that poller.
LEMMA Sleeper ==
    ASSUME IInv, NEW l \in Listener, poller[l] # NoTask
    PROVE  /\ l \in Listeners(ev)
           /\ l \in woken \/ (l \in Parked(ev) /\ l \notin Notified(ev) /\ ev.waker[l] = poller[l])
  BY DEF IInv, WakerIsCurrent, EventInv

\* Waking the stored wakers of parked listeners wakes registered listeners only,
\* the parked ones among them.
LEMMA WakeReaches ==
    ASSUME IInv, NEW T \in SUBSET Unnotified(ev), Wake(WakersOf(ev, T))
    PROVE  /\ woken' \subseteq Listeners(ev)
           /\ woken \subseteq woken'
           /\ \A l \in T : poller[l] # NoTask => l \in woken'
  <1>1. /\ \A l \in Parked(ev) : ev.waker[l] \in Task
        /\ Listeners(ev) \subseteq Listener /\ T \subseteq Listener
    BY EventSets DEF IInv, EventInv, Unnotified
  <1>2. WakersOf(ev, T) \subseteq Task
    BY <1>1 DEF WakersOf
  <1>3. woken' = woken \cup {l \in Listener : poller[l] \in WakersOf(ev, T)}
    BY DEF Wake
  <1>4. \A l \in Listener : poller[l] \in WakersOf(ev, T) => l \in Listeners(ev)
    BY <1>2, NoTaskAssumption, Sleeper
  <1>5. ASSUME NEW l \in T, poller[l] # NoTask PROVE l \in woken'
    <2>1. l \in woken \/ (l \in Parked(ev) /\ ev.waker[l] = poller[l])
      BY <1>1, <1>5, Sleeper
    <2> QED
      BY <1>1, <1>3, <2>1 DEF WakersOf
  <1> QED
    BY <1>3, <1>4, <1>5 DEF IInv

\* A notification that marks some unnotified listeners keeps the invariant.
LEMMA NotifyPreserves ==
    ASSUME IInv, NEW T \in SUBSET Unnotified(ev), NEW v \in Value,
           ev' = Mark(ev, T, v), Wake(WakersOf(ev, T)), UNCHANGED poller
    PROVE  IInv'
  <1>1. EventInv(ev, Listener, Value, Task) /\ IsFiniteSet(Listener)
    BY ListenerAssumption DEF IInv
  <1>2. EventInv(ev', Listener, Value, Task) /\ Marked(ev', ev, T)
    BY <1>1, MarkInv
  <1>3. /\ Listeners(ev') = Listeners(ev) /\ Notified(ev') = Notified(ev) \cup T
        /\ Parked(ev') = Parked(ev) \ T
        /\ \A l \in Parked(ev') : ev'.waker[l] = ev.waker[l]
    BY <1>2 DEF Marked
  <1>4. /\ woken' \subseteq Listeners(ev) /\ woken \subseteq woken'
        /\ \A l \in T : poller[l] # NoTask => l \in woken'
    BY WakeReaches
  <1>5. NoLostWake'
    BY <1>3, <1>4 DEF NoLostWake, IInv
  <1>6. WakerIsCurrent'
    BY <1>3, <1>4, Sleeper DEF WakerIsCurrent
  <1> QED
    BY <1>2, <1>3, <1>4, <1>5, <1>6 DEF IInv

\* The walk of notify marks unnotified listeners only.
LEMMA TargetsUnnotified ==
    ASSUME NEW n
    PROVE  /\ NotifyTargets(ev, n) \subseteq Unnotified(ev)
           /\ AdditionalTargets(ev, n) \subseteq Unnotified(ev)
  BY DEF NotifyTargets, AdditionalTargets, FirstUnnotified

\* Every step of the program keeps the invariant.
LEMMA NextInv == IInv /\ [Next]_vars => IInv'
  <1> SUFFICES ASSUME IInv, [Next]_vars PROVE IInv'
    OBVIOUS
  <1> USE ListenerAssumption, NoTaskAssumption
  <1>0. /\ EventInv(ev, Listener, Value, Task) /\ woken \subseteq Listeners(ev)
        /\ poller \in [Listener -> Task \cup {NoTask}]
        /\ Listeners(ev) \subseteq Listener
        /\ \A l \in Parked(ev) : ev.waker[l] \in Task
    BY EventSets DEF IInv, EventInv
  <1>1. ASSUME NEW l \in Listener, ListenFor(l) PROVE IInv'
    <2>1. /\ l \notin Listeners(ev) /\ ev' = Listen(ev, l)
          /\ poller' = [poller EXCEPT ![l] = NoTask] /\ woken' = woken
      BY <1>1 DEF ListenFor
    <2>2. /\ EventInv(ev', Listener, Value, Task)
          /\ Listeners(ev') = Listeners(ev) \cup {l}
          /\ Notified(ev') = Notified(ev) /\ Parked(ev') = Parked(ev)
          /\ ev'.waker = ev.waker
      BY <1>0, <2>1, ListenInv
    <2>3. poller' \in [Listener -> Task \cup {NoTask}] /\ poller'[l] = NoTask
          /\ \A m \in Listener : m # l => poller'[m] = poller[m]
      BY <1>0, <2>1
    <2>4. Notified(ev) \subseteq Listener
      BY <1>0 DEF EventInv
    <2>5. NoLostWake'
      BY <2>1, <2>2, <2>3, <2>4 DEF IInv, NoLostWake
    <2>6. WakerIsCurrent'
      BY <2>1, <2>2, <2>3 DEF IInv, WakerIsCurrent
    <2> QED
      BY <1>0, <2>1, <2>2, <2>3, <2>5, <2>6 DEF IInv
  <1>2. ASSUME NEW l \in Listener, DropHandle(l) PROVE IInv'
    <2> DEFINE T == Successors(ev, l)
               W == WokenByDrop(ev, l)
    <2>1. /\ l \in Listeners(ev) /\ ev' = DropListener(ev, l)
          /\ woken' = (woken \cup {m \in Listener : poller[m] \in W}) \ {l}
          /\ poller' = [poller EXCEPT ![l] = NoTask]
      BY <1>2 DEF DropHandle
    <2>2. /\ EventInv(ev', Listener, Value, Task)
          /\ Listeners(ev') = Listeners(ev) \ {l}
          /\ T \subseteq Unnotified(ev) \ {l}
          /\ Notified(ev') = (Notified(ev) \ {l}) \cup T
          /\ Parked(ev') = (Parked(ev) \ {l}) \ T
          /\ \A m \in Parked(ev') : ev'.waker[m] = ev.waker[m]
          /\ W = {ev.waker[m] : m \in T \cap Parked(ev)}
      BY <1>0, <2>1, DropListenerInv
    <2>3. /\ poller' \in [Listener -> Task \cup {NoTask}] /\ poller'[l] = NoTask
          /\ \A m \in Listener : m # l => poller'[m] = poller[m]
      BY <1>0, <2>1
    <2> HIDE DEF T, W
    <2>4. W \subseteq Task
      BY <1>0, <2>2
    <2>5. woken' \subseteq Listeners(ev')
      <3>1. \A m \in Listener : poller[m] \in W => m \in Listeners(ev)
        BY <2>4, Sleeper
      <3> QED
        BY <1>0, <2>1, <2>2, <3>1
    <2>6. ASSUME NEW m \in T, poller'[m] # NoTask PROVE m \in woken'
      <3>1. m \in Listener /\ m # l /\ poller[m] # NoTask
        BY <1>0, <2>2, <2>3, <2>6 DEF Unnotified
      <3>2. m \in woken \/ (m \in Parked(ev) /\ ev.waker[m] = poller[m])
        BY <3>1, Sleeper
      <3> QED
        BY <2>1, <2>2, <2>6, <3>1, <3>2
    <2>7. Notified(ev) \subseteq Listener
      BY <1>0 DEF EventInv
    <2>8. NoLostWake'
      BY <2>1, <2>2, <2>3, <2>6, <2>7 DEF IInv, NoLostWake
    <2>9. WakerIsCurrent'
      <3> SUFFICES ASSUME NEW m \in Listener, poller'[m] # NoTask, m \notin woken'
                   PROVE  m \in Parked(ev') /\ ev'.waker[m] = poller'[m]
        BY DEF WakerIsCurrent
      <3>1. m # l /\ poller[m] = poller'[m] /\ m \notin woken /\ m \notin T
        BY <2>1, <2>3, <2>6
      <3>2. m \in Parked(ev) /\ ev.waker[m] = poller[m]
        BY <3>1, Sleeper
      <3> QED
        BY <2>2, <3>1, <3>2
    <2> QED
      BY <2>2, <2>3, <2>5, <2>8, <2>9 DEF IInv
  <1>3. ASSUME NEW l \in Listener, PollReady(l) PROVE IInv'
    <2>1. /\ l \in Notified(ev) /\ ev' = Consume(ev, l)
          /\ woken' = woken \ {l} /\ poller' = [poller EXCEPT ![l] = NoTask]
      BY <1>3 DEF PollReady
    <2>2. /\ EventInv(ev', Listener, Value, Task)
          /\ Listeners(ev') = Listeners(ev)
          /\ Notified(ev') = Notified(ev) \ {l} /\ Parked(ev') = Parked(ev)
          /\ ev'.waker = ev.waker
      BY <1>0, <2>1, ConsumeInv
    <2>3. /\ poller' \in [Listener -> Task \cup {NoTask}] /\ poller'[l] = NoTask
          /\ \A m \in Listener : m # l => poller'[m] = poller[m]
      BY <1>0, <2>1
    <2>4. Notified(ev) \subseteq Listener
      BY <1>0 DEF EventInv
    <2>5. NoLostWake'
      BY <2>1, <2>2, <2>3, <2>4 DEF IInv, NoLostWake
    <2>6. WakerIsCurrent'
      BY <2>1, <2>2, <2>3 DEF IInv, WakerIsCurrent
    <2> QED
      BY <1>0, <2>1, <2>2, <2>3, <2>5, <2>6 DEF IInv
  <1>4. ASSUME NEW l \in Listener, NEW t \in Task, PollPending(l, t) PROVE IInv'
    <2>1. /\ l \in Unnotified(ev) /\ ev' = Park(ev, l, t)
          /\ woken' = woken \ {l} /\ poller' = [poller EXCEPT ![l] = t]
      BY <1>4 DEF PollPending
    <2>2. /\ EventInv(ev', Listener, Value, Task)
          /\ Listeners(ev') = Listeners(ev) /\ Notified(ev') = Notified(ev)
          /\ Parked(ev') = Parked(ev) \cup {l}
          /\ \A m \in Parked(ev') : ev'.waker[m] = IF m = l THEN t ELSE ev.waker[m]
      BY <1>0, <2>1, ParkInv
    <2>3. /\ poller' \in [Listener -> Task \cup {NoTask}] /\ poller'[l] = t
          /\ \A m \in Listener : m # l => poller'[m] = poller[m]
      BY <1>0, <2>1
    <2>4. l \notin Notified(ev) /\ Notified(ev) \subseteq Listener
      BY <1>0, <2>1 DEF EventInv, Unnotified
    <2>5. NoLostWake'
      BY <2>1, <2>2, <2>3, <2>4 DEF IInv, NoLostWake
    <2>6. WakerIsCurrent'
      BY <2>1, <2>2, <2>3 DEF IInv, WakerIsCurrent
    <2> QED
      BY <1>0, <2>1, <2>2, <2>3, <2>5, <2>6 DEF IInv
  <1>5. ASSUME NEW n \in 0 .. UsizeMax, NEW v \in Value, Notify(n, v) PROVE IInv'
    <2> DEFINE T == IF n = UsizeMax THEN Unnotified(ev) ELSE NotifyTargets(ev, n)
    <2>1. T \in SUBSET Unnotified(ev)
      BY TargetsUnnotified
    <2>2. ev' = Mark(ev, T, v) /\ Wake(WakersOf(ev, T)) /\ UNCHANGED poller
      BY <1>5 DEF Notify
    <2> HIDE DEF T
    <2> QED
      BY <2>1, <2>2, NotifyPreserves
  <1>6. ASSUME NEW n \in 0 .. UsizeMax, NEW v \in Value, NotifyAdditional(n, v) PROVE IInv'
    <2>1. AdditionalTargets(ev, n) \in SUBSET Unnotified(ev)
      BY TargetsUnnotified
    <2> QED
      BY <1>6, <2>1, NotifyPreserves DEF NotifyAdditional
  <1>7. CASE DropEvent
    <2>1. ev' = Close(ev) /\ Wake(WakersOf(ev, Listeners(ev))) /\ poller' = poller
      BY <1>7 DEF DropEvent
    <2>2. /\ EventInv(ev', Listener, Value, Task)
          /\ Listeners(ev') = Listeners(ev) /\ Notified(ev') = Notified(ev)
      BY <1>0, <2>1, CloseInv
    <2>3. WakersOf(ev, Listeners(ev)) \subseteq Task
      BY <1>0 DEF WakersOf
    <2>4. woken' = woken \cup {l \in Listener : poller[l] \in WakersOf(ev, Listeners(ev))}
      BY <2>1 DEF Wake
    <2>5. woken' \subseteq Listeners(ev')
      BY <1>0, <2>2, <2>3, <2>4, Sleeper
    <2>6. \A l \in Listener : poller[l] # NoTask => l \in woken'
      BY <2>4, Sleeper DEF WakersOf
    <2>7. Notified(ev) \subseteq Listener
      BY <1>0 DEF EventInv
    <2> QED
      BY <1>0, <2>1, <2>2, <2>5, <2>6, <2>7 DEF IInv, NoLostWake, WakerIsCurrent
  <1>8. CASE UNCHANGED vars
    BY <1>8 DEF vars, IInv, NoLostWake, WakerIsCurrent
  <1> QED
    BY <1>1, <1>2, <1>3, <1>4, <1>5, <1>6, <1>7, <1>8 DEF Next

\* The inductive invariant holds in every reachable state.
THEOREM EventInvariant == Spec => []IInv
  BY InitInv, NextInv, PTL DEF Spec

\* The record of the event keeps its shape.
THEOREM EventTypeCorrect == Spec => []TypeOK
  <1>1. IInv => TypeOK
    BY DEF IInv, EventInv, TypeOK
  <1> QED
    BY <1>1, EventInvariant, PTL

\* Inner::notified counts exactly the listeners that hold a value.
THEOREM CounterCorrect == Spec => []CountMatches
  <1>1. IInv => CountMatches
    BY DEF IInv, EventInv, CountMatches
  <1> QED
    BY <1>1, EventInvariant, PTL

\* No task sleeps on a listener that is notified.
THEOREM NoWakeIsLost == Spec => []NoLostWake
  <1>1. IInv => NoLostWake
    BY DEF IInv
  <1> QED
    BY <1>1, EventInvariant, PTL

\* The stored waker of a pending listener is the one of its last poller.
THEOREM WakersAreCurrent == Spec => []WakerIsCurrent
  <1>1. IInv => WakerIsCurrent
    BY DEF IInv
  <1> QED
    BY <1>1, EventInvariant, PTL

\* Notified, unnotified and registered listeners after a mark.
LEMMA MarkSets ==
    ASSUME IInv, NEW T \in SUBSET Unnotified(ev), NEW v \in Value, ev' = Mark(ev, T, v)
    PROVE  /\ Notified(ev)' = Notified(ev) \cup T
           /\ Listeners(ev)' = Listeners(ev)
           /\ Unnotified(ev)' = Unnotified(ev) \ T
           /\ \A a, b : Before(ev', a, b) <=> Before(ev, a, b)
  <1>1. Marked(ev', ev, T)
    BY ListenerAssumption, MarkInv DEF IInv
  <1>2. /\ Notified(ev') = Notified(ev) \cup T /\ Listeners(ev') = Listeners(ev)
        /\ ev'.order = ev.order
    BY <1>1 DEF Marked
  <1>3. \A a, b : Before(ev', a, b) <=> Before(ev, a, b)
    BY ONLY <1>2 DEF Before
  <1> QED
    BY <1>2, <1>3 DEF Unnotified

\* A walk that marks the first k unnotified listeners, or all of them, leaves no
\* unnotified listener in front of one it marked.
LEMMA WalkInOrder ==
    ASSUME IInv, NEW T \in SUBSET Unnotified(ev), NEW v \in Value, ev' = Mark(ev, T, v),
           T = Unnotified(ev) \/ \E k \in Int : T = FirstUnnotified(ev, k),
           NEW l \in Notified(ev)' \ Notified(ev), NEW m \in Unnotified(ev)'
    PROVE  ~ Before(ev', m, l)
  <1>1. l \in T /\ m \in Unnotified(ev) \ T
    BY MarkSets
  <1>2. Before(ev, m, l) => m \in T
    <2>1. CASE T = Unnotified(ev)
      BY <1>1, <2>1
    <2>2. ASSUME NEW k \in Int, T = FirstUnnotified(ev, k)
          PROVE  Before(ev, m, l) => m \in T
      BY <1>1, <2>2, FirstUnnotifiedClosed, ListenerAssumption DEF IInv
    <2> QED
      BY <2>1, <2>2
  <1> QED
    BY <1>1, <1>2, MarkSets

\* notify(n) marks every unnotified listener, or the first ones up to the n-th
\* notified one; notify(n.additional()) marks the first n.
LEMMA TargetsAreWalks ==
    ASSUME IInv, NEW n \in Nat
    PROVE  /\ \E k \in Int : NotifyTargets(ev, n) = FirstUnnotified(ev, k)
           /\ \E k \in Int : AdditionalTargets(ev, n) = FirstUnnotified(ev, k)
  <1>1. ev.notified \in Nat /\ Len(ev.order) \in Nat
    BY LenProperties DEF IInv, EventInv, EventType
  <1> QED
    BY <1>1 DEF NotifyTargets, AdditionalTargets

\* No listener overtakes an earlier one, whoever notifies it.
THEOREM NobodyOvertakes == Spec => InRegistrationOrder
  <1>1. ASSUME IInv, [Next]_vars,
               NEW l \in Notified(ev)' \ Notified(ev), NEW m \in Unnotified(ev)'
        PROVE  ~ Before(ev', m, l)
    <2> USE ListenerAssumption, UsizeMaxAssumption
    <2>0. EventInv(ev, Listener, Value, Task)
      BY <1>1 DEF IInv
    <2>1. ASSUME NEW x \in Listener, ListenFor(x) PROVE FALSE
      BY <1>1, <2>0, <2>1, ListenInv DEF ListenFor
    <2>2. ASSUME NEW x \in Listener, DropHandle(x) PROVE ~ Before(ev', m, l)
      <3> DEFINE T == Successors(ev, x)
      <3>1. /\ Notified(ev') = (Notified(ev) \ {x}) \cup T
            /\ Listeners(ev') = Listeners(ev) \ {x}
            /\ T \subseteq Unnotified(ev) \ {x}
            /\ \A a, b \in Listeners(ev') : Before(ev', a, b) <=> Before(ev, a, b)
            /\ \A a \in T, b \in Unnotified(ev) \ {x} : Before(ev, b, a) => b \in T
        BY <2>0, <2>2, DropListenerInv DEF DropHandle
      <3> HIDE DEF T
      <3>2. l \in T /\ l \in Listeners(ev') /\ m \in Listeners(ev') /\ m \notin T
        BY <1>1, <3>1 DEF Unnotified
      <3>3. m \in Unnotified(ev) \ {x}
        BY <1>1, <3>1 DEF Unnotified
      <3> QED
        BY <3>1, <3>2, <3>3
    <2>3. ASSUME NEW x \in Listener, PollReady(x) PROVE FALSE
      BY <1>1, <2>0, <2>3, ConsumeInv DEF PollReady
    <2>4. ASSUME NEW x \in Listener, NEW t \in Task, PollPending(x, t) PROVE FALSE
      BY <1>1, <2>0, <2>4, ParkInv DEF PollPending
    <2>5. ASSUME NEW n \in 0 .. UsizeMax, NEW v \in Value, Notify(n, v)
          PROVE  ~ Before(ev', m, l)
      <3> DEFINE T == IF n = UsizeMax THEN Unnotified(ev) ELSE NotifyTargets(ev, n)
      <3>1. T \in SUBSET Unnotified(ev) /\ ev' = Mark(ev, T, v)
        BY <2>5, TargetsUnnotified DEF Notify
      <3>2. T = Unnotified(ev) \/ \E k \in Int : T = FirstUnnotified(ev, k)
        BY <1>1, TargetsAreWalks
      <3> HIDE DEF T
      <3> QED
        BY <1>1, <3>1, <3>2, WalkInOrder
    <2>6. ASSUME NEW n \in 0 .. UsizeMax, NEW v \in Value, NotifyAdditional(n, v)
          PROVE  ~ Before(ev', m, l)
      <3>1. /\ AdditionalTargets(ev, n) \in SUBSET Unnotified(ev)
            /\ ev' = Mark(ev, AdditionalTargets(ev, n), v)
        BY <2>6, TargetsUnnotified DEF NotifyAdditional
      <3>2. \E k \in Int : AdditionalTargets(ev, n) = FirstUnnotified(ev, k)
        BY <1>1, TargetsAreWalks
      <3> QED
        BY <1>1, <3>1, <3>2, WalkInOrder
    <2>7. CASE DropEvent
      BY <1>1, <2>0, <2>7, CloseInv DEF DropEvent
    <2>8. CASE UNCHANGED vars
      BY <1>1, <2>8 DEF vars
    <2> QED
      BY <1>1, <2>1, <2>2, <2>3, <2>4, <2>5, <2>6, <2>7, <2>8 DEF Next
  <1>2. IInv /\ [Next]_vars =>
            [\A l \in Notified(ev)' \ Notified(ev), m \in Unnotified(ev)' :
                ~ Before(ev', m, l)]_vars
    BY <1>1
  <1> QED
    BY <1>2, EventInvariant, PTL DEF Spec, InRegistrationOrder

\* After notify(n), n listeners are notified or all of them are.
THEOREM NotifySuffices == Spec => NotifyReaches
  <1>1. ASSUME IInv, NEW n \in 0 .. UsizeMax, NEW v \in Value, Notify(n, v)
        PROVE  Cardinality(Notified(ev)') >= n \/ Notified(ev)' = Listeners(ev)'
    <2> USE ListenerAssumption, UsizeMaxAssumption
    <2> DEFINE T == IF n = UsizeMax THEN Unnotified(ev) ELSE NotifyTargets(ev, n)
    <2>1. T \in SUBSET Unnotified(ev) /\ ev' = Mark(ev, T, v)
      BY <1>1, TargetsUnnotified DEF Notify
    <2>2. Notified(ev)' = Notified(ev) \cup T /\ Listeners(ev)' = Listeners(ev)
      <3> HIDE DEF T
      <3> QED
        BY <1>1, <2>1, MarkSets
    <2>3. /\ EventInv(ev, Listener, Value, Task) /\ Notified(ev) \subseteq Listeners(ev)
          /\ Listeners(ev) \subseteq Listener /\ ev.notified = Cardinality(Notified(ev))
      BY <1>1, EventSets DEF IInv, EventInv
    <2>4. /\ IsFiniteSet(Notified(ev)) /\ IsFiniteSet(Unnotified(ev))
          /\ Cardinality(Notified(ev)) \in Nat
      BY <2>3, FS_Subset, FS_CardinalityType, AheadFinite
    <2>5. CASE T = Unnotified(ev)
      BY <2>2, <2>3, <2>5 DEF Unnotified
    <2>6. CASE T # Unnotified(ev)
      <3> DEFINE k == IF n > ev.notified THEN n - ev.notified ELSE 0
      <3>1. T = FirstUnnotified(ev, k) /\ k \in Int
        BY <2>3, <2>4, <2>6 DEF NotifyTargets
      <3> HIDE DEF T, k
      <3>2. Cardinality(T) >= k
        BY <2>3, <2>6, <3>1, FirstUnnotifiedEnough
      <3>3. IsFiniteSet(T) /\ Cardinality(T) \in Nat
        BY <2>1, <2>4, FS_Subset, FS_CardinalityType
      <3>4. Cardinality(Notified(ev) \cup T) = Cardinality(Notified(ev)) + Cardinality(T)
        <4>1. Notified(ev) \cap T = {}
          BY <2>1 DEF Unnotified
        <4> QED
          BY <2>4, <3>3, <4>1, FS_Union, FS_EmptySet
      <3>5. Cardinality(Notified(ev)) + Cardinality(T) >= n
        BY <2>3, <2>4, <3>2, <3>3 DEF k
      <3> QED
        BY <2>2, <3>4, <3>5
    <2> QED
      BY <2>5, <2>6
  <1>2. IInv /\ [Next]_vars =>
            [\A n \in 0 .. UsizeMax, v \in Value :
                Notify(n, v) => \/ Cardinality(Notified(ev)') >= n
                                \/ Notified(ev)' = Listeners(ev)']_vars
    BY <1>1
  <1> QED
    BY <1>2, EventInvariant, PTL DEF Spec, NotifyReaches

\* A notified listener that is dropped hands its notification over.
THEOREM HandoverLosesNothing == Spec => HandoverKeepsNotification
  <1>1. ASSUME IInv, NEW l \in Listener, DropHandle(l), l \in Notified(ev), Unnotified(ev) # {}
        PROVE  Cardinality(Notified(ev)') = Cardinality(Notified(ev))
    <2>1. /\ EventInv(ev, Listener, Value, Task) /\ IsFiniteSet(Listener)
          /\ Notified(ev) \subseteq Listener
      BY <1>1, EventSets, ListenerAssumption DEF IInv, EventInv
    <2>2. /\ Notified(ev') = (Notified(ev) \ {l}) \cup Successors(ev, l)
          /\ \E f \in Unnotified(ev) : Successors(ev, l) = {f}
      BY <1>1, <2>1, DropListenerInv DEF DropHandle
    <2>3. PICK f : f \notin Notified(ev) /\ Notified(ev') = (Notified(ev) \ {l}) \cup {f}
      BY <2>2 DEF Unnotified
    <2>4. IsFiniteSet(Notified(ev)) /\ Cardinality(Notified(ev)) \in Nat
      BY <2>1, FS_Subset, FS_CardinalityType
    <2>5. /\ IsFiniteSet(Notified(ev) \ {l})
          /\ Cardinality(Notified(ev) \ {l}) = Cardinality(Notified(ev)) - 1
      BY <1>1, <2>4, FS_RemoveElement
    <2>6. Cardinality((Notified(ev) \ {l}) \cup {f}) = Cardinality(Notified(ev) \ {l}) + 1
      BY <2>3, <2>5, FS_AddElement
    <2> QED
      BY <2>3, <2>4, <2>5, <2>6
  <1>2. IInv /\ [Next]_vars =>
            [\A l \in Listener :
                DropHandle(l) /\ l \in Notified(ev) /\ Unnotified(ev) # {}
                    => Cardinality(Notified(ev)') = Cardinality(Notified(ev))]_vars
    BY <1>1
  <1> QED
    BY <1>2, EventInvariant, PTL DEF Spec, HandoverKeepsNotification

\* Dropping the event leaves no task asleep on one of its listeners.
THEOREM DropLeavesNobodyAsleep == Spec => DropWakesEveryWaiter
  <1>1. ASSUME IInv, DropEvent, NEW l \in Listener, poller[l] # NoTask
        PROVE  l \in woken'
    <2>1. woken' = woken \cup {m \in Listener : poller[m] \in WakersOf(ev, Listeners(ev))}
      BY <1>1 DEF DropEvent, Wake
    <2> QED
      BY <1>1, <2>1, Sleeper DEF WakersOf
  <1>2. IInv /\ [Next]_vars =>
            [DropEvent => \A l \in Listener : poller[l] # NoTask => l \in woken']_vars
    BY <1>1
  <1> QED
    BY <1>2, EventInvariant, PTL DEF Spec, DropWakesEveryWaiter
=============================================================================
