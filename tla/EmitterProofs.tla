---------------------------- MODULE EmitterProofs ----------------------------
(***************************************************************************)
(* What the subscribers of an emitter, of a cell and of a wait group can   *)
(* rely on, for any number of them and any number of announcements.        *)
(*                                                                         *)
(* The first invariant, Streams, is about the streams alone: a sleeper is  *)
(* parked with its own waker on an event that still exists, no announced   *)
(* value is from the future, and only a handed-over value may be older     *)
(* than what its reader has seen.  It is kept by each action of Emitter    *)
(* and by those of WaitGroup, which use the same streams.                  *)
(*                                                                         *)
(* The second one, Targets, adds what the subscribers know of the cell.    *)
(* It speaks of the subscribers that are not asleep, too: whoever is       *)
(* neither notified nor marked as having missed an announcement has read   *)
(* the latest change, so that it may fall asleep at any time.              *)
(***************************************************************************)
EXTENDS EventTargets, EventOpsProofs

\* The values that can be announced.
Numbers == 1 .. MaxEmits

Registered ==
    /\ EventInv(ev, Stream, Numbers, Stream)
    /\ Listeners(ev) = Listening
    /\ stream \in [Stream -> {"none", "listening", "next", "done"}]
    /\ emitted \in 0 .. MaxEmits

\* Nothing that is announced, received or handed over is from the future.
Dated ==
    /\ since \in [Stream -> Nat] /\ got \in [Stream -> Nat]
    /\ \A s \in Stream : since[s] <= emitted /\ got[s] <= emitted
    /\ \A s \in Notified(ev) : ev.value[s] <= emitted
    /\ handed \subseteq Notified(ev)

Streams == Registered /\ Dated /\ SleepersCanBeWoken /\ InOrderUnlessHandedOver

\* The listeners that have not been notified.
Untold == Listening \ Notified(ev)
-----------------------------------------------------------------------------
(***************************************************************************)
(* The values that the operations of an event leave in its listeners.      *)
(***************************************************************************)

\* Marked listeners hold the value, the others keep theirs.
LEMMA MarkValues ==
    ASSUME NEW S, NEW V, NEW W, NEW e, e \in EventType(S, V, W), NEW T, NEW v
    PROVE  /\ \A m \in T : Mark(e, T, v).value[m] = v
           /\ \A m \in Notified(e) \ T : Mark(e, T, v).value[m] = e.value[m]
  <1>1. Mark(e, T, v).value = [l \in Notified(e) \cup T |-> IF l \in T THEN v ELSE e.value[l]]
    BY DEF Mark, EventType
  <1> QED
    BY <1>1

\* Consuming a notification leaves the other values alone.
LEMMA ConsumeValues ==
    ASSUME NEW S, NEW V, NEW W, NEW e, e \in EventType(S, V, W), NEW l
    PROVE  \A m \in Notified(e) \ {l} : Consume(e, l).value[m] = e.value[m]
  <1>1. Consume(e, l).value = [m \in Notified(e) \ {l} |-> e.value[m]]
    BY DEF Consume, EventType, Restrict
  <1> QED
    BY <1>1

\* Registering and parking touch no value.
LEMMA ListenParkValues ==
    ASSUME NEW S, NEW V, NEW W, NEW e, e \in EventType(S, V, W), NEW l, NEW t
    PROVE  Listen(e, l).value = e.value /\ Park(e, l, t).value = e.value
  BY DEF Listen, Park, EventType

\* A dropped listener hands over the value it holds; the others keep theirs.
LEMMA DropValues ==
    ASSUME NEW S, IsFiniteSet(S), NEW V, NEW W, NEW e, EventInv(e, S, V, W),
           NEW l \in Listeners(e)
    PROVE  /\ \A m \in Notified(e) \ {l} : DropListener(e, l).value[m] = e.value[m]
           /\ \A m \in Successors(e, l) : DropListener(e, l).value[m] = e.value[l]
  <1> DEFINE r == Released(e, l)
             T == FirstUnnotified(r, 1)
  <1>1. e \in EventType(S, V, W)
    BY DEF EventInv
  <1>2. /\ Unregister(e, l).value = [m \in Notified(e) \ {l} |-> e.value[m]]
        /\ r.value = [m \in Notified(e) \ {l} |-> e.value[m]]
    BY <1>1 DEF Unregister, Released, EventType, Restrict
  <1>3. /\ Notified(r) = Notified(e) \ {l}
        /\ HandsOver(e, l) <=> l \in Notified(e)
        /\ l \in Notified(e) => EventInv(r, S, V, W)
    BY UnregisterInv
  <1>4. CASE l \in Notified(e)
    <2>1. DropListener(e, l) = Mark(r, T, e.value[l]) /\ Successors(e, l) = T
      BY <1>3, <1>4 DEF DropListener, Successors
    <2>2. T \subseteq Unnotified(r) /\ r \in EventType(S, V, W)
      BY <1>3, <1>4 DEF FirstUnnotified, EventInv
    <2>3. T \cap Notified(r) = {}
      BY <2>2 DEF Unnotified
    <2> HIDE DEF r, T
    <2>4. /\ \A m \in T : Mark(r, T, e.value[l]).value[m] = e.value[l]
          /\ \A m \in Notified(r) \ T : Mark(r, T, e.value[l]).value[m] = r.value[m]
      BY <2>2, MarkValues
    <2> QED
      BY <1>2, <1>3, <2>1, <2>3, <2>4
  <1>5. CASE l \notin Notified(e)
    <2>1. DropListener(e, l) = Unregister(e, l) /\ Successors(e, l) = {}
      BY <1>3, <1>5 DEF DropListener, Successors
    <2> QED
      BY <1>2, <2>1
  <1> QED
    BY <1>4, <1>5

\* What the stream that takes its item leaves: the other listeners as they were.
LEMMA TakeItem ==
    ASSUME NEW S, IsFiniteSet(S), NEW V, NEW W, NEW e, EventInv(e, S, V, W),
           NEW l \in Notified(e)
    PROVE  LET d == DropListener(Consume(e, l), l) IN
           /\ EventInv(d, S, V, W)
           /\ Listeners(d) = Listeners(e) \ {l}
           /\ Notified(d) = Notified(e) \ {l}
           /\ Parked(d) = Parked(e) \ {l}
           /\ \A m \in Parked(d) : d.waker[m] = e.waker[m]
           /\ \A m \in Notified(d) : d.value[m] = e.value[m]
           /\ d.closed = e.closed
  <1> DEFINE r == Consume(e, l)
             d == DropListener(r, l)
  <1>1. /\ EventInv(r, S, V, W) /\ Listeners(r) = Listeners(e)
        /\ Notified(r) = Notified(e) \ {l} /\ Parked(r) = Parked(e)
        /\ r.waker = e.waker /\ r.closed = e.closed
    BY ConsumeInv
  <1>2. \A m \in Notified(e) \ {l} : r.value[m] = e.value[m]
    BY ConsumeValues DEF EventInv
  <1>3. l \in Listeners(r) /\ Successors(r, l) = {}
    BY <1>1 DEF EventInv, Successors
  <1> HIDE DEF r
  <1>4. /\ EventInv(d, S, V, W) /\ Listeners(d) = Listeners(r) \ {l}
        /\ Notified(d) = (Notified(r) \ {l}) \cup Successors(r, l)
        /\ Parked(d) = (Parked(r) \ {l}) \ Successors(r, l)
        /\ \A m \in Parked(d) : d.waker[m] = r.waker[m]
        /\ d.closed = r.closed
    BY <1>1, <1>3, DropListenerInv
  <1>5. \A m \in Notified(r) \ {l} : d.value[m] = r.value[m]
    BY <1>1, <1>3, DropValues
  <1> HIDE DEF d
  <1>6. /\ EventInv(d, S, V, W)
        /\ Listeners(d) = Listeners(e) \ {l}
        /\ Notified(d) = Notified(e) \ {l}
        /\ Parked(d) = Parked(e) \ {l}
        /\ \A m \in Parked(d) : d.waker[m] = e.waker[m]
        /\ \A m \in Notified(d) : d.value[m] = e.value[m]
        /\ d.closed = e.closed
    BY <1>1, <1>2, <1>3, <1>4, <1>5
  <1> QED
    BY <1>6 DEF d, r
-----------------------------------------------------------------------------
(***************************************************************************)
(* The streams.                                                            *)
(***************************************************************************)

\* What Streams says of the sets involved.
LEMMA StreamSets ==
    ASSUME Streams
    PROVE  /\ Listening \subseteq Stream /\ Notified(ev) \subseteq Listening
           /\ Parked(ev) \subseteq Listening \ Notified(ev)
           /\ asleep \subseteq Parked(ev)
           /\ \A s \in Notified(ev) : ev.value[s] \in Nat /\ ev.value[s] > 0
           /\ emitted \in Nat
           /\ ev.closed => asleep = {}
  <1>1. /\ EventInv(ev, Stream, Numbers, Stream) /\ Listeners(ev) = Listening
        /\ emitted \in 0 .. MaxEmits
    BY DEF Streams, Registered
  <1>2. /\ Notified(ev) \subseteq Listening /\ Parked(ev) \subseteq Listening \ Notified(ev)
        /\ \A s \in Notified(ev) : ev.value[s] \in Numbers
    BY <1>1, EventSets DEF EventInv
  <1>3. \A s \in asleep : s \in Parked(ev) /\ ~ev.closed
    BY DEF Streams, SleepersCanBeWoken
  <1> QED
    BY <1>1, <1>2, <1>3, MaxEmitsAssumption DEF Listening, Numbers

\* A new emitter has no subscriber.
LEMMA StreamsInit == Init => Streams
  <1> SUFFICES ASSUME Init PROVE Streams
    OBVIOUS
  <1>1. /\ EventInv(ev, Stream, Numbers, Stream)
        /\ Listeners(ev) = {} /\ Notified(ev) = {} /\ Parked(ev) = {}
    BY NewEventInv DEF Init
  <1>2. Listening = {}
    BY DEF Init, Listening
  <1>3. Registered
    BY <1>1, <1>2, MaxEmitsAssumption DEF Init, Registered
  <1>4. Dated /\ SleepersCanBeWoken /\ InOrderUnlessHandedOver
    BY <1>1 DEF Init, Dated, SleepersCanBeWoken, InOrderUnlessHandedOver
  <1> QED
    BY <1>3, <1>4 DEF Streams

\* A subscriber registers at the end.
LEMMA SubscribeInv ==
    ASSUME Streams, NEW s \in Stream, Subscribe(s)
    PROVE  Streams' /\ Untold' \subseteq Untold \cup {s} /\ Listening' = Listening \cup {s}
  <1>1. /\ ~ev.closed /\ stream[s] = "none" /\ ev' = Listen(ev, s)
        /\ stream' = [stream EXCEPT ![s] = "listening"]
        /\ since' = [since EXCEPT ![s] = emitted]
        /\ UNCHANGED <<emitted, asleep, got, handed>>
        /\ EventInv(ev, Stream, Numbers, Stream) /\ Listeners(ev) = Listening
        /\ stream \in [Stream -> {"none", "listening", "next", "done"}]
    BY DEF Subscribe, Streams, Registered
  <1>2. s \notin Listeners(ev) /\ s \notin Notified(ev)
    BY <1>1, StreamSets DEF Listening
  <1>3. /\ EventInv(ev', Stream, Numbers, Stream)
        /\ Listeners(ev') = Listening \cup {s} /\ Notified(ev') = Notified(ev)
        /\ Parked(ev') = Parked(ev) /\ ev'.value = ev.value
        /\ ev'.waker = ev.waker /\ ev'.closed = ev.closed
    BY <1>1, <1>2, ListenInv
  <1>4. Listening' = Listening \cup {s}
    BY <1>1 DEF Listening
  <1>5. Registered'
    BY <1>1, <1>3, <1>4 DEF Streams, Registered
  <1>6. Dated'
    BY <1>1, <1>3, StreamSets DEF Streams, Dated
  <1>7. SleepersCanBeWoken'
    BY <1>1, <1>3 DEF Streams, SleepersCanBeWoken
  <1>8. InOrderUnlessHandedOver'
    <2>1. \A m \in Notified(ev) : m # s /\ since'[m] = since[m]
      BY <1>1, <1>2, StreamSets DEF Streams, Dated
    <2> QED
      BY <1>1, <1>3, <2>1 DEF Streams, InOrderUnlessHandedOver
  <1> QED
    BY <1>3, <1>4, <1>5, <1>6, <1>7, <1>8 DEF Streams, Untold

\* An announcement, to all listeners or to some: those that are marked hold the
\* newest value and are awake.
LEMMA AnnounceInv ==
    ASSUME Streams, NEW T, T \subseteq Unnotified(ev), emitted < MaxEmits,
           emitted' = emitted + 1, ev' = Mark(ev, T, emitted + 1),
           asleep' = asleep \ WakersOf(ev, T), UNCHANGED <<stream, since, got, handed>>
    PROVE  Streams' /\ Untold' = Untold \ T /\ Listening' = Listening
  <1>1. /\ EventInv(ev, Stream, Numbers, Stream) /\ Listeners(ev) = Listening
        /\ emitted \in Nat /\ emitted + 1 \in Numbers
    BY StreamSets, MaxEmitsAssumption DEF Streams, Registered, Numbers
  <1>2. EventInv(ev', Stream, Numbers, Stream) /\ Marked(ev', ev, T)
    BY <1>1, MarkInv, StreamAssumption
  <1>3. /\ Listeners(ev') = Listening /\ Notified(ev') = Notified(ev) \cup T
        /\ Parked(ev') = Parked(ev) \ T /\ \A m \in Parked(ev') : ev'.waker[m] = ev.waker[m]
        /\ ev'.closed = ev.closed
    BY <1>1, <1>2 DEF Marked
  <1>4. /\ \A m \in T : ev'.value[m] = emitted + 1
        /\ \A m \in Notified(ev) \ T : ev'.value[m] = ev.value[m]
    BY <1>1, MarkValues DEF EventInv
  <1>5. T \cap Notified(ev) = {} /\ T \subseteq Stream
    BY <1>1, StreamSets DEF Unnotified
  <1>6. Listening' = Listening
    BY DEF Listening
  <1>7. Registered'
    BY <1>1, <1>2, <1>3, <1>6, MaxEmitsAssumption DEF Streams, Registered
  <1>8. Dated'
    <2>1. \A s \in Stream : since[s] <= emitted + 1 /\ got[s] <= emitted + 1
      BY <1>1 DEF Streams, Dated
    <2>2. \A s \in Notified(ev') : ev'.value[s] <= emitted + 1
      BY <1>1, <1>3, <1>4, <1>5, StreamSets DEF Streams, Dated
    <2> QED
      BY <1>3, <2>1, <2>2 DEF Streams, Dated
  <1>9. SleepersCanBeWoken'
    <2> SUFFICES ASSUME NEW s \in asleep'
                 PROVE  s \in Parked(ev') \ Notified(ev') /\ ev'.waker[s] = s /\ ~ev'.closed
      BY DEF SleepersCanBeWoken
    <2>1. /\ s \in Parked(ev) \ Notified(ev) /\ ev.waker[s] = s /\ ~ev.closed
          /\ s \notin WakersOf(ev, T)
      BY DEF Streams, SleepersCanBeWoken
    <2>2. s \notin T
      BY <2>1 DEF WakersOf
    <2> QED
      BY <1>3, <2>1, <2>2
  <1>10. InOrderUnlessHandedOver'
    <2> SUFFICES ASSUME NEW s \in Notified(ev') \ handed
                 PROVE  ev'.value[s] > got[s] /\ ev'.value[s] > since[s]
      BY DEF InOrderUnlessHandedOver
    <2>1. CASE s \in T
      BY <1>1, <1>4, <1>5, <2>1 DEF Streams, Dated
    <2>2. CASE s \in Notified(ev) \ T
      BY <1>4, <2>2 DEF Streams, InOrderUnlessHandedOver
    <2> QED
      BY <1>3, <2>1, <2>2
  <1> QED
    BY <1>3, <1>6, <1>7, <1>8, <1>9, <1>10 DEF Streams, Untold

\* emit() tells every listener.
LEMMA EmitInv ==
    ASSUME Streams, Emit
    PROVE  Streams' /\ Untold' = {} /\ Listening' = Listening
  <1> DEFINE T == Unnotified(ev)
  <1>1. /\ emitted < MaxEmits /\ emitted' = emitted + 1
        /\ ev' = Mark(ev, T, emitted + 1) /\ asleep' = asleep \ WakersOf(ev, T)
        /\ UNCHANGED <<stream, since, got, handed>>
    BY DEF Emit, NotifyAll, WokenByAll
  <1>2. Untold = T
    BY DEF Untold, Unnotified, Streams, Registered
  <1> HIDE DEF T
  <1>3. T \subseteq Unnotified(ev)
    BY DEF T
  <1> QED
    BY <1>1, <1>2, <1>3, AnnounceInv

\* A dropped ticket tells one listener.
LEMMA DropTicketInv ==
    ASSUME Streams, DropTicket
    PROVE  Streams' /\ Listening' = Listening
  <1> DEFINE T == NotifyTargets(ev, 1)
  <1>1. /\ emitted < MaxEmits /\ emitted' = emitted + 1
        /\ ev' = Mark(ev, T, emitted + 1) /\ asleep' = asleep \ WakersOf(ev, T)
        /\ UNCHANGED <<stream, since, got, handed>>
    BY DEF DropTicket, NotifyOne, WokenByOne
  <1>2. T \subseteq Unnotified(ev)
    BY DEF NotifyTargets, FirstUnnotified
  <1> HIDE DEF T
  <1> QED
    BY <1>1, <1>2, AnnounceInv

\* A stream takes its item and has no listener until it is polled again.
LEMMA PollItemInv ==
    ASSUME Streams, NEW s \in Stream, PollItem(s)
    PROVE  Streams' /\ Untold' = Untold /\ Listening' = Listening \ {s}
  <1>1. /\ s \in Listening \cap Notified(ev) /\ ev' = DropListener(Consume(ev, s), s)
        /\ stream' = [stream EXCEPT ![s] = "next"]
        /\ got' = [got EXCEPT ![s] = IF ev.value[s] > @ THEN ev.value[s] ELSE @]
        /\ handed' = handed \ {s} /\ UNCHANGED <<emitted, asleep, since>>
        /\ EventInv(ev, Stream, Numbers, Stream) /\ Listeners(ev) = Listening
        /\ stream \in [Stream -> {"none", "listening", "next", "done"}]
    BY DEF PollItem, Streams, Registered
  <1>2. /\ EventInv(ev', Stream, Numbers, Stream)
        /\ Listeners(ev') = Listening \ {s} /\ Notified(ev') = Notified(ev) \ {s}
        /\ Parked(ev') = Parked(ev) \ {s}
        /\ \A m \in Parked(ev') : ev'.waker[m] = ev.waker[m]
        /\ \A m \in Notified(ev') : ev'.value[m] = ev.value[m]
        /\ ev'.closed = ev.closed
    BY <1>1, TakeItem, StreamAssumption
  <1>3. Listening' = Listening \ {s}
    BY <1>1 DEF Listening
  <1>4. Registered'
    BY <1>1, <1>2, <1>3 DEF Streams, Registered
  <1>5. /\ got' \in [Stream -> Nat] /\ \A m \in Stream : got'[m] <= emitted
        /\ \A m \in Stream \ {s} : got'[m] = got[m]
    <2>1. /\ ev.value[s] \in Nat /\ ev.value[s] <= emitted /\ got \in [Stream -> Nat]
          /\ \A m \in Stream : got[m] <= emitted
      BY <1>1, StreamSets DEF Streams, Dated
    <2> QED
      BY <1>1, <2>1
  <1>6. Dated'
    BY <1>1, <1>2, <1>5 DEF Streams, Dated
  <1>7. SleepersCanBeWoken'
    BY <1>1, <1>2 DEF Streams, SleepersCanBeWoken
  <1>8. InOrderUnlessHandedOver'
    <2> SUFFICES ASSUME NEW m \in Notified(ev') \ handed'
                 PROVE  ev'.value[m] > got'[m] /\ ev'.value[m] > since'[m]
      BY DEF InOrderUnlessHandedOver
    <2>1. m \in Notified(ev) \ handed /\ m \in Stream \ {s}
      BY <1>1, <1>2, StreamSets
    <2> QED
      BY <1>1, <1>2, <1>5, <2>1 DEF Streams, InOrderUnlessHandedOver
  <1> QED
    BY <1>1, <1>2, <1>3, <1>4, <1>6, <1>7, <1>8 DEF Streams, Untold

\* A stream that finds nothing waits, or ends with its emitter; event e has its
\* listener, and the other listeners as they were.
LEMMA WaitInv ==
    ASSUME Streams, NEW s \in Stream, NEW e, Wait(s, e), s \notin handed,
           UNCHANGED <<emitted, since, got, handed>>,
           EventInv(e, Stream, Numbers, Stream), Listeners(e) = Listening \cup {s},
           Notified(e) = Notified(ev) \ {s}, Parked(e) \ {s} = Parked(ev) \ {s},
           \A m \in Parked(ev) \ {s} : e.waker[m] = ev.waker[m],
           \A m \in Notified(e) : e.value[m] = ev.value[m],
           e.closed = ev.closed
    PROVE  Streams' /\ Untold' \subseteq Untold \cup {s} /\ Listening' \subseteq Listening \cup {s}
  <1> DEFINE k == Park(e, s, s)
  <1>1. s \in Unnotified(e) /\ s \in Listeners(e)
    BY DEF Unnotified
  <1>2. /\ EventInv(k, Stream, Numbers, Stream)
        /\ Listeners(k) = Listening \cup {s} /\ Notified(k) = Notified(e)
        /\ Parked(k) = Parked(e) \cup {s}
        /\ \A m \in Parked(k) : k.waker[m] = IF m = s THEN s ELSE e.waker[m]
        /\ k.closed = e.closed /\ k.value = e.value
    <2>1. k.value = e.value
      BY ListenParkValues DEF EventInv
    <2> QED
      BY <1>1, <2>1, ParkInv
  <1>3. /\ Dated' <=> /\ \A m \in Notified(ev') : ev'.value[m] <= emitted
                      /\ handed \subseteq Notified(ev')
        /\ \A m \in Notified(e) : e.value[m] <= emitted
        /\ handed \subseteq Notified(e)
    BY DEF Streams, Dated
  <1> HIDE DEF k
  <1>4. ASSUME Notified(ev') = Notified(e), \A m \in Notified(ev') : ev'.value[m] = e.value[m]
        PROVE  Dated' /\ InOrderUnlessHandedOver'
    <2>1. InOrderUnlessHandedOver'
      BY <1>4 DEF Streams, InOrderUnlessHandedOver
    <2> QED
      BY <1>3, <1>4, <2>1
  <1>5. CASE e.closed
    <2>1. /\ ev' = DropListener(k, s) /\ stream' = [stream EXCEPT ![s] = "done"]
          /\ asleep' = asleep \ {s}
      BY <1>5 DEF Wait, k
    <2>2. s \in Listeners(k) /\ Successors(k, s) = {}
      BY <1>2 DEF Successors
    <2>3. /\ EventInv(ev', Stream, Numbers, Stream)
          /\ Listeners(ev') = Listeners(k) \ {s}
          /\ Notified(ev') = (Notified(k) \ {s}) \cup Successors(k, s)
      BY <1>2, <2>1, <2>2, DropListenerInv, StreamAssumption
    <2>4. \A m \in Notified(k) \ {s} : ev'.value[m] = k.value[m]
      BY <1>2, <2>1, <2>2, DropValues, StreamAssumption
    <2>5. Notified(ev') = Notified(e) /\ \A m \in Notified(ev') : ev'.value[m] = e.value[m]
      BY <1>2, <2>2, <2>3, <2>4
    <2>6. Listening' = Listening \ {s}
      BY <2>1 DEF Streams, Registered, Listening
    <2>7. Registered'
      BY <1>2, <2>1, <2>3, <2>6 DEF Streams, Registered
    <2>8. asleep' = {}
      BY <1>5, <2>1, StreamSets
    <2>9. SleepersCanBeWoken'
      BY <2>8 DEF SleepersCanBeWoken
    <2> QED
      BY <1>4, <2>5, <2>6, <2>7, <2>9 DEF Streams, Untold
  <1>6. CASE ~e.closed
    <2>1. /\ ev' = k /\ stream' = [stream EXCEPT ![s] = "listening"]
          /\ asleep' = asleep \cup {s}
      BY <1>6 DEF Wait, k
    <2>2. Listening' = Listening \cup {s}
      BY <2>1 DEF Streams, Registered, Listening
    <2>3. Registered'
      BY <1>2, <2>1, <2>2 DEF Streams, Registered
    <2>4. SleepersCanBeWoken'
      <3> SUFFICES ASSUME NEW m \in asleep'
                   PROVE  m \in Parked(ev') \ Notified(ev') /\ ev'.waker[m] = m /\ ~ev'.closed
        BY DEF SleepersCanBeWoken
      <3>1. CASE m = s
        BY <1>2, <1>6, <2>1, <3>1
      <3>2. CASE m # s
        <4>1. m \in Parked(ev) \ Notified(ev) /\ ev.waker[m] = m
          BY <2>1, <3>2 DEF Streams, SleepersCanBeWoken
        <4> QED
          BY <1>2, <1>6, <2>1, <3>2, <4>1
      <3> QED
        BY <3>1, <3>2
    <2> QED
      BY <1>2, <1>4, <2>1, <2>2, <2>3, <2>4 DEF Streams, Untold
  <1> QED
    BY <1>5, <1>6

\* A registered stream is polled without a notification.
LEMMA PollWaitInv ==
    ASSUME Streams, NEW s \in Stream, PollWait(s)
    PROVE  Streams' /\ Untold' \subseteq Untold /\ Listening' \subseteq Listening
  <1>1. s \in Listening \ Notified(ev) /\ Wait(s, ev) /\ UNCHANGED <<emitted, since, got, handed>>
    BY DEF PollWait
  <1>2. /\ EventInv(ev, Stream, Numbers, Stream) /\ Listeners(ev) = Listening \cup {s}
        /\ Notified(ev) = Notified(ev) \ {s} /\ s \notin handed /\ s \in Untold
        /\ Listening \cup {s} = Listening /\ Untold \cup {s} = Untold
    BY <1>1 DEF Streams, Registered, Dated, Untold
  <1> QED
    BY <1>1, <1>2, WaitInv

\* A new listener that is not notified.
LEMMA ListenWaitInv ==
    ASSUME Streams, NEW s \in Stream, s \notin Listening, Wait(s, Listen(ev, s)),
           UNCHANGED <<emitted, since, got, handed>>
    PROVE  Streams' /\ Untold' \subseteq Untold \cup {s} /\ Listening' \subseteq Listening \cup {s}
  <1> DEFINE e == Listen(ev, s)
  <1>1. /\ EventInv(ev, Stream, Numbers, Stream) /\ Listeners(ev) = Listening
        /\ s \notin Notified(ev) /\ s \notin Parked(ev) /\ s \notin handed
    BY StreamSets DEF Streams, Registered, Dated
  <1>2. /\ EventInv(e, Stream, Numbers, Stream)
        /\ Listeners(e) = Listening \cup {s} /\ Notified(e) = Notified(ev)
        /\ Parked(e) = Parked(ev) /\ e.value = ev.value
        /\ e.waker = ev.waker /\ e.closed = ev.closed
    BY <1>1, ListenInv
  <1>3. Wait(s, e)
    OBVIOUS
  <1> HIDE DEF e
  <1>4. Notified(e) = Notified(ev) \ {s}
    BY <1>1, <1>2
  <1> QED
    BY <1>1, <1>2, <1>3, <1>4, WaitInv

\* The next listener of a stream that has returned an item.
LEMMA PollNextInv ==
    ASSUME Streams, NEW s \in Stream, PollNext(s)
    PROVE  Streams' /\ Untold' \subseteq Untold \cup {s} /\ Listening' \subseteq Listening \cup {s}
  <1>1. stream[s] = "next" /\ UNCHANGED <<emitted, since, got, handed>> /\ s \notin Listening
    BY DEF PollNext, Listening
  <1>2. CASE ev.closed
    <2>1. stream' = [stream EXCEPT ![s] = "done"] /\ UNCHANGED <<ev, asleep>>
      BY <1>2 DEF PollNext
    <2>2. Listening' = Listening
      BY <1>1, <2>1 DEF Streams, Registered, Listening
    <2> QED
      BY <1>1, <2>1, <2>2 DEF Streams, Registered, Dated, SleepersCanBeWoken,
                              InOrderUnlessHandedOver, Untold
  <1>3. CASE ~ev.closed
    BY <1>1, <1>3, ListenWaitInv DEF PollNext
  <1> QED
    BY <1>2, <1>3

\* The waiter's poll: it takes its item, and returns or waits for the next.
LEMMA WaitNotifiedInv ==
    ASSUME Streams, Waiter \notin handed, WaitNotified
    PROVE  Streams' /\ Listening' \subseteq Listening \cup {Waiter}
  <1> DEFINE e == DropListener(Consume(ev, Waiter), Waiter)
             f == Listen(e, Waiter)
  <1>1. /\ Waiter \in Notified(ev) /\ Waiter \in Stream /\ Waiter \in Listening
        /\ Waiter \notin Parked(ev)
        /\ UNCHANGED <<emitted, since, got, handed>>
        /\ EventInv(ev, Stream, Numbers, Stream) /\ Listeners(ev) = Listening
    BY StreamSets, WaiterAssumption DEF WaitNotified, Streams, Registered
  <1>2. /\ EventInv(e, Stream, Numbers, Stream)
        /\ Listeners(e) = Listening \ {Waiter} /\ Notified(e) = Notified(ev) \ {Waiter}
        /\ Parked(e) = Parked(ev) \ {Waiter}
        /\ \A m \in Parked(e) : e.waker[m] = ev.waker[m]
        /\ \A m \in Notified(e) : e.value[m] = ev.value[m]
        /\ e.closed = ev.closed
    BY <1>1, TakeItem, StreamAssumption
  <1>3. \/ tickets = 0 /\ ev' = e /\ stream' = [stream EXCEPT ![Waiter] = "none"] /\ asleep' = asleep
        \/ tickets # 0 /\ Wait(Waiter, f)
    BY DEF WaitNotified
  <1> HIDE DEF e
  <1>4. CASE tickets = 0
    <2>1. ev' = e /\ stream' = [stream EXCEPT ![Waiter] = "none"] /\ asleep' = asleep
      BY <1>3, <1>4
    <2>2. Listening' = Listening \ {Waiter}
      BY <2>1 DEF Streams, Registered, Listening
    <2>3. Registered'
      BY <1>1, <1>2, <2>1, <2>2 DEF Streams, Registered
    <2>4. Dated' /\ SleepersCanBeWoken' /\ InOrderUnlessHandedOver'
      BY <1>1, <1>2, <2>1 DEF Streams, Dated, SleepersCanBeWoken, InOrderUnlessHandedOver
    <2> QED
      BY <2>2, <2>3, <2>4 DEF Streams
  <1>5. CASE tickets # 0
    <2>1. Wait(Waiter, f)
      BY <1>3, <1>5
    <2>2. Waiter \notin Listeners(e)
      BY <1>2
    <2>3. /\ EventInv(f, Stream, Numbers, Stream)
          /\ Listeners(f) = Listeners(e) \cup {Waiter} /\ Notified(f) = Notified(e)
          /\ Parked(f) = Parked(e) /\ f.value = e.value
          /\ f.waker = e.waker /\ f.closed = e.closed
      BY <1>1, <1>2, <2>2, ListenInv
    <2> HIDE DEF f
    <2>4. Listeners(f) = Listening \cup {Waiter} /\ Parked(f) \ {Waiter} = Parked(ev) \ {Waiter}
      BY <1>2, <2>3
    <2> QED
      BY <1>1, <1>2, <2>1, <2>3, <2>4, WaitInv
  <1> QED
    BY <1>4, <1>5

\* A dropped subscriber hands over what it has not read.
LEMMA DropStreamInv ==
    ASSUME Streams, NEW s \in Stream, DropStream(s)
    PROVE  /\ Streams' /\ Untold' \subseteq Untold /\ Listening' = Listening \ {s}
           /\ handed' \subseteq (handed \cup Untold) \ {s}
  <1>1. /\ stream[s] # "none" /\ stream' = [stream EXCEPT ![s] = "none"]
        /\ since' = [since EXCEPT ![s] = 0] /\ got' = [got EXCEPT ![s] = 0]
        /\ emitted' = emitted
        /\ handed' = (handed \cup (Notified(ev') \ Notified(ev))) \ {s}
        /\ EventInv(ev, Stream, Numbers, Stream) /\ Listeners(ev) = Listening
        /\ stream \in [Stream -> {"none", "listening", "next", "done"}]
    BY DEF DropStream, Streams, Registered
  <1>2. Listening' = Listening \ {s}
    BY <1>1 DEF Listening
  <1>3. /\ since' \in [Stream -> Nat] /\ got' \in [Stream -> Nat]
        /\ \A m \in Stream : since'[m] <= emitted /\ got'[m] <= emitted
        /\ \A m \in Stream \ {s} : since'[m] = since[m] /\ got'[m] = got[m]
    BY <1>1, StreamSets DEF Streams, Dated
  <1>4. CASE s \in Listening
    <2> DEFINE e == DropListener(ev, s)
               T == Successors(ev, s)
               w == WokenByDrop(ev, s)
    <2>1. ev' = e /\ asleep' = asleep \ (w \cup {s})
      BY <1>4 DEF DropStream
    <2>2. s \in Listeners(ev)
      BY <1>1, <1>4
    <2>3. /\ EventInv(e, Stream, Numbers, Stream)
          /\ Listeners(e) = Listening \ {s}
          /\ T \subseteq Unnotified(ev) \ {s}
          /\ Notified(e) = (Notified(ev) \ {s}) \cup T
          /\ Parked(e) = (Parked(ev) \ {s}) \ T
          /\ \A m \in Parked(e) : e.waker[m] = ev.waker[m]
          /\ w = {ev.waker[m] : m \in T \cap Parked(ev)}
          /\ e.closed = ev.closed
      BY <1>1, <2>2, DropListenerInv, StreamAssumption
    <2>4. /\ \A m \in Notified(ev) \ {s} : e.value[m] = ev.value[m]
          /\ \A m \in T : e.value[m] = ev.value[s]
      BY <1>1, <2>2, DropValues, StreamAssumption
    <2>5. T # {} => s \in Notified(ev)
      BY DEF Successors
    <2> HIDE DEF e, T, w
    <2>6. T \cap Notified(ev) = {} /\ T \subseteq Untold /\ s \notin T
      BY <1>1, <2>3 DEF Unnotified, Untold
    <2>7. handed' = (handed \cup T) \ {s}
      BY <1>1, <2>1, <2>3, <2>6
    <2>8. Registered'
      BY <1>1, <1>2, <2>1, <2>3 DEF Streams, Registered
    <2>9. Dated'
      <3>1. \A m \in Notified(ev) : ev.value[m] <= emitted
        BY DEF Streams, Dated
      <3>2. \A m \in Notified(e) : e.value[m] <= emitted
        BY <2>3, <2>4, <2>5, <3>1
      <3>3. handed' \subseteq Notified(e)
        BY <2>3, <2>7 DEF Streams, Dated
      <3> QED
        BY <1>1, <1>3, <2>1, <3>2, <3>3 DEF Dated
    <2>10. SleepersCanBeWoken'
      <3> SUFFICES ASSUME NEW m \in asleep'
                   PROVE  m \in Parked(e) \ Notified(e) /\ e.waker[m] = m /\ ~e.closed
        BY <2>1 DEF SleepersCanBeWoken
      <3>1. /\ m \in Parked(ev) \ Notified(ev) /\ ev.waker[m] = m /\ ~ev.closed
            /\ m \notin w /\ m # s
        BY <2>1 DEF Streams, SleepersCanBeWoken
      <3>2. m \notin T
        BY <2>3, <3>1
      <3> QED
        BY <2>3, <3>1, <3>2
    <2>11. InOrderUnlessHandedOver'
      <3> SUFFICES ASSUME NEW m \in Notified(e) \ handed'
                   PROVE  e.value[m] > got'[m] /\ e.value[m] > since'[m]
        BY <2>1 DEF InOrderUnlessHandedOver
      <3>1. m \in Notified(ev) \ handed /\ m # s /\ m \in Stream
        BY <2>3, <2>6, <2>7, StreamSets
      <3> QED
        BY <1>3, <2>4, <3>1 DEF Streams, InOrderUnlessHandedOver
    <2> QED
      BY <1>2, <2>1, <2>3, <2>6, <2>7, <2>8, <2>9, <2>10, <2>11 DEF Streams, Untold
  <1>5. CASE s \notin Listening
    <2>1. ev' = ev /\ asleep' = asleep \ {s} /\ s \notin Notified(ev) /\ handed' = handed \ {s}
      BY <1>1, <1>5, StreamSets DEF DropStream
    <2>2. handed' = handed
      BY <2>1 DEF Streams, Dated
    <2>3. Registered'
      BY <1>1, <1>2, <1>5, <2>1 DEF Streams, Registered
    <2>4. Dated'
      BY <1>1, <1>3, <2>1, <2>2 DEF Streams, Dated
    <2>5. SleepersCanBeWoken'
      BY <2>1 DEF Streams, SleepersCanBeWoken
    <2>6. InOrderUnlessHandedOver'
      BY <1>3, <2>1, <2>2, StreamSets DEF Streams, InOrderUnlessHandedOver
    <2> QED
      BY <1>2, <2>1, <2>2, <2>3, <2>4, <2>5, <2>6 DEF Streams, Untold
  <1> QED
    BY <1>4, <1>5

\* A dropped emitter wakes whoever sleeps.
LEMMA DropEmitterInv ==
    ASSUME Streams, DropEmitter
    PROVE  Streams' /\ Untold' = Untold /\ Listening' = Listening
  <1>1. /\ ev' = Close(ev) /\ asleep' = asleep \ WakersOf(ev, Listeners(ev))
        /\ UNCHANGED <<stream, emitted, since, got, handed>>
        /\ EventInv(ev, Stream, Numbers, Stream) /\ Listeners(ev) = Listening
    BY DEF DropEmitter, Streams, Registered
  <1>2. /\ EventInv(Close(ev), Stream, Numbers, Stream) /\ Listeners(Close(ev)) = Listeners(ev)
        /\ Notified(Close(ev)) = Notified(ev) /\ Parked(Close(ev)) = {} /\ Close(ev).closed
    BY ONLY <1>1, CloseInv, Zenon
  <1>3. ev'.value = ev.value
    BY <1>1 DEF Close, EventInv, EventType
  <1>4. asleep' = {}
    <2>1. \A s \in asleep : s \in WakersOf(ev, Listeners(ev))
      BY <1>1, StreamSets DEF Streams, SleepersCanBeWoken, WakersOf
    <2> QED
      BY <1>1, <2>1
  <1>5. Listening' = Listening
    BY <1>1 DEF Listening
  <1>6. Registered'
    BY <1>1, <1>2, <1>5 DEF Streams, Registered
  <1>7. Dated' /\ InOrderUnlessHandedOver'
    BY <1>1, <1>2, <1>3 DEF Streams, Dated, InOrderUnlessHandedOver
  <1>8. SleepersCanBeWoken'
    BY <1>4 DEF SleepersCanBeWoken
  <1> QED
    BY <1>1, <1>2, <1>5, <1>6, <1>7, <1>8 DEF Streams, Untold
-----------------------------------------------------------------------------
(***************************************************************************)
(* The targets.                                                            *)
(***************************************************************************)

\* A subscriber that has nothing to read has read the latest change, unless a
\* change was announced while it had no listener.
Told ==
    \A s \in Stream : (s \in Untold \/ stream[s] = "next") /\ s \notin missed
                         => known[s] = Readable

\* A wait group has one stream and nothing to read.
OneWaiter ==
    kind = "wait_group" =>
        /\ Listening \subseteq {Waiter}
        /\ handed = {}
        /\ \A s \in Stream : known[s] = Readable

Targets ==
    /\ changes \in Nat /\ known \in [Stream -> Int]
    /\ Told
    /\ OneWaiter

IInv == Streams /\ Targets

\* Nobody subscribes to a new target yet.
LEMMA InitInv == TargetInit => IInv
  <1> SUFFICES ASSUME TargetInit PROVE IInv
    OBVIOUS
  <1>1. Streams
    BY StreamsInit DEF TargetInit
  <1>2. /\ Listening = {} /\ \A s \in Stream : stream[s] # "next" /\ known[s] = 0
        /\ Readable = 0 /\ handed = {} /\ changes = 0 /\ known \in [Stream -> Int]
    BY DEF TargetInit, Init, CellInit, Listening, Readable
  <1> QED
    BY <1>1, <1>2 DEF IInv, Targets, Told, OneWaiter, Untold

\* A step that tells nobody and lets nobody fall asleep keeps what is known.
LEMMA SameKnowledge ==
    ASSUME IInv, Streams', Untold' \subseteq Untold, kind' = kind, known' = known,
           \A s \in Stream : stream'[s] = "next" => stream[s] = "next",
           Readable' = Readable, missed' = missed, changes' \in Nat,
           Listening' \subseteq Listening, handed' \subseteq handed
    PROVE  IInv'
  <1>1. Told'
    BY DEF IInv, Targets, Told
  <1>2. OneWaiter'
    BY DEF IInv, Targets, OneWaiter
  <1> QED
    BY <1>1, <1>2 DEF IInv, Targets

\* After an announcement every listener has something to read.
LEMMA AnnouncedInv ==
    ASSUME IInv, Announce, changes' \in Nat, known' = known, kind' = kind, kind # "wait_group"
    PROVE  IInv'
  <1>1. Emit /\ missed' = missed \cup {s \in Stream : stream[s] = "next"}
    BY DEF Announce
  <1>2. Streams' /\ Untold' = {} /\ Listening' = Listening
    BY <1>1, EmitInv DEF IInv
  <1>3. stream' = stream
    BY <1>1 DEF Emit
  <1>4. Told'
    BY <1>1, <1>2, <1>3 DEF Told
  <1>5. OneWaiter'
    BY DEF OneWaiter
  <1> QED
    BY <1>2, <1>4, <1>5 DEF IInv, Targets

\* A new subscriber reads the cell.
LEMMA SubscribeCellInv ==
    ASSUME IInv, NEW s \in Stream, SubscribeCell(s), kind' = kind, kind # "wait_group"
    PROVE  IInv'
  <1>1. /\ Subscribe(s) /\ known' = [known EXCEPT ![s] = Readable]
        /\ UNCHANGED <<strong, value, guard, refs, changes, missed>>
        /\ stream' = [stream EXCEPT ![s] = "listening"]
    BY DEF SubscribeCell, Subscribe
  <1>2. Streams' /\ Untold' \subseteq Untold \cup {s}
    BY <1>1, SubscribeInv DEF IInv
  <1>3. /\ Readable' = Readable /\ Readable \in Int
        /\ known' \in [Stream -> Int] /\ known'[s] = Readable
        /\ \A m \in Stream \ {s} : known'[m] = known[m] /\ stream'[m] = stream[m]
    BY <1>1 DEF Readable, IInv, Targets, Streams, Registered
  <1>4. Told'
    BY <1>1, <1>2, <1>3 DEF IInv, Targets, Told
  <1>5. OneWaiter'
    BY DEF OneWaiter
  <1> QED
    BY <1>1, <1>2, <1>3, <1>4, <1>5 DEF IInv, Targets

\* So does one that is told of a change.
LEMMA ObserveInv ==
    ASSUME IInv, NEW s \in Stream, Observe(s), kind' = kind, kind # "wait_group"
    PROVE  IInv'
  <1>1. /\ PollItem(s) /\ known' = [known EXCEPT ![s] = Readable] /\ missed' = missed \ {s}
        /\ UNCHANGED <<strong, value, guard, refs, changes>>
        /\ stream' = [stream EXCEPT ![s] = "next"]
    BY DEF Observe, PollItem
  <1>2. Streams' /\ Untold' = Untold
    BY <1>1, PollItemInv DEF IInv
  <1>3. /\ Readable' = Readable /\ Readable \in Int
        /\ known' \in [Stream -> Int] /\ known'[s] = Readable
        /\ \A m \in Stream \ {s} : known'[m] = known[m] /\ stream'[m] = stream[m]
    BY <1>1 DEF Readable, IInv, Targets, Streams, Registered
  <1>4. Told'
    BY <1>1, <1>2, <1>3 DEF IInv, Targets, Told
  <1>5. OneWaiter'
    BY DEF OneWaiter
  <1> QED
    BY <1>1, <1>2, <1>3, <1>4, <1>5 DEF IInv, Targets

\* A stream that waits again was told before, or reads nothing.
LEMMA WaitAgainInv ==
    ASSUME IInv, NEW s \in Stream, PollWait(s) \/ PollNext(s), UNCHANGED cellVars,
           kind' = kind, kind # "wait_group" \/ PollWait(s)
    PROVE  IInv'
  <1>1. /\ known' = known /\ missed' = missed /\ changes' = changes /\ guard' = guard
        /\ Readable' = Readable
    BY DEF cellVars, Readable
  <1>2. \A m \in Stream : stream'[m] = "next" => stream[m] = "next"
    BY DEF PollWait, PollNext, Wait, IInv, Streams, Registered
  <1>3. Streams' /\ Untold' \subseteq Untold \cup {s}
    BY PollWaitInv, PollNextInv DEF IInv
  <1>4. CASE PollWait(s)
    <2>1. Untold' \subseteq Untold /\ Listening' \subseteq Listening /\ handed' = handed
      BY <1>4, PollWaitInv DEF IInv, PollWait
    <2> QED
      BY <1>1, <1>2, <1>3, <2>1, SameKnowledge DEF IInv, Targets
  <1>5. CASE PollNext(s) /\ kind # "wait_group"
    <2>1. stream[s] = "next"
      BY <1>5 DEF PollNext
    <2>2. Told'
      BY <1>1, <1>2, <1>3, <2>1 DEF IInv, Targets, Told
    <2>3. OneWaiter'
      BY <1>5 DEF OneWaiter
    <2> QED
      BY <1>1, <1>3, <2>2, <2>3 DEF IInv, Targets
  <1> QED
    BY <1>4, <1>5

\* What a dropped subscriber hands over tells one more listener.
LEMMA DropObserverInv ==
    ASSUME IInv, NEW s \in Stream, DropObserver(s), kind' = kind, kind # "wait_group"
    PROVE  IInv'
  <1>1. /\ DropStream(s) /\ known' = [known EXCEPT ![s] = 0] /\ missed' = missed \ {s}
        /\ UNCHANGED <<strong, value, guard, refs, changes>>
        /\ stream' = [stream EXCEPT ![s] = "none"]
    BY DEF DropObserver, DropStream
  <1>2. Streams' /\ Untold' \subseteq Untold /\ Listening' = Listening \ {s}
    BY <1>1, DropStreamInv DEF IInv
  <1>3. /\ Readable' = Readable /\ known' \in [Stream -> Int] /\ stream'[s] = "none"
        /\ \A m \in Stream \ {s} : known'[m] = known[m] /\ stream'[m] = stream[m]
    BY <1>1 DEF Readable, IInv, Targets, Streams, Registered
  <1>4. s \notin Untold'
    BY <1>2 DEF Untold
  <1>5. Told'
    BY <1>1, <1>2, <1>3, <1>4 DEF IInv, Targets, Told
  <1>6. OneWaiter'
    BY DEF OneWaiter
  <1> QED
    BY <1>1, <1>2, <1>3, <1>5, <1>6 DEF IInv, Targets

\* The last handle takes the emitter with it.
LEMMA DropHandleInv ==
    ASSUME IInv, DropHandle, kind' = kind
    PROVE  IInv'
  <1>1. UNCHANGED <<value, guard, refs, changes, known, missed>> /\ Readable' = Readable
    BY DEF DropHandle, Readable
  <1>2. CASE DropEmitter
    <2>1. Streams' /\ Untold' = Untold /\ Listening' = Listening
      BY <1>2, DropEmitterInv DEF IInv
    <2>2. stream' = stream /\ handed' = handed
      BY <1>2 DEF DropEmitter
    <2> QED
      BY <1>1, <2>1, <2>2, SameKnowledge DEF IInv, Targets
  <1>3. CASE UNCHANGED vars
    <2>1. Streams' /\ Untold' = Untold /\ Listening' = Listening /\ stream' = stream /\ handed' = handed
      BY <1>3 DEF vars, IInv, Streams, Registered, Dated, SleepersCanBeWoken,
                  InOrderUnlessHandedOver, Untold, Listening
    <2> QED
      BY <1>1, <2>1, SameKnowledge DEF IInv, Targets
  <1> QED
    BY <1>2, <1>3 DEF DropHandle

\* What touches neither the streams nor what can be read.
LEMMA QuietInv ==
    ASSUME IInv, UNCHANGED vars, known' = known, missed' = missed, kind' = kind,
           Readable' = Readable, changes' \in Nat
    PROVE  IInv'
  <1>1. Streams' /\ Untold' = Untold /\ Listening' = Listening /\ stream' = stream /\ handed' = handed
    BY DEF vars, IInv, Streams, Registered, Dated, SleepersCanBeWoken,
           InOrderUnlessHandedOver, Untold, Listening
  <1> QED
    BY <1>1, SameKnowledge

\* A guard keeps its change to itself until it goes.
LEMMA RefCellInv ==
    ASSUME IInv, RefCellNext, kind' = kind, kind # "wait_group"
    PROVE  IInv'
  <1>1. changes \in Nat
    BY DEF IInv, Targets
  <1>2. CASE UpgradeHandle \/ Borrow \/ DropRef \/ BorrowMut
    <2>1. UNCHANGED vars /\ known' = known /\ missed' = missed /\ changes' = changes
      BY <1>2 DEF UpgradeHandle, Borrow, DropRef, BorrowMut
    <2>2. guard' = guard \/ (guard = "none" /\ guard' = "clean")
      BY <1>2 DEF UpgradeHandle, Borrow, DropRef, BorrowMut
    <2>3. Readable' = Readable
      BY <2>1, <2>2 DEF Readable
    <2> QED
      BY <1>1, <2>1, <2>3, QuietInv
  <1>3. CASE DerefMut
    <2>1. /\ UNCHANGED vars /\ known' = known /\ missed' = missed
          /\ guard = "clean" /\ guard' = "mutated" /\ changes' = changes + 1
      BY <1>3 DEF DerefMut
    <2>2. Readable' = Readable
      BY <1>1, <2>1 DEF Readable
    <2> QED
      BY <1>1, <2>1, <2>2, QuietInv
  <1>4. CASE DropGuard
    <2>1. known' = known /\ changes' = changes /\ guard' = "none"
      BY <1>4 DEF DropGuard
    <2>2. CASE guard = "mutated"
      BY <1>1, <1>4, <2>1, <2>2, AnnouncedInv DEF DropGuard
    <2>3. CASE guard # "mutated"
      <3>1. UNCHANGED vars /\ missed' = missed
        BY <1>4, <2>3 DEF DropGuard
      <3>2. Readable' = Readable
        BY <2>1, <2>3 DEF Readable
      <3> QED
        BY <1>1, <2>1, <3>1, <3>2, QuietInv
    <2> QED
      BY <2>2, <2>3
  <1> QED
    BY <1>2, <1>3, <1>4 DEF RefCellNext

\* The wait group: its only stream is the waiter's.
LEMMA WaitGroupInv ==
    ASSUME IInv, WaitGroupNext, kind = "wait_group", kind' = kind
    PROVE  IInv'
  <1>1. /\ UNCHANGED cellVars /\ known' = known /\ missed' = missed /\ changes' = changes
        /\ Readable' = Readable /\ changes \in Nat
    BY DEF WaitGroupNext, cellVars, Readable, IInv, Targets
  <1>2. Listening \subseteq {Waiter} /\ handed = {} /\ \A s \in Stream : known[s] = Readable
    BY DEF IInv, Targets, OneWaiter
  <1>3. ASSUME Streams', Listening' \subseteq {Waiter}, handed' = {} PROVE IInv'
    BY <1>1, <1>2, <1>3 DEF IInv, Targets, Told, OneWaiter
  <1>4. CASE Add
    <2>1. UNCHANGED vars
      BY <1>4 DEF Add
    <2> QED
      BY <1>1, <2>1, QuietInv
  <1>5. CASE DropTicket
    <2>1. handed' = handed
      BY <1>5 DEF DropTicket
    <2> QED
      BY <1>2, <1>3, <1>5, <2>1, DropTicketInv DEF IInv
  <1>6. CASE WaitFirst
    <2>1. /\ Waiter \in Stream /\ Waiter \notin Listening /\ Wait(Waiter, Listen(ev, Waiter))
          /\ UNCHANGED <<emitted, since, got, handed>>
      BY <1>6, WaiterAssumption DEF WaitFirst, Listening
    <2>2. Streams' /\ Listening' \subseteq Listening \cup {Waiter}
      BY <2>1, ListenWaitInv DEF IInv
    <2> QED
      BY <1>2, <1>3, <2>1, <2>2
  <1>7. CASE PollWaiter
    <2>1. CASE WaitNotified
      <3>1. Streams' /\ Listening' \subseteq Listening \cup {Waiter} /\ handed' = handed
        BY <1>2, <2>1, WaitNotifiedInv DEF IInv, WaitNotified
      <3> QED
        BY <1>2, <1>3, <3>1
    <2>2. CASE PollWait(Waiter)
      BY <1>1, <2>2, WaitAgainInv, WaiterAssumption
    <2> QED
      BY <1>7, <2>1, <2>2 DEF PollWaiter
  <1>8. CASE DropWait
    <2>1. /\ Streams' /\ Untold' \subseteq Untold /\ Listening' = Listening \ {Waiter}
          /\ handed' \subseteq (handed \cup Untold) \ {Waiter}
      BY <1>8, DropStreamInv, WaiterAssumption DEF DropWait, IInv
    <2>2. handed' = {} /\ Listening' \subseteq {Waiter}
      BY <1>2, <2>1 DEF Untold
    <2> QED
      BY <1>3, <2>1, <2>2
  <1> QED
    BY <1>4, <1>5, <1>6, <1>7, <1>8 DEF WaitGroupNext

\* Every step keeps the invariant.
LEMMA NextInv == IInv /\ [TargetNext]_targetVars => IInv'
  <1> SUFFICES ASSUME IInv, [TargetNext]_targetVars PROVE IInv'
    OBVIOUS
  <1>1. changes \in Nat
    BY DEF IInv, Targets
  <1>2. CASE UNCHANGED targetVars
    <2>1. /\ UNCHANGED vars /\ known' = known /\ missed' = missed /\ kind' = kind
          /\ changes' = changes /\ Readable' = Readable
      BY <1>2 DEF targetVars, vars, cellVars, Readable
    <2> QED
      BY <1>1, <2>1, QuietInv
  <1>3. CASE kind = "wait_group" /\ WaitGroupNext /\ kind' = kind
    BY <1>3, WaitGroupInv
  <1>4. CASE kind # "wait_group" /\ Observers /\ kind' = kind
    <2>1. ASSUME NEW s \in Stream, PollCell(s) PROVE IInv'
      BY <1>4, <2>1, ObserveInv, WaitAgainInv DEF PollCell
    <2> QED
      BY <1>4, <2>1, SubscribeCellInv, DropObserverInv, DropHandleInv DEF Observers
  <1>5. CASE kind = "emitter" /\ EmitterNext /\ kind' = kind
    <2>1. Announce /\ changes' \in Nat /\ known' = known /\ kind # "wait_group"
      BY <1>1, <1>5 DEF EmitterNext
    <2> QED
      BY <1>5, <2>1, AnnouncedInv
  <1>6. CASE kind = "cell" /\ CellNext /\ kind' = kind
    <2>1. ASSUME NEW v \in Value, Set(v) PROVE IInv'
      <3>1. Announce /\ changes' \in Nat /\ known' = known
        BY <1>1, <2>1 DEF Set
      <3> QED
        BY <1>6, <3>1, AnnouncedInv
    <2>2. ASSUME UpgradeHandle PROVE IInv'
      BY <1>6, <2>2, RefCellInv DEF RefCellNext
    <2> QED
      BY <1>6, <2>1, <2>2 DEF CellNext
  <1>7. CASE kind = "ref_cell" /\ RefCellNext /\ kind' = kind
    BY <1>7, RefCellInv
  <1> QED
    BY <1>2, <1>3, <1>4, <1>5, <1>6, <1>7 DEF TargetNext

\* The invariant of the streams and of their targets.
THEOREM TargetInvariant == TargetSpec => []IInv
  <1> QED
    BY InitInv, NextInv, PTL DEF TargetSpec

\* Exactly the listening subscribers are registered, once each.
THEOREM TargetTypeCorrect == TargetSpec => []TypeOK
  <1>1. IInv => TypeOK
    BY MaxEmitsAssumption
       DEF IInv, Streams, Registered, Dated, EventInv, Numbers, TypeOK
  <1> QED
    BY <1>1, TargetInvariant, PTL

\* Only a value that was handed over reaches a subscriber out of order.
THEOREM ValuesInOrder == TargetSpec => []InOrderUnlessHandedOver
  <1>1. IInv => InOrderUnlessHandedOver
    BY DEF IInv, Streams
  <1> QED
    BY <1>1, TargetInvariant, PTL

\* The tickets are counted, and one is left while the waiter has nothing to read.
Counted == kind = "wait_group" => tickets \in Nat /\ (Waiter \in Untold => tickets > 0)

\* The drop of a ticket reaches a waiter that has nothing to read.
LEMMA DropTicketReaches ==
    ASSUME Streams, Listening \subseteq {Waiter}, DropTicket, Waiter \in Untold
    PROVE  Waiter \in Notified(ev')
  <1>1. /\ EventInv(ev, Stream, Numbers, Stream) /\ Listeners(ev) = Listening
        /\ ev' = Mark(ev, NotifyTargets(ev, 1), emitted + 1)
    BY DEF Streams, Registered, DropTicket, NotifyOne
  <1>2. Notified(ev) = {} /\ Unnotified(ev) = {Waiter}
    BY <1>1, StreamSets DEF Untold, Unnotified
  <1>3. ev.notified = 0
    BY <1>1, <1>2, FS_EmptySet DEF EventInv
  <1>4. FirstUnnotified(ev, 1) = {Waiter}
    BY <1>1, <1>2, FirstUnnotifiedOne, StreamAssumption
  <1>5. NotifyTargets(ev, 1) = {Waiter}
    BY <1>3, <1>4 DEF NotifyTargets
  <1> QED
    BY <1>1, <1>5 DEF Mark, Notified, EventInv, EventType

\* Every call of the wait group counts.
LEMMA CountedInv == IInv /\ Counted /\ [TargetNext]_targetVars => Counted'
  <1> SUFFICES ASSUME IInv, Counted, [TargetNext]_targetVars, kind = "wait_group", kind' = kind
               PROVE  tickets' \in Nat /\ (Waiter \in Untold' => tickets' > 0)
    BY DEF Counted, TargetNext, targetVars
  <1>1. /\ tickets \in Nat /\ (Waiter \in Untold => tickets > 0)
        /\ Waiter \in Stream /\ Listening \subseteq {Waiter}
        /\ stream \in [Stream -> {"none", "listening", "next", "done"}]
    BY WaiterAssumption DEF Counted, IInv, Streams, Registered, Targets, OneWaiter
  <1>2. CASE Add
    <2>1. UNCHANGED <<ev, stream>> /\ tickets' = tickets + 1 /\ stream[Waiter] = "none"
      BY <1>2 DEF Add, vars
    <2> QED
      BY <1>1, <2>1 DEF Untold, Listening
  <1>3. CASE DropTicket
    <2>1. tickets > 0 /\ tickets' = tickets - 1 /\ stream' = stream
      BY <1>3 DEF DropTicket
    <2>2. Waiter \notin Untold'
      <3>1. Notified(ev) \subseteq Notified(ev')
        BY <1>3 DEF DropTicket, NotifyOne, Mark, Notified, IInv, Streams, Registered, EventInv, EventType
      <3> QED
        BY <1>1, <1>3, <2>1, <3>1, DropTicketReaches DEF Untold, Listening, IInv
    <2> QED
      BY <1>1, <2>1, <2>2
  <1>4. CASE WaitFirst
    BY <1>1, <1>4 DEF WaitFirst
  <1>5. CASE WaitNotified
    <2>1. tickets' = tickets
      BY <1>5 DEF WaitNotified
    <2>2. CASE tickets = 0
      <3>1. stream' = [stream EXCEPT ![Waiter] = "none"]
        BY <1>5, <2>2 DEF WaitNotified
      <3> QED
        BY <1>1, <2>1, <3>1 DEF Untold, Listening
    <2> QED
      BY <1>1, <2>1, <2>2
  <1>6. CASE PollWait(Waiter) /\ UNCHANGED tickets
    BY <1>1, <1>6 DEF PollWait, Untold
  <1>7. CASE DropWait
    <2>1. stream' = [stream EXCEPT ![Waiter] = "none"] /\ tickets' = tickets
      BY <1>7 DEF DropWait, DropStream
    <2> QED
      BY <1>1, <2>1 DEF Untold, Listening
  <1>8. CASE UNCHANGED targetVars
    BY <1>1, <1>8 DEF targetVars, vars, Untold, Listening
  <1> QED
    BY <1>2, <1>3, <1>4, <1>5, <1>6, <1>7, <1>8 DEF TargetNext, WaitGroupNext, PollWaiter

\* Whoever sleeps is parked with its own waker on an event that still exists, and a
\* waiter with nothing to read has a ticket to wait for.
THEOREM SleepersAreParked == TargetSpec => []SleepersHaveAWaker
  <1>1. TargetInit => Counted
    BY DEF TargetInit, Init, Counted, Untold, Listening
  <1>2. IInv /\ Counted => SleepersHaveAWaker
    BY DEF IInv, Streams, Counted, SleepersHaveAWaker, Untold
  <1> QED
    BY <1>1, <1>2, CountedInv, TargetInvariant, PTL DEF TargetSpec

\* A sleeper has read every change that was announced to it.
THEOREM NoChangeIsLost == TargetSpec => []SleepersKnowTheLatestChange
  <1>1. IInv => SleepersKnowTheLatestChange
    BY StreamSets DEF IInv, Targets, Told, Untold, SleepersKnowTheLatestChange
  <1> QED
    BY <1>1, TargetInvariant, PTL
=============================================================================
