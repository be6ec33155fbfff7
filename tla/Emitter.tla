------------------------------ MODULE Emitter ------------------------------
(***************************************************************************)
(* The broadcast emitter of src/emitter.rs: subscribers are streams over   *)
(* one event, and emit() notifies all listeners with the value.  A stream  *)
(* has a listener only while it is Listening; after an item it is in state *)
(* Next and registers a new listener when it is polled again.              *)
(*                                                                         *)
(* Values are numbered in the order they are emitted.  A subscriber is     *)
(* driven the way Listener::poll and the Next future drive it: polled      *)
(* until it is pending, then again when it is woken.  Between two polls    *)
(* any other code may run.                                                 *)
(***************************************************************************)
EXTENDS EventOps

CONSTANTS Stream,       \* the subscribers
          MaxEmits      \* bound: values ever emitted

ASSUME MaxEmitsAssumption == MaxEmits \in Nat
ASSUME StreamAssumption == IsFiniteSet(Stream)

VARIABLES ev,           \* Emitter::event; closed once the emitter is dropped
          stream,       \* EmitterStreamState of each subscriber, or "none"
          emitted,      \* the values emitted so far
          asleep,       \* the subscribers found pending and not woken since
          since,        \* the values emitted when a subscriber subscribed
          got,          \* the greatest value a subscriber has received
          handed        \* the subscribers whose value a dropped one handed over

vars == <<ev, stream, emitted, asleep, since, got, handed>>

Listening == {s \in Stream : stream[s] = "listening"}

Init ==
    /\ ev = NewEvent
    /\ stream = [s \in Stream |-> "none"]
    /\ emitted = 0
    /\ asleep = {}
    /\ since = [s \in Stream |-> 0]
    /\ got = [s \in Stream |-> 0]
    /\ handed = {}

\* Emitter::subscribe.
Subscribe(s) ==
    /\ ~ev.closed
    /\ stream[s] = "none"
    /\ ev' = Listen(ev, s)
    /\ stream' = [stream EXCEPT ![s] = "listening"]
    /\ since' = [since EXCEPT ![s] = emitted]
    /\ UNCHANGED <<emitted, asleep, got, handed>>

\* Emitter::emit: event.notify(usize::MAX.with(value)).
Emit ==
    /\ ~ev.closed
    /\ emitted < MaxEmits
    /\ emitted' = emitted + 1
    /\ ev' = NotifyAll(ev, emitted + 1)
    /\ asleep' = asleep \ WokenByAll(ev)
    /\ UNCHANGED <<stream, since, got, handed>>

\* Broken on purpose: the listener outlives its item.
PollItemKeepsListener(s) ==
    /\ s \in Listening \cap Notified(ev)
    /\ ev' = Consume(ev, s)
    /\ stream' = [stream EXCEPT ![s] = "next"]
    /\ got' = [got EXCEPT ![s] = IF ev.value[s] > @ THEN ev.value[s] ELSE @]
    /\ handed' = handed \ {s}
    /\ UNCHANGED <<emitted, asleep, since>>

\* Broken on purpose: the item is read and not taken.
PollItemPeeks(s) ==
    /\ s \in Listening \cap Notified(ev)
    /\ got' = [got EXCEPT ![s] = IF ev.value[s] > @ THEN ev.value[s] ELSE @]
    /\ handed' = handed \ {s}
    /\ UNCHANGED <<ev, stream, emitted, asleep, since>>

\* EmitterStream::poll_next, Listening and notified: the item is returned, the
\* listener is dropped and the state is Next.
PollItem(s) ==
    /\ s \in Listening \cap Notified(ev)
    /\ ev' = DropListener(Consume(ev, s), s)
    /\ stream' = [stream EXCEPT ![s] = "next"]
    /\ got' = [got EXCEPT ![s] = IF ev.value[s] > @ THEN ev.value[s] ELSE @]
    /\ handed' = handed \ {s}
    /\ UNCHANGED <<emitted, asleep, since>>

\* Broken on purpose: a listener of a closed event is waited on.
WaitIgnoresClosed(s, e) ==
    /\ ev' = Park(e, s, s)
    /\ stream' = [stream EXCEPT ![s] = "listening"]
    /\ asleep' = asleep \cup {s}

\* poll_next with a listener that is not notified, in event e.
Wait(s, e) ==
    IF e.closed
    THEN /\ ev' = DropListener(Park(e, s, s), s)
         /\ stream' = [stream EXCEPT ![s] = "done"]
         /\ asleep' = asleep \ {s}
    ELSE /\ ev' = Park(e, s, s)
         /\ stream' = [stream EXCEPT ![s] = "listening"]
         /\ asleep' = asleep \cup {s}

PollWait(s) ==
    /\ s \in Listening \ Notified(ev)
    /\ Wait(s, ev)
    /\ UNCHANGED <<emitted, since, got, handed>>

\* poll_next in state Next: Weak::upgrade tells whether the emitter still lives.
PollNext(s) ==
    /\ stream[s] = "next"
    /\ IF ev.closed
       THEN stream' = [stream EXCEPT ![s] = "done"] /\ UNCHANGED <<ev, asleep>>
       ELSE Wait(s, Listen(ev, s))
    /\ UNCHANGED <<emitted, since, got, handed>>

Poll(s) == PollItem(s) \/ PollWait(s) \/ PollNext(s)

\* A subscriber is dropped: by its owner, or because its callback returned false.
DropStream(s) ==
    LET e == IF s \in Listening THEN DropListener(ev, s) ELSE ev
        tasks == IF s \in Listening THEN WokenByDrop(ev, s) ELSE {}
    IN
    /\ stream[s] # "none"
    /\ ev' = e
    /\ stream' = [stream EXCEPT ![s] = "none"]
    /\ asleep' = asleep \ (tasks \cup {s})
    /\ handed' = (handed \cup (Notified(e) \ Notified(ev))) \ {s}
    /\ since' = [since EXCEPT ![s] = 0]
    /\ got' = [got EXCEPT ![s] = 0]
    /\ UNCHANGED emitted

\* Broken on purpose: dropping the emitter wakes nobody.
DropEmitterQuietly ==
    /\ ~ev.closed
    /\ ev' = Close(ev)
    /\ UNCHANGED <<stream, emitted, asleep, since, got, handed>>

\* The emitter, and with it the event, is dropped.
DropEmitter ==
    /\ ~ev.closed
    /\ ev' = Close(ev)
    /\ asleep' = asleep \ WakersOf(ev, Listeners(ev))
    /\ UNCHANGED <<stream, emitted, since, got, handed>>

Next ==
    \/ \E s \in Stream : Subscribe(s) \/ Poll(s) \/ DropStream(s)
    \/ Emit \/ DropEmitter

\* A subscriber is polled until it is pending, and again when it is woken.
Fairness == \A s \in Stream : WF_vars(s \notin asleep /\ Poll(s))

Spec == Init /\ [][Next]_vars /\ Fairness
-----------------------------------------------------------------------------
\* Exactly the listening subscribers are registered, once each.
TypeOK ==
    /\ ev \in EventType(Stream, 1 .. MaxEmits, Stream)
    /\ Distinct(ev)
    /\ stream \in [Stream -> {"none", "listening", "next", "done"}]
    /\ emitted \in 0 .. MaxEmits
    /\ Listeners(ev) = Listening
    /\ since \in [Stream -> 0 .. MaxEmits]
    /\ got \in [Stream -> 0 .. MaxEmits]
    /\ handed \subseteq Notified(ev)

\* A subscriber whose task sleeps can be woken: it has no unread value, its
\* listener is parked, and the emitter still exists.
SleepersCanBeWoken ==
    \A s \in asleep : s \in Parked(ev) \ Notified(ev) /\ ev.waker[s] = s /\ ~ev.closed

\* A value reaches a subscriber after the values it received before and after it
\* subscribed; the one exception is a value that a dropped subscriber handed over.
InOrderUnlessHandedOver ==
    \A s \in Notified(ev) \ handed : ev.value[s] > got[s] /\ ev.value[s] > since[s]

\* Values emitted before subscribing are not replayed.
NotReplayed == \A s \in Notified(ev) : ev.value[s] > since[s]

\* Once the emitter is dropped every subscriber ends, asleep or not, with or
\* without an unread value.
StreamsEnd == ev.closed ~> \A s \in Stream : stream[s] \in {"none", "done"}
=============================================================================
