------------------------------ MODULE EventOps ------------------------------
(***************************************************************************)
(* The data of one `Event` (src/event.rs) and its operations, as operators *)
(* on a record, so that every primitive built on an event is a state       *)
(* machine over such records.                                              *)
(*                                                                         *)
(*   order     the listeners in the order in which the BTreeMap walks them *)
(*             (ids only grow, so registration order is id order)          *)
(*   value     the notified listeners (its domain) and the value each of   *)
(*             them holds                                                  *)
(*   waker     the listeners with a stored waker and the task it wakes     *)
(*   notified  the counter `Inner::notified`                               *)
(*   closed    the owning `Event` has been dropped                         *)
(*                                                                         *)
(* A listener is named by its owner: the id is abstracted away, because it *)
(* is never reused and only its order is ever observed.                    *)
(***************************************************************************)
EXTENDS Integers, FiniteSets, SequencesExt

NoEntries == [x \in {} |-> x]

NewEvent == [order |-> <<>>, value |-> NoEntries, waker |-> NoEntries,
             notified |-> 0, closed |-> FALSE]

PartialFunctions(S, V) == UNION {[D -> V] : D \in SUBSET S}

\* The events whose listeners are owned by S, with values V and tasks W.
EventType(S, V, W) ==
    [order : Seq(S), value : PartialFunctions(S, V), waker : PartialFunctions(S, W),
     notified : Nat, closed : BOOLEAN]

\* An owner has one listener at a time.
Distinct(ev) == \A i, j \in DOMAIN ev.order : ev.order[i] = ev.order[j] => i = j

Listeners(ev) == Range(ev.order)

Notified(ev) == DOMAIN ev.value

Parked(ev) == DOMAIN ev.waker

Unnotified(ev) == Listeners(ev) \ Notified(ev)

\* Listener a is walked before listener b.
Before(ev, a, b) ==
    \E i, j \in DOMAIN ev.order : i < j /\ ev.order[i] = a /\ ev.order[j] = b

\* Broken on purpose: the walk starts at the newest listener.
FirstUnnotifiedBackwards(ev, k) ==
    {l \in Unnotified(ev) :
        Cardinality({m \in Unnotified(ev) : Before(ev, l, m)}) < k}

\* The k listeners a walk in id order that skips notified entries reaches.
FirstUnnotified(ev, k) ==
    {l \in Unnotified(ev) :
        Cardinality({m \in Unnotified(ev) : Before(ev, m, l)}) < k}

\* The tasks whose stored wakers are taken and woken when the listeners in S
\* are marked.
WakersOf(ev, S) == {ev.waker[l] : l \in S \cap Parked(ev)}

\* Each listener of S gets value v, loses its waker and is counted.
Mark(ev, S, v) ==
    [ev EXCEPT
        !.value = [l \in Notified(ev) \cup S |-> IF l \in S THEN v ELSE ev.value[l]],
        !.waker = Restrict(ev.waker, Parked(ev) \ S),
        !.notified = @ + Cardinality(S)]

Listen(ev, l) == [ev EXCEPT !.order = Append(@, l)]

(***************************************************************************)
(* notify(n) counts the listeners that are notified already;               *)
(* notify(n.additional()) does not.  A count of usize::MAX reaches every   *)
(* unnotified listener.                                                    *)
(***************************************************************************)
NotifyTargets(ev, n) ==
    FirstUnnotified(ev, IF n > ev.notified THEN n - ev.notified ELSE 0)

AdditionalTargets(ev, n) ==
    FirstUnnotified(ev, IF n < Len(ev.order) THEN n ELSE Len(ev.order))

NotifyOne(ev, v) == Mark(ev, NotifyTargets(ev, 1), v)

NotifyAll(ev, v) == Mark(ev, Unnotified(ev), v)

WokenByOne(ev) == WakersOf(ev, NotifyTargets(ev, 1))

WokenByAll(ev) == WakersOf(ev, Unnotified(ev))

\* The owning `Event` is dropped: every stored waker is taken and woken.
Close(ev) == [ev EXCEPT !.closed = TRUE, !.waker = NoEntries]

\* Broken on purpose: the waker of a dropped listener stays behind.
UnregisterWithoutWaker(ev, l) ==
    [ev EXCEPT
        !.order = RemoveAt(@, CHOOSE i \in DOMAIN @ : @[i] = l),
        !.value = Restrict(@, Notified(ev) \ {l})]

\* Broken on purpose: a dropped listener takes its notification with it.
DropWithoutHandover(ev, l) ==
    LET i == CHOOSE j \in DOMAIN ev.order : ev.order[j] = l IN
    [ev EXCEPT !.order = RemoveAt(@, i),
               !.value = Restrict(@, Notified(ev) \ {l}),
               !.waker = Restrict(@, Parked(ev) \ {l}),
               !.notified = Cardinality(Notified(ev) \ {l})]

\* Broken on purpose: a handed-over notification wakes nobody.
WokenByDropNobody(ev, l) == {}

(***************************************************************************)
(* EventListener::drop: the entry goes, and the notification it holds goes *)
(* to the first listener without one.                                      *)
(***************************************************************************)
Unregister(ev, l) ==
    [ev EXCEPT
        !.order = RemoveAt(@, CHOOSE i \in DOMAIN @ : @[i] = l),
        !.value = Restrict(@, Notified(ev) \ {l}),
        !.waker = Restrict(@, Parked(ev) \ {l})]

HandsOver(ev, l) == l \in Notified(ev) /\ ev.notified > 0

Released(ev, l) == [Unregister(ev, l) EXCEPT !.notified = @ - 1]

DropListener(ev, l) ==
    IF HandsOver(ev, l)
    THEN Mark(Released(ev, l), FirstUnnotified(Released(ev, l), 1), ev.value[l])
    ELSE Unregister(ev, l)

WokenByDrop(ev, l) ==
    IF HandsOver(ev, l)
    THEN WakersOf(Released(ev, l), FirstUnnotified(Released(ev, l), 1))
    ELSE {}

\* Broken on purpose: a consumed notification still counts.
ConsumeUncounted(ev, l) == [ev EXCEPT !.value = Restrict(@, Notified(ev) \ {l})]

\* Broken on purpose: a stored waker is never replaced.
ParkOnce(ev, l, t) ==
    [ev EXCEPT !.waker = [m \in Parked(ev) \cup {l} |->
                            IF m \in Parked(ev) THEN ev.waker[m] ELSE t]]

(***************************************************************************)
(* EventListener::poll: take the value and give the count back, or store   *)
(* the waker of the polling task.                                          *)
(***************************************************************************)
Consume(ev, l) ==
    [ev EXCEPT !.value = Restrict(@, Notified(ev) \ {l}),
               !.notified = IF @ > 0 THEN @ - 1 ELSE 0]

Park(ev, l, t) ==
    [ev EXCEPT !.waker = [m \in Parked(ev) \cup {l} |->
                            IF m = l THEN t ELSE ev.waker[m]]]
=============================================================================
