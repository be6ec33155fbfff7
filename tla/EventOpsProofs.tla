--------------------------- MODULE EventOpsProofs ---------------------------
(***************************************************************************)
(* What the operations of EventOps preserve and return, for every set of   *)
(* listeners, values and tasks.  The modules about the primitives cite     *)
(* these lemmas by name.                                                   *)
(***************************************************************************)
EXTENDS EventOps, SequenceTheorems, FiniteSetTheorems, WellFoundedInduction, TLAPS

(***************************************************************************)
(* The event invariant: registered listeners are in the order once, only   *)
(* they are notified or parked, never both, and the counter counts the     *)
(* notified ones.                                                          *)
(***************************************************************************)
EventInv(ev, S, V, W) ==
    /\ ev \in EventType(S, V, W)
    /\ Distinct(ev)
    /\ Notified(ev) \subseteq Listeners(ev)
    /\ Parked(ev) \subseteq Listeners(ev) \ Notified(ev)
    /\ ev.notified = Cardinality(Notified(ev))

\* A partial function is a function on a subset.
LEMMA PartialFunctionDef ==
    ASSUME NEW S, NEW V, NEW f
    PROVE  f \in PartialFunctions(S, V) <=> DOMAIN f \subseteq S /\ f \in [DOMAIN f -> V]
  BY DEF PartialFunctions

\* The registered listeners, the notified and the parked ones are owners.
LEMMA EventSets ==
    ASSUME NEW S, NEW V, NEW W, NEW ev, ev \in EventType(S, V, W)
    PROVE  /\ Listeners(ev) \subseteq S
           /\ Notified(ev) \subseteq S
           /\ Parked(ev) \subseteq S
           /\ \A l \in Notified(ev) : ev.value[l] \in V
           /\ \A l \in Parked(ev) : ev.waker[l] \in W
  <1>1. ev.order \in Seq(S)
    BY DEF EventType
  <1>2. Listeners(ev) \subseteq S
    BY <1>1 DEF Listeners, Range
  <1>3. /\ DOMAIN ev.value \subseteq S /\ ev.value \in [DOMAIN ev.value -> V]
        /\ DOMAIN ev.waker \subseteq S /\ ev.waker \in [DOMAIN ev.waker -> W]
    BY PartialFunctionDef DEF EventType
  <1> QED
    BY <1>2, <1>3 DEF Notified, Parked

\* An event stays an event when fields of it are replaced by values of their type.
LEMMA EventUpdate ==
    ASSUME NEW S, NEW V, NEW W, NEW ev, ev \in EventType(S, V, W),
           NEW o \in Seq(S), NEW val \in PartialFunctions(S, V),
           NEW wak \in PartialFunctions(S, W), NEW n \in Nat
    PROVE  /\ [ev EXCEPT !.value = val, !.waker = wak, !.notified = n] \in EventType(S, V, W)
           /\ [ev EXCEPT !.order = o, !.value = val, !.waker = wak] \in EventType(S, V, W)
           /\ [ev EXCEPT !.value = val, !.notified = n] \in EventType(S, V, W)
           /\ [ev EXCEPT !.closed = TRUE, !.waker = wak] \in EventType(S, V, W)
           /\ [ev EXCEPT !.waker = wak] \in EventType(S, V, W)
           /\ [ev EXCEPT !.notified = n] \in EventType(S, V, W)
  BY DEF EventType

\* A new event satisfies the invariant; it has no listener.
LEMMA NewEventInv ==
    ASSUME NEW S, NEW V, NEW W
    PROVE  /\ EventInv(NewEvent, S, V, W)
           /\ Listeners(NewEvent) = {} /\ Notified(NewEvent) = {} /\ Parked(NewEvent) = {}
  <1>1. NoEntries \in PartialFunctions(S, V) /\ NoEntries \in PartialFunctions(S, W)
    BY PartialFunctionDef DEF NoEntries
  <1>2. NewEvent \in EventType(S, V, W)
    BY <1>1 DEF NewEvent, EventType
  <1>3. Listeners(NewEvent) = {} /\ Notified(NewEvent) = {} /\ Parked(NewEvent) = {}
    BY DEF Listeners, Notified, Parked, NewEvent, NoEntries, Range
  <1>4. Distinct(NewEvent)
    BY DEF Distinct, NewEvent
  <1>5. NewEvent.notified = Cardinality(Notified(NewEvent))
    BY <1>3, FS_EmptySet DEF NewEvent
  <1> QED
    BY <1>2, <1>3, <1>4, <1>5 DEF EventInv

\* Event::listen appends an owner that has no listener yet.
LEMMA ListenInv ==
    ASSUME NEW S, NEW V, NEW W, NEW ev, EventInv(ev, S, V, W),
           NEW l \in S, l \notin Listeners(ev)
    PROVE  /\ EventInv(Listen(ev, l), S, V, W)
           /\ Listeners(Listen(ev, l)) = Listeners(ev) \cup {l}
           /\ Notified(Listen(ev, l)) = Notified(ev)
           /\ Parked(Listen(ev, l)) = Parked(ev)
           /\ Listen(ev, l).value = ev.value
           /\ Listen(ev, l).waker = ev.waker
           /\ Listen(ev, l).closed = ev.closed
  <1> DEFINE e == Listen(ev, l)
  <1>1. ev \in EventType(S, V, W) /\ ev.order \in Seq(S)
    BY DEF EventInv, EventType
  <1>2. /\ e \in EventType(S, V, W) /\ e.order = Append(ev.order, l)
        /\ e.value = ev.value /\ e.waker = ev.waker
        /\ e.notified = ev.notified /\ e.closed = ev.closed
    BY <1>1 DEF Listen, EventType
  <1>3. Listeners(e) = Listeners(ev) \cup {l}
    BY <1>1, <1>2 DEF Listeners, Range
  <1>4. Distinct(e)
    <2>1. /\ DOMAIN e.order = 1 .. Len(ev.order) + 1
          /\ \A i \in 1 .. Len(ev.order) : e.order[i] = ev.order[i]
          /\ e.order[Len(ev.order) + 1] = l
          /\ DOMAIN ev.order = 1 .. Len(ev.order) /\ Len(ev.order) \in Nat
      BY <1>1, <1>2
    <2>2. \A i \in 1 .. Len(ev.order) : e.order[i] # l
      BY <2>1 DEF Listeners, Range
    <2> QED
      BY <2>1, <2>2 DEF Distinct, EventInv
  <1> QED
    BY <1>2, <1>3, <1>4 DEF EventInv, Notified, Parked

\* What marking the listeners of T makes of event ev: they are notified and lose
\* their wakers, the others keep theirs.
Marked(e, ev, T) ==
    /\ Listeners(e) = Listeners(ev)
    /\ Notified(e) = Notified(ev) \cup T
    /\ Parked(e) = Parked(ev) \ T
    /\ \A l \in Parked(e) : e.waker[l] = ev.waker[l]
    /\ e.order = ev.order
    /\ e.closed = ev.closed

\* Marking unnotified listeners keeps the invariant, the counter included.
LEMMA MarkInv ==
    ASSUME NEW S, IsFiniteSet(S), NEW V, NEW W, NEW ev, EventInv(ev, S, V, W),
           NEW T, T \subseteq Unnotified(ev), NEW v \in V
    PROVE  EventInv(Mark(ev, T, v), S, V, W) /\ Marked(Mark(ev, T, v), ev, T)
  <1> DEFINE e == Mark(ev, T, v)
             val == [l \in Notified(ev) \cup T |-> IF l \in T THEN v ELSE ev.value[l]]
             wak == [l \in Parked(ev) \ T |-> ev.waker[l]]
  <1>1. ev \in EventType(S, V, W)
    BY DEF EventInv
  <1>2. /\ Notified(ev) \subseteq S /\ Parked(ev) \subseteq S /\ Listeners(ev) \subseteq S
        /\ \A l \in Notified(ev) : ev.value[l] \in V
        /\ \A l \in Parked(ev) : ev.waker[l] \in W
    BY <1>1, EventSets
  <1>3. T \subseteq S /\ T \cap Notified(ev) = {} /\ T \subseteq Listeners(ev)
    BY <1>2 DEF Unnotified
  <1>4. IsFiniteSet(T) /\ IsFiniteSet(Notified(ev))
    BY <1>2, <1>3, FS_Subset
  <1>5. Cardinality(T) \in Nat /\ Cardinality(Notified(ev)) \in Nat
    BY <1>4, FS_CardinalityType
  <1>6. Cardinality(Notified(ev) \cup T) = Cardinality(Notified(ev)) + Cardinality(T)
    <2>1. Notified(ev) \cap T = {}
      BY <1>3
    <2> QED
      BY <1>4, <1>5, <2>1, FS_Union, FS_EmptySet
  <1>7. /\ e.value = val /\ e.waker = wak
        /\ e.notified = ev.notified + Cardinality(T)
        /\ e.order = ev.order /\ e.closed = ev.closed
    BY <1>1 DEF Mark, EventType, Restrict
  <1>8. val \in PartialFunctions(S, V)
    <2>1. val \in [Notified(ev) \cup T -> V]
      BY <1>2
    <2>2. DOMAIN val = Notified(ev) \cup T
      OBVIOUS
    <2> QED
      BY <1>2, <1>3, <2>1, <2>2, PartialFunctionDef
  <1>9. wak \in PartialFunctions(S, W)
    <2>1. wak \in [Parked(ev) \ T -> W]
      BY <1>2
    <2>2. DOMAIN wak = Parked(ev) \ T
      OBVIOUS
    <2> QED
      BY <1>2, <2>1, <2>2, PartialFunctionDef
  <1>10. e.notified \in Nat
    BY <1>1, <1>5, <1>7 DEF EventType
  <1>11. e \in EventType(S, V, W)
    <2>1. ev.notified + Cardinality(T) \in Nat
      BY <1>7, <1>10
    <2>2. e = [ev EXCEPT !.value = val, !.waker = wak, !.notified = ev.notified + Cardinality(T)]
      BY DEF Mark, Restrict
    <2>3. ev.order \in Seq(S)
      BY <1>1 DEF EventType
    <2> HIDE DEF e, val, wak
    <2> QED
      BY <1>1, <1>8, <1>9, <2>1, <2>2, <2>3, EventUpdate
  <1>12. Notified(e) = Notified(ev) \cup T /\ Parked(e) = Parked(ev) \ T
    BY <1>7 DEF Notified, Parked
  <1>13. Listeners(e) = Listeners(ev)
    BY <1>7 DEF Listeners
  <1>14. Distinct(e)
    BY <1>7 DEF Distinct, EventInv
  <1>15. \A l \in Parked(ev) \ T : e.waker[l] = ev.waker[l]
    BY <1>7
  <1>16. EventInv(e, S, V, W)
    BY <1>3, <1>6, <1>7, <1>11, <1>12, <1>13, <1>14 DEF EventInv
  <1>17. Marked(e, ev, T)
    BY <1>7, <1>12, <1>13, <1>15 DEF Marked
  <1> QED
    BY <1>16, <1>17

\* EventListener::poll takes the value of a notified listener and gives the
\* count back.
LEMMA ConsumeInv ==
    ASSUME NEW S, IsFiniteSet(S), NEW V, NEW W, NEW ev, EventInv(ev, S, V, W),
           NEW l \in Notified(ev)
    PROVE  /\ EventInv(Consume(ev, l), S, V, W)
           /\ Listeners(Consume(ev, l)) = Listeners(ev)
           /\ Notified(Consume(ev, l)) = Notified(ev) \ {l}
           /\ Parked(Consume(ev, l)) = Parked(ev)
           /\ Consume(ev, l).waker = ev.waker
           /\ Consume(ev, l).order = ev.order
           /\ Consume(ev, l).closed = ev.closed
  <1> DEFINE e == Consume(ev, l)
             val == [m \in Notified(ev) \ {l} |-> ev.value[m]]
  <1>1. ev \in EventType(S, V, W)
    BY DEF EventInv
  <1>2. Notified(ev) \subseteq S /\ \A m \in Notified(ev) : ev.value[m] \in V
    BY <1>1, EventSets
  <1>3. IsFiniteSet(Notified(ev))
    BY <1>2, FS_Subset
  <1>4. /\ Cardinality(Notified(ev)) \in Nat
        /\ Cardinality(Notified(ev) \ {l}) \in Nat
        /\ Cardinality(Notified(ev) \ {l}) = Cardinality(Notified(ev)) - 1
    BY <1>3, FS_RemoveElement, FS_CardinalityType
  <1>5. ev.notified = Cardinality(Notified(ev)) /\ ev.notified > 0
    BY <1>4 DEF EventInv
  <1>6. /\ e.order = ev.order /\ e.value = val /\ e.waker = ev.waker
        /\ e.notified = ev.notified - 1 /\ e.closed = ev.closed
    BY <1>1, <1>5 DEF Consume, EventType, Restrict
  <1>7. val \in PartialFunctions(S, V)
    <2>1. val \in [Notified(ev) \ {l} -> V] /\ DOMAIN val = Notified(ev) \ {l}
      BY <1>2
    <2> QED
      BY <1>2, <2>1, PartialFunctionDef
  <1>8. e \in EventType(S, V, W)
    <2>1. ev.notified - 1 \in Nat
      BY <1>4, <1>5
    <2>2. e = [ev EXCEPT !.value = val, !.notified = ev.notified - 1]
      BY <1>5 DEF Consume, Restrict
    <2>3. ev.order \in Seq(S) /\ ev.waker \in PartialFunctions(S, W)
      BY <1>1 DEF EventType
    <2> HIDE DEF e, val
    <2> QED
      BY <1>1, <1>7, <2>1, <2>2, <2>3, EventUpdate
  <1>9. Notified(e) = Notified(ev) \ {l} /\ Parked(e) = Parked(ev) /\ Listeners(e) = Listeners(ev)
    BY <1>6 DEF Notified, Parked, Listeners
  <1>10. Distinct(e)
    BY <1>6 DEF Distinct, EventInv
  <1>11. EventInv(e, S, V, W)
    <2>1. e.notified = Cardinality(Notified(e))
      <3> HIDE DEF e
      <3> QED
        BY <1>4, <1>5, <1>6, <1>9
    <2>2. /\ Notified(e) \subseteq Listeners(e)
          /\ Parked(e) \subseteq Listeners(e) \ Notified(e)
      BY <1>9 DEF EventInv
    <2> QED
      BY <1>8, <1>10, <2>1, <2>2 DEF EventInv
  <1> QED
    BY <1>6, <1>9, <1>11

\* Removing one element of a sequence shifts the later ones.
LEMMA RemoveAtProperties ==
    ASSUME NEW S, NEW o \in Seq(S), NEW i \in 1 .. Len(o)
    PROVE  /\ RemoveAt(o, i) \in Seq(S)
           /\ Len(RemoveAt(o, i)) = Len(o) - 1
           /\ \A j \in 1 .. Len(o) - 1 : RemoveAt(o, i)[j] = IF j < i THEN o[j] ELSE o[j + 1]
  <1> DEFINE p == SubSeq(o, 1, i - 1)
             q == SubSeq(o, i + 1, Len(o))
  <1>1. /\ p \in Seq(S) /\ Len(p) = i - 1
        /\ \A j \in 1 .. i - 1 : p[j] = o[j]
    BY SubSeqProperties, ElementOfSeq, LenProperties
  <1>2. /\ q \in Seq(S) /\ Len(q) = Len(o) - i
        /\ \A j \in 1 .. Len(o) - i : q[j] = o[i + j]
    <2>1. \A j \in i + 1 .. Len(o) : o[j] \in S
      BY ElementOfSeq
    <2>2. /\ q \in Seq(S)
          /\ Len(q) = IF i + 1 <= Len(o) THEN Len(o) - (i + 1) + 1 ELSE 0
          /\ \A j \in 1 .. Len(o) - (i + 1) + 1 : q[j] = o[i + 1 + j - 1]
      BY <2>1, SubSeqProperties, LenProperties
    <2> QED
      BY <2>2, LenProperties
  <1> HIDE DEF p, q
  <1>3. RemoveAt(o, i) = p \o q
    BY DEF RemoveAt, p, q
  <1>4. /\ p \o q \in Seq(S)
        /\ Len(p \o q) = Len(p) + Len(q)
        /\ \A j \in 1 .. Len(p) + Len(q) : (p \o q)[j] = IF j <= Len(p) THEN p[j] ELSE q[j - Len(p)]
    BY <1>1, <1>2, ConcatProperties
  <1>5. Len(o) \in Nat /\ Len(p) + Len(q) = Len(o) - 1
    BY <1>1, <1>2, LenProperties
  <1>6. ASSUME NEW j \in 1 .. Len(o) - 1
        PROVE  (p \o q)[j] = IF j < i THEN o[j] ELSE o[j + 1]
    <2>1. CASE j < i
      BY <1>1, <1>4, <1>5, <2>1
    <2>2. CASE ~(j < i)
      <3>1. j - (i - 1) \in 1 .. Len(o) - i
        BY <1>5, <2>2
      <3>2. (p \o q)[j] = q[j - (i - 1)]
        BY <1>1, <1>4, <1>5, <2>2
      <3>3. q[j - (i - 1)] = o[i + (j - (i - 1))]
        BY <1>2, <3>1
      <3>4. i + (j - (i - 1)) = j + 1
        BY <1>5
      <3> QED
        BY <2>2, <3>2, <3>3, <3>4
    <2> QED
      BY <2>1, <2>2
  <1> QED
    BY <1>3, <1>4, <1>5, <1>6

\* Of two listeners that stay, the earlier one stays the earlier one when a third
\* is unregistered; the listeners are the others, once each.
LEMMA UnregisterOrder ==
    ASSUME NEW S, NEW V, NEW W, NEW ev, EventInv(ev, S, V, W), NEW l \in Listeners(ev)
    PROVE  LET e == Unregister(ev, l) IN
           /\ e.order \in Seq(S)
           /\ Distinct(e)
           /\ Listeners(e) = Listeners(ev) \ {l}
           /\ \A a, b \in Listeners(e) : Before(e, a, b) <=> Before(ev, a, b)
  <1> DEFINE e == Unregister(ev, l)
             i == CHOOSE j \in DOMAIN ev.order : ev.order[j] = l
             n == Len(ev.order)
  <1>1. ev \in EventType(S, V, W) /\ ev.order \in Seq(S) /\ Distinct(ev)
    BY DEF EventInv, EventType
  <1>2. n \in Nat /\ DOMAIN ev.order = 1 .. n
    BY <1>1, LenProperties
  <1>3. i \in 1 .. n /\ ev.order[i] = l
    BY <1>2 DEF Listeners, Range
  <1>4. e.order = RemoveAt(ev.order, i)
    BY <1>1 DEF Unregister, EventType
  <1> HIDE DEF i
  <1>5. /\ e.order \in Seq(S) /\ Len(e.order) = n - 1
        /\ \A j \in 1 .. n - 1 : e.order[j] = IF j < i THEN ev.order[j] ELSE ev.order[j + 1]
    BY <1>1, <1>3, <1>4, RemoveAtProperties
  <1>6. DOMAIN e.order = 1 .. n - 1
    BY <1>5, LenProperties
  <1> HIDE DEF e, n
  <1>7. \A j, k \in 1 .. n : ev.order[j] = ev.order[k] => j = k
    BY <1>1, <1>2 DEF Distinct
  <1> DEFINE up(j) == IF j < i THEN j ELSE j + 1
             down(j) == IF j < i THEN j ELSE j - 1
  <1>8. \A j \in 1 .. n - 1 : up(j) \in 1 .. n /\ up(j) # i /\ e.order[j] = ev.order[up(j)]
    BY <1>2, <1>3, <1>5
  <1>9. \A j \in 1 .. n : j # i => down(j) \in 1 .. n - 1 /\ e.order[down(j)] = ev.order[j]
    BY <1>2, <1>3, <1>5
  <1>10. \A j, k \in 1 .. n - 1 : j < k <=> up(j) < up(k)
    BY <1>2, <1>3
  <1>11. \A j, k \in 1 .. n : j # i /\ k # i => (j < k <=> down(j) < down(k))
    BY <1>2, <1>3
  <1>12. \A j, k \in 1 .. n - 1 : up(j) = up(k) => j = k
    BY <1>2, <1>3
  <1> HIDE DEF up, down
  <1>13. Distinct(e)
    BY <1>6, <1>7, <1>8, <1>12 DEF Distinct
  <1>14. Listeners(e) = Listeners(ev) \ {l}
    <2>1. ASSUME NEW x \in Listeners(e) PROVE x \in Listeners(ev) \ {l}
      BY <1>2, <1>3, <1>6, <1>7, <1>8 DEF Listeners, Range
    <2>2. ASSUME NEW x \in Listeners(ev) \ {l} PROVE x \in Listeners(e)
      BY <1>2, <1>3, <1>6, <1>9 DEF Listeners, Range
    <2> QED
      BY <2>1, <2>2
  <1>15. ASSUME NEW a \in Listeners(e), NEW b \in Listeners(e)
         PROVE  Before(e, a, b) <=> Before(ev, a, b)
    <2>1. a # l /\ b # l
      BY <1>14
    <2>2. ASSUME Before(e, a, b) PROVE Before(ev, a, b)
      <3>1. PICK j, k \in 1 .. n - 1 : j < k /\ e.order[j] = a /\ e.order[k] = b
        BY <1>6, <2>2 DEF Before
      <3> QED
        BY <1>2, <1>8, <1>10, <3>1 DEF Before
    <2>3. ASSUME Before(ev, a, b) PROVE Before(e, a, b)
      <3>1. PICK j, k \in 1 .. n : j < k /\ ev.order[j] = a /\ ev.order[k] = b
        BY <1>2, <2>3 DEF Before
      <3>2. j # i /\ k # i
        BY <1>3, <2>1, <3>1
      <3> QED
        BY <1>6, <1>9, <1>11, <3>1, <3>2 DEF Before
    <2> QED
      BY <2>2, <2>3
  <1> QED
    BY <1>5, <1>13, <1>14, <1>15 DEF e

\* The entry of an unregistered listener goes, with its value and its waker; a
\* notification it held is given back to the counter by Released.
LEMMA UnregisterInv ==
    ASSUME NEW S, IsFiniteSet(S), NEW V, NEW W, NEW ev, EventInv(ev, S, V, W),
           NEW l \in Listeners(ev)
    PROVE  LET e == Unregister(ev, l)
               r == Released(ev, l)
           IN
           /\ Listeners(e) = Listeners(ev) \ {l} /\ Listeners(r) = Listeners(e)
           /\ Notified(e) = Notified(ev) \ {l} /\ Notified(r) = Notified(e)
           /\ Parked(e) = Parked(ev) \ {l} /\ Parked(r) = Parked(e)
           /\ \A m \in Parked(e) : e.waker[m] = ev.waker[m] /\ r.waker[m] = ev.waker[m]
           /\ e.closed = ev.closed /\ r.closed = ev.closed
           /\ HandsOver(ev, l) <=> l \in Notified(ev)
           /\ l \notin Notified(ev) => EventInv(e, S, V, W)
           /\ l \in Notified(ev) => EventInv(r, S, V, W)
  <1> DEFINE e == Unregister(ev, l)
             r == Released(ev, l)
             o == RemoveAt(ev.order, CHOOSE i \in DOMAIN ev.order : ev.order[i] = l)
             val == [m \in Notified(ev) \ {l} |-> ev.value[m]]
             wak == [m \in Parked(ev) \ {l} |-> ev.waker[m]]
  <1>1. ev \in EventType(S, V, W)
    BY DEF EventInv
  <1>2. /\ Notified(ev) \subseteq S /\ \A m \in Notified(ev) : ev.value[m] \in V
        /\ Parked(ev) \subseteq S /\ \A m \in Parked(ev) : ev.waker[m] \in W
    BY <1>1, EventSets
  <1>3. e = [ev EXCEPT !.order = o, !.value = val, !.waker = wak]
    BY DEF Unregister, Restrict
  <1>4. /\ e.order = o /\ e.value = val /\ e.waker = wak
        /\ e.notified = ev.notified /\ e.closed = ev.closed
    BY <1>1 DEF Unregister, EventType, Restrict
  <1>5. /\ e.order \in Seq(S) /\ Distinct(e) /\ Listeners(e) = Listeners(ev) \ {l}
    BY UnregisterOrder
  <1>6. val \in PartialFunctions(S, V) /\ wak \in PartialFunctions(S, W)
    <2>1. val \in [Notified(ev) \ {l} -> V] /\ DOMAIN val = Notified(ev) \ {l}
      BY <1>2
    <2>2. wak \in [Parked(ev) \ {l} -> W] /\ DOMAIN wak = Parked(ev) \ {l}
      BY <1>2
    <2> QED
      BY <1>2, <2>1, <2>2, PartialFunctionDef
  <1>7. e \in EventType(S, V, W)
    <2>1. o \in Seq(S) /\ ev.notified \in Nat
      BY <1>1, <1>4, <1>5 DEF EventType
    <2> HIDE DEF e, o, val, wak
    <2> QED
      BY <1>1, <1>3, <1>6, <2>1, EventUpdate
  <1>8. Notified(e) = Notified(ev) \ {l} /\ Parked(e) = Parked(ev) \ {l}
    BY <1>4 DEF Notified, Parked
  <1>9. IsFiniteSet(Notified(ev)) /\ Cardinality(Notified(ev)) \in Nat
    BY <1>2, FS_Subset, FS_CardinalityType
  <1>10. /\ Cardinality(Notified(ev) \ {l}) \in Nat
         /\ Cardinality(Notified(ev) \ {l}) =
                IF l \in Notified(ev) THEN ev.notified - 1 ELSE ev.notified
    BY <1>9, FS_RemoveElement, FS_CardinalityType DEF EventInv
  <1>11. HandsOver(ev, l) <=> l \in Notified(ev)
    BY <1>1, <1>10 DEF HandsOver, EventType
  <1>12. \A m \in Parked(e) : e.waker[m] = ev.waker[m]
    BY <1>4, <1>8
  <1>13. /\ Notified(e) \subseteq Listeners(e)
         /\ Parked(e) \subseteq Listeners(e) \ Notified(e)
    BY <1>5, <1>8 DEF EventInv
  <1> HIDE DEF e
  <1>14. l \notin Notified(ev) => EventInv(e, S, V, W)
    BY <1>4, <1>5, <1>7, <1>8, <1>10, <1>13 DEF EventInv
  <1>15. /\ r.order = e.order /\ r.value = e.value /\ r.waker = e.waker
         /\ r.notified = ev.notified - 1 /\ r.closed = e.closed
    BY <1>4, <1>7 DEF Released, EventType, e
  <1>16. /\ Listeners(r) = Listeners(e) /\ Notified(r) = Notified(e)
         /\ Parked(r) = Parked(e) /\ (Distinct(e) => Distinct(r))
    BY <1>15 DEF Listeners, Notified, Parked, Distinct
  <1>17. l \in Notified(ev) => EventInv(r, S, V, W)
    <2> SUFFICES ASSUME l \in Notified(ev) PROVE EventInv(r, S, V, W)
      OBVIOUS
    <2>1. ev.notified - 1 \in Nat /\ ev.notified - 1 = Cardinality(Notified(e))
      BY <1>8, <1>10
    <2>2. r = [e EXCEPT !.notified = e.notified - 1]
      BY DEF Released, e
    <2>3. e.notified - 1 \in Nat
      BY <1>4, <2>1
    <2>4. /\ e.order \in Seq(S) /\ e.value \in PartialFunctions(S, V)
          /\ e.waker \in PartialFunctions(S, W)
      BY <1>7 DEF EventType
    <2> HIDE DEF r
    <2>5. r \in EventType(S, V, W)
      BY <1>7, <2>2, <2>3, <2>4, EventUpdate
    <2> QED
      BY <1>5, <1>13, <1>15, <1>16, <2>1, <2>5 DEF EventInv
  <1> HIDE DEF r
  <1>18. \A m \in Parked(e) : r.waker[m] = ev.waker[m]
    BY <1>12, <1>15
  <1> QED
    BY <1>4, <1>5, <1>8, <1>11, <1>12, <1>14, <1>15, <1>16, <1>17, <1>18 DEF e, r

\* EventListener::poll stores the waker of a listener without notification.
LEMMA ParkInv ==
    ASSUME NEW S, NEW V, NEW W, NEW ev, EventInv(ev, S, V, W),
           NEW l \in Unnotified(ev), NEW t \in W
    PROVE  LET e == Park(ev, l, t) IN
           /\ EventInv(e, S, V, W)
           /\ Listeners(e) = Listeners(ev) /\ Notified(e) = Notified(ev)
           /\ Parked(e) = Parked(ev) \cup {l}
           /\ \A m \in Parked(e) : e.waker[m] = IF m = l THEN t ELSE ev.waker[m]
           /\ e.closed = ev.closed
  <1> DEFINE e == Park(ev, l, t)
             wak == [m \in Parked(ev) \cup {l} |-> IF m = l THEN t ELSE ev.waker[m]]
  <1>1. ev \in EventType(S, V, W)
    BY DEF EventInv
  <1>2. /\ Parked(ev) \subseteq S /\ \A m \in Parked(ev) : ev.waker[m] \in W
        /\ Listeners(ev) \subseteq S
    BY <1>1, EventSets
  <1>3. wak \in PartialFunctions(S, W)
    <2>1. wak \in [Parked(ev) \cup {l} -> W] /\ DOMAIN wak = Parked(ev) \cup {l}
      BY <1>2
    <2>2. l \in S
      BY <1>2 DEF Unnotified
    <2> QED
      BY <1>2, <2>1, <2>2, PartialFunctionDef
  <1>4. e = [ev EXCEPT !.waker = wak]
    BY DEF Park
  <1>5. /\ e.order = ev.order /\ e.value = ev.value /\ e.waker = wak
        /\ e.notified = ev.notified /\ e.closed = ev.closed
    BY <1>1 DEF Park, EventType
  <1>6. \A m \in Parked(ev) \cup {l} : e.waker[m] = IF m = l THEN t ELSE ev.waker[m]
    BY <1>5
  <1>7. /\ Listeners(e) = Listeners(ev) /\ Notified(e) = Notified(ev)
        /\ Parked(e) = Parked(ev) \cup {l} /\ (Distinct(ev) => Distinct(e))
    BY <1>5 DEF Listeners, Notified, Parked, Distinct
  <1>8. e \in EventType(S, V, W)
    <2>1. /\ ev.order \in Seq(S) /\ ev.value \in PartialFunctions(S, V) /\ ev.notified \in Nat
      BY <1>1 DEF EventType
    <2> HIDE DEF e, wak
    <2> QED
      BY <1>1, <1>3, <1>4, <2>1, EventUpdate
  <1> HIDE DEF e
  <1>9. EventInv(e, S, V, W)
    BY <1>5, <1>7, <1>8 DEF EventInv, Unnotified
  <1> QED
    BY <1>5, <1>6, <1>7, <1>9 DEF e

\* Dropping the event takes every waker and leaves the notifications.
LEMMA CloseInv ==
    ASSUME NEW S, NEW V, NEW W, NEW ev, EventInv(ev, S, V, W)
    PROVE  LET e == Close(ev) IN
           /\ EventInv(e, S, V, W)
           /\ Listeners(e) = Listeners(ev) /\ Notified(e) = Notified(ev)
           /\ Parked(e) = {} /\ e.closed
  <1> DEFINE e == Close(ev)
  <1>1. ev \in EventType(S, V, W)
    BY DEF EventInv
  <1>2. /\ e.order = ev.order /\ e.value = ev.value /\ e.waker = NoEntries
        /\ e.notified = ev.notified /\ e.closed = TRUE
    BY <1>1 DEF Close, EventType
  <1>3. /\ Listeners(e) = Listeners(ev) /\ Notified(e) = Notified(ev)
        /\ Parked(e) = {} /\ (Distinct(ev) => Distinct(e))
    BY <1>2 DEF Listeners, Notified, Parked, Distinct, NoEntries
  <1>4. e \in EventType(S, V, W)
    <2>1. /\ ev.order \in Seq(S) /\ ev.value \in PartialFunctions(S, V) /\ ev.notified \in Nat
      BY <1>1 DEF EventType
    <2>2. NoEntries \in PartialFunctions(S, W)
      BY PartialFunctionDef DEF NoEntries
    <2>3. e = [ev EXCEPT !.closed = TRUE, !.waker = NoEntries]
      BY DEF Close
    <2> HIDE DEF e
    <2> QED
      BY <1>1, <2>1, <2>2, <2>3, EventUpdate
  <1> HIDE DEF e
  <1>5. EventInv(e, S, V, W)
    BY <1>2, <1>3, <1>4 DEF EventInv
  <1> QED
    BY <1>2, <1>3, <1>5 DEF e

(***************************************************************************)
(* The walk in registration order.  Before is a strict total order of the  *)
(* registered listeners, so a walk finds someone while anyone is left.     *)
(***************************************************************************)
LEMMA BeforeOrder ==
    ASSUME NEW S, NEW V, NEW W, NEW ev, EventInv(ev, S, V, W)
    PROVE  /\ \A a \in Listeners(ev) : ~ Before(ev, a, a)
           /\ \A a, b, c \in Listeners(ev) :
                 Before(ev, a, b) /\ Before(ev, b, c) => Before(ev, a, c)
           /\ \A a, b \in Listeners(ev) : a = b \/ Before(ev, a, b) \/ Before(ev, b, a)
  <1>1. Distinct(ev) /\ ev.order \in Seq(S) /\ Len(ev.order) \in Nat
        /\ DOMAIN ev.order = 1 .. Len(ev.order)
    BY LenProperties DEF EventInv, EventType
  <1>2. \A i, j \in 1 .. Len(ev.order) : ev.order[i] = ev.order[j] => i = j
    BY <1>1 DEF Distinct
  <1>3. \A a \in Listeners(ev) : \E i \in 1 .. Len(ev.order) : ev.order[i] = a
    BY <1>1 DEF Listeners, Range
  <1>4. \A a, b : Before(ev, a, b) <=>
            \E i, j \in 1 .. Len(ev.order) : i < j /\ ev.order[i] = a /\ ev.order[j] = b
    BY <1>1 DEF Before
  <1>5. \A a \in Listeners(ev) : ~ Before(ev, a, a)
    BY <1>1, <1>2, <1>4
  <1>6. ASSUME NEW a, NEW b, NEW c, Before(ev, a, b), Before(ev, b, c)
        PROVE  Before(ev, a, c)
    <2>1. PICK i, j \in 1 .. Len(ev.order) : i < j /\ ev.order[i] = a /\ ev.order[j] = b
      BY <1>4, <1>6
    <2>2. PICK k, m \in 1 .. Len(ev.order) : k < m /\ ev.order[k] = b /\ ev.order[m] = c
      BY <1>4, <1>6
    <2>3. j = k
      BY <1>2, <2>1, <2>2
    <2> QED
      BY <1>1, <1>4, <2>1, <2>2, <2>3
  <1>7. ASSUME NEW a \in Listeners(ev), NEW b \in Listeners(ev), a # b
        PROVE  Before(ev, a, b) \/ Before(ev, b, a)
    <2>1. PICK i \in 1 .. Len(ev.order) : ev.order[i] = a
      BY <1>3
    <2>2. PICK j \in 1 .. Len(ev.order) : ev.order[j] = b
      BY <1>3
    <2>3. i < j \/ j < i
      BY <1>1, <1>7, <2>1, <2>2
    <2> QED
      BY <1>4, <2>1, <2>2, <2>3
  <1> QED
    BY <1>5, <1>6, <1>7

\* Among any registered listeners one is the earliest.
LEMMA Earliest ==
    ASSUME NEW S, IsFiniteSet(S), NEW V, NEW W, NEW ev, EventInv(ev, S, V, W),
           NEW X, X \subseteq Listeners(ev), X # {}
    PROVE  \E f \in X : \A m \in X : ~ Before(ev, m, f)
  <1> DEFINE Ahead(l) == {m \in X : Before(ev, m, l)}
             Aheads == {Ahead(l) : l \in X}
  <1>1. IsFiniteSet(X)
    BY EventSets, FS_Subset DEF EventInv
  <1>2. IsWellFoundedOn(StrictSubsetOrdering(X), SUBSET X)
    BY <1>1, FS_StrictSubsetOrderingWellFounded, FS_FiniteSubsetsOfFinite
  <1>3. PICK F \in Aheads : \A G \in Aheads : ~ (<<G, F>> \in StrictSubsetOrdering(X))
    <2>1. Aheads \subseteq SUBSET X /\ Aheads # {}
      OBVIOUS
    <2> HIDE DEF Aheads
    <2> QED
      BY <1>2, <2>1, WFMin
  <1>4. PICK f \in X : F = Ahead(f)
    BY <1>3
  <1>5. ASSUME NEW m \in X, Before(ev, m, f) PROVE FALSE
    <2>1. \A x \in Ahead(m) : x \in Ahead(f)
      BY <1>5, BeforeOrder
    <2>2. m \in Ahead(f) /\ m \notin Ahead(m)
      BY <1>5, BeforeOrder
    <2>3. <<Ahead(m), Ahead(f)>> \in StrictSubsetOrdering(X)
      BY <2>1, <2>2 DEF StrictSubsetOrdering
    <2> QED
      BY <1>3, <1>4, <2>3
  <1> QED
    BY <1>5

\* The unnotified listeners in front of l, which a walk passes before l.
Ahead(ev, l) == {m \in Unnotified(ev) : Before(ev, m, l)}

LEMMA AheadFinite ==
    ASSUME NEW S, IsFiniteSet(S), NEW V, NEW W, NEW ev, EventInv(ev, S, V, W)
    PROVE  /\ IsFiniteSet(Unnotified(ev)) /\ Unnotified(ev) \subseteq Listeners(ev)
           /\ \A l : IsFiniteSet(Ahead(ev, l)) /\ Cardinality(Ahead(ev, l)) \in Nat
  <1>1. Unnotified(ev) \subseteq Listeners(ev) /\ Listeners(ev) \subseteq S
    BY EventSets DEF Unnotified, EventInv
  <1>2. IsFiniteSet(Unnotified(ev))
    BY <1>1, FS_Subset
  <1> QED
    BY <1>1, <1>2, FS_Subset, FS_CardinalityType DEF Ahead

\* A walk passes nobody it could have notified.
LEMMA FirstUnnotifiedClosed ==
    ASSUME NEW S, IsFiniteSet(S), NEW V, NEW W, NEW ev, EventInv(ev, S, V, W),
           NEW k \in Int, NEW l \in FirstUnnotified(ev, k),
           NEW m \in Unnotified(ev), Before(ev, m, l)
    PROVE  m \in FirstUnnotified(ev, k)
  <1>1. l \in Unnotified(ev) /\ Cardinality(Ahead(ev, l)) < k
    BY DEF FirstUnnotified, Ahead
  <1>2. /\ IsFiniteSet(Ahead(ev, l)) /\ Unnotified(ev) \subseteq Listeners(ev)
        /\ Cardinality(Ahead(ev, l)) \in Nat /\ Cardinality(Ahead(ev, m)) \in Nat
    BY AheadFinite
  <1>3. Ahead(ev, m) \subseteq Ahead(ev, l)
    <2> SUFFICES ASSUME NEW x \in Ahead(ev, m) PROVE x \in Ahead(ev, l)
      OBVIOUS
    <2>1. x \in Unnotified(ev) /\ Before(ev, x, m)
      BY DEF Ahead
    <2>2. Before(ev, x, l)
      BY <1>1, <1>2, <2>1, BeforeOrder
    <2> QED
      BY <2>1, <2>2 DEF Ahead
  <1>4. Cardinality(Ahead(ev, m)) <= Cardinality(Ahead(ev, l))
    BY <1>2, <1>3, FS_Subset
  <1>5. Cardinality(Ahead(ev, m)) < k
    BY <1>1, <1>2, <1>4
  <1> QED
    BY <1>5 DEF FirstUnnotified, Ahead

\* A walk for k listeners finds k of them, or all that are left.
LEMMA FirstUnnotifiedEnough ==
    ASSUME NEW S, IsFiniteSet(S), NEW V, NEW W, NEW ev, EventInv(ev, S, V, W), NEW k \in Int
    PROVE  /\ FirstUnnotified(ev, k) \subseteq Unnotified(ev)
           /\ \/ FirstUnnotified(ev, k) = Unnotified(ev)
              \/ Cardinality(FirstUnnotified(ev, k)) >= k
  <1> DEFINE F == FirstUnnotified(ev, k)
             X == Unnotified(ev) \ F
  <1>1. F \subseteq Unnotified(ev)
    BY DEF FirstUnnotified
  <1>2. CASE X = {}
    BY <1>1, <1>2
  <1>3. CASE X # {}
    <2>1. X \subseteq Listeners(ev)
      BY DEF Unnotified
    <2>2. PICK f \in X : \A m \in X : ~ Before(ev, m, f)
      <3> HIDE DEF X
      <3> QED
        BY <1>3, <2>1, Earliest
    <2>3. Ahead(ev, f) \subseteq F
      BY <2>2 DEF Ahead
    <2>4. ~ (Cardinality(Ahead(ev, f)) < k)
      BY <2>2 DEF FirstUnnotified, Ahead
    <2>5. IsFiniteSet(F)
      BY <1>1, AheadFinite, FS_Subset
    <2>6. /\ Cardinality(F) \in Nat /\ Cardinality(Ahead(ev, f)) \in Nat
          /\ Cardinality(Ahead(ev, f)) <= Cardinality(F)
      BY <2>3, <2>5, FS_Subset, FS_CardinalityType, AheadFinite
    <2> QED
      BY <1>1, <2>4, <2>6
  <1> QED
    BY <1>2, <1>3

\* While a listener is unnotified, the walk for one listener finds exactly one.
LEMMA FirstUnnotifiedOne ==
    ASSUME NEW S, IsFiniteSet(S), NEW V, NEW W, NEW ev, EventInv(ev, S, V, W),
           Unnotified(ev) # {}
    PROVE  \E f \in Unnotified(ev) : FirstUnnotified(ev, 1) = {f}
  <1>1. \A l \in Unnotified(ev) : l \in FirstUnnotified(ev, 1) <=> Ahead(ev, l) = {}
    <2> SUFFICES ASSUME NEW l \in Unnotified(ev)
                 PROVE  l \in FirstUnnotified(ev, 1) <=> Ahead(ev, l) = {}
      OBVIOUS
    <2>1. l \in FirstUnnotified(ev, 1) <=> Cardinality(Ahead(ev, l)) < 1
      BY DEF FirstUnnotified, Ahead
    <2>2. Cardinality(Ahead(ev, l)) \in Nat /\ (Cardinality(Ahead(ev, l)) = 0 <=> Ahead(ev, l) = {})
      BY AheadFinite, FS_EmptySet
    <2> QED
      BY <2>1, <2>2
  <1>2. PICK f \in Unnotified(ev) : \A m \in Unnotified(ev) : ~ Before(ev, m, f)
    BY Earliest DEF Unnotified
  <1>3. Ahead(ev, f) = {}
    BY <1>2 DEF Ahead
  <1>4. \A l \in Unnotified(ev) : Ahead(ev, l) = {} => l = f
    BY <1>2, BeforeOrder, AheadFinite DEF Ahead
  <1>5. FirstUnnotified(ev, 1) \subseteq Unnotified(ev)
    BY DEF FirstUnnotified
  <1>6. FirstUnnotified(ev, 1) = {f}
    BY <1>1, <1>3, <1>4, <1>5
  <1> QED
    BY <1>6

\* EventListener::drop: the entry goes, and the first unnotified listener takes
\* over the notification it held.
Successors(ev, l) ==
    IF l \in Notified(ev) THEN FirstUnnotified(Released(ev, l), 1) ELSE {}

LEMMA DropListenerInv ==
    ASSUME NEW S, IsFiniteSet(S), NEW V, NEW W, NEW ev, EventInv(ev, S, V, W),
           NEW l \in Listeners(ev)
    PROVE  LET e == DropListener(ev, l)
               T == Successors(ev, l)
           IN
           /\ EventInv(e, S, V, W)
           /\ Listeners(e) = Listeners(ev) \ {l}
           /\ T \subseteq Unnotified(ev) \ {l}
           /\ Notified(e) = (Notified(ev) \ {l}) \cup T
           /\ Parked(e) = (Parked(ev) \ {l}) \ T
           /\ \A m \in Parked(e) : e.waker[m] = ev.waker[m]
           /\ WokenByDrop(ev, l) = {ev.waker[m] : m \in T \cap Parked(ev)}
           /\ e.closed = ev.closed
           /\ \A f, m \in Listeners(e) : Before(e, f, m) <=> Before(ev, f, m)
           /\ \A f \in T, m \in Unnotified(ev) \ {l} : Before(ev, m, f) => m \in T
           /\ l \in Notified(ev) /\ Unnotified(ev) # {} => \E f \in Unnotified(ev) : T = {f}
  <1> DEFINE r == Released(ev, l)
             T == Successors(ev, l)
  <1>1. CASE l \notin Notified(ev)
    <2>1. DropListener(ev, l) = Unregister(ev, l) /\ WokenByDrop(ev, l) = {} /\ T = {}
      BY <1>1, UnregisterInv DEF DropListener, WokenByDrop, Successors
    <2> QED
      BY <1>1, <2>1, UnregisterInv, UnregisterOrder
  <1>2. CASE l \in Notified(ev)
    <2> DEFINE v == ev.value[l]
    <2>1. /\ DropListener(ev, l) = Mark(r, T, v)
          /\ WokenByDrop(ev, l) = WakersOf(r, T)
      BY <1>2, UnregisterInv DEF DropListener, WokenByDrop, Successors
    <2>2. /\ EventInv(r, S, V, W) /\ r.closed = ev.closed
          /\ Listeners(r) = Listeners(ev) \ {l}
          /\ Notified(r) = Notified(ev) \ {l} /\ Parked(r) = Parked(ev) \ {l}
          /\ \A m \in Parked(r) : r.waker[m] = ev.waker[m]
      BY <1>2, UnregisterInv
    <2>3. T \subseteq Unnotified(r)
      BY <1>2 DEF Successors, FirstUnnotified
    <2>4. T \subseteq Unnotified(ev) \ {l} /\ Unnotified(r) = Unnotified(ev)
      BY <1>2, <2>2, <2>3 DEF Unnotified
    <2>5. v \in V
      BY <1>2, EventSets DEF EventInv
    <2>6. /\ r.order = Unregister(ev, l).order
          /\ Listeners(r) = Listeners(Unregister(ev, l))
      BY UnregisterInv, <2>2 DEF Released, EventType, EventInv
    <2>7. \A f, m \in Listeners(r) : Before(r, f, m) <=> Before(ev, f, m)
      BY <2>6, UnregisterOrder DEF Before
    <2>8. \A f \in T, m \in Unnotified(ev) \ {l} : Before(ev, m, f) => m \in T
      <3> SUFFICES ASSUME NEW f \in T, NEW m \in Unnotified(ev) \ {l}, Before(ev, m, f)
                   PROVE  m \in T
        OBVIOUS
      <3>1. T = FirstUnnotified(r, 1)
        BY <1>2 DEF Successors
      <3>2. m \in Unnotified(r) /\ Before(r, m, f)
        BY <2>2, <2>3, <2>4, <2>7 DEF Unnotified
      <3> QED
        BY <2>2, <3>1, <3>2, FirstUnnotifiedClosed
    <2>9. Unnotified(ev) # {} => \E f \in Unnotified(ev) : T = {f}
      BY <1>2, <2>2, <2>4, FirstUnnotifiedOne DEF Successors
    <2> HIDE DEF r, T, v
    <2> DEFINE e == Mark(r, T, v)
    <2>10. EventInv(e, S, V, W) /\ Marked(e, r, T)
      BY <2>2, <2>3, <2>5, MarkInv
    <2> HIDE DEF e
    <2>11. /\ EventInv(e, S, V, W)
           /\ Listeners(e) = Listeners(r)
           /\ Notified(e) = Notified(r) \cup T
           /\ Parked(e) = Parked(r) \ T
           /\ \A m \in Parked(r) \ T : e.waker[m] = r.waker[m]
           /\ e.order = r.order
           /\ e.closed = r.closed
      BY <2>10 DEF Marked
    <2>12. WakersOf(r, T) = {ev.waker[m] : m \in T \cap Parked(ev)}
      <3>1. T \cap Parked(r) = T \cap Parked(ev)
        BY <2>2, <2>4
      <3> QED
        BY <2>2, <3>1 DEF WakersOf
    <2>13. \A f, m \in Listeners(r) : Before(e, f, m) <=> Before(ev, f, m)
      <3>1. e.order = r.order
        BY <2>11
      <3>2. \A f, m : Before(e, f, m) <=> Before(r, f, m)
        BY ONLY <3>1 DEF Before
      <3> QED
        BY <2>7, <3>2
    <2>14. \A m \in Parked(e) : e.waker[m] = ev.waker[m]
      BY <2>2, <2>11
    <2>15. /\ Listeners(e) = Listeners(ev) \ {l}
           /\ Notified(e) = (Notified(ev) \ {l}) \cup T
           /\ Parked(e) = (Parked(ev) \ {l}) \ T
           /\ e.closed = ev.closed
      BY <2>2, <2>11
    <2>16. \A f, m \in Listeners(e) : Before(e, f, m) <=> Before(ev, f, m)
      BY <2>11, <2>13
    <2>17. /\ EventInv(e, S, V, W)
           /\ Listeners(e) = Listeners(ev) \ {l}
           /\ T \subseteq Unnotified(ev) \ {l}
           /\ Notified(e) = (Notified(ev) \ {l}) \cup T
           /\ Parked(e) = (Parked(ev) \ {l}) \ T
           /\ \A m \in Parked(e) : e.waker[m] = ev.waker[m]
           /\ WokenByDrop(ev, l) = {ev.waker[m] : m \in T \cap Parked(ev)}
           /\ e.closed = ev.closed
           /\ \A f, m \in Listeners(e) : Before(e, f, m) <=> Before(ev, f, m)
           /\ \A f \in T, m \in Unnotified(ev) \ {l} : Before(ev, m, f) => m \in T
           /\ l \in Notified(ev) /\ Unnotified(ev) # {} => \E f \in Unnotified(ev) : T = {f}
      <3>1. EventInv(e, S, V, W)
        BY <2>11
      <3>2. WokenByDrop(ev, l) = {ev.waker[m] : m \in T \cap Parked(ev)}
        BY <2>1, <2>12
      <3> QED
        BY ONLY <2>4, <2>8, <2>9, <2>14, <2>15, <2>16, <3>1, <3>2, Zenon
    <2>18. e = DropListener(ev, l)
      BY <2>1 DEF e
    <2> QED
      BY ONLY <2>17, <2>18, Zenon DEF T
  <1> QED
    BY <1>1, <1>2

\* A queue: the listeners in S of event e wait under their own names for
\* notifications u; event e and the woken tasks w agree.
Queue(e, w, S, u) ==
    /\ EventInv(e, S, {u}, S)
    /\ Parked(e) = Listeners(e) \ Notified(e)
    /\ \A c \in Parked(e) : e.waker[c] = c
    /\ w = Notified(e)

\* Notifying one listener wakes whom it notifies, and afterwards someone is
\* notified if anyone is registered.
LEMMA NotifyOneQueue ==
    ASSUME NEW S, IsFiniteSet(S), NEW u, NEW e, NEW w, Queue(e, w, S, u)
    PROVE  /\ Queue(NotifyOne(e, u), w \cup WokenByOne(e), S, u)
           /\ Listeners(NotifyOne(e, u)) = Listeners(e)
           /\ Listeners(e) # {} => Notified(NotifyOne(e, u)) # {}
  <1> DEFINE T == NotifyTargets(e, 1)
             d == NotifyOne(e, u)
  <1>1. EventInv(e, S, {u}, S) /\ T \subseteq Unnotified(e)
    BY DEF Queue, NotifyTargets, FirstUnnotified
  <1>2. d = Mark(e, T, u) /\ WokenByOne(e) = WakersOf(e, T)
    BY DEF NotifyOne, WokenByOne
  <1> HIDE DEF T, d
  <1>3. EventInv(d, S, {u}, S) /\ Marked(d, e, T)
    BY <1>1, <1>2, MarkInv
  <1>4. /\ Listeners(d) = Listeners(e) /\ Notified(d) = Notified(e) \cup T
        /\ Parked(d) = Parked(e) \ T
        /\ \A c \in Parked(d) : d.waker[c] = e.waker[c]
    BY <1>3 DEF Marked
  <1>5. WakersOf(e, T) = T
    BY <1>1 DEF Queue, WakersOf, Unnotified
  <1>6. Queue(d, w \cup WokenByOne(e), S, u)
    BY <1>2, <1>3, <1>4, <1>5 DEF Queue
  <1>7. ASSUME Listeners(e) # {}, Notified(e) = {} PROVE T # {}
    <2>1. e.notified = 0
      BY <1>1, <1>7, FS_EmptySet DEF EventInv
    <2>2. T = FirstUnnotified(e, 1)
      BY <2>1 DEF T, NotifyTargets
    <2>3. Unnotified(e) # {}
      BY <1>7 DEF Unnotified
    <2> QED
      BY <1>1, <2>2, <2>3, FirstUnnotifiedOne
  <1> QED
    BY <1>4, <1>6, <1>7 DEF d

\* A dropped listener hands its notification over: while some listener stays,
\* someone stays notified.
LEMMA DropQueue ==
    ASSUME NEW S, IsFiniteSet(S), NEW u, NEW e, NEW w, Queue(e, w, S, u), NEW c \in Listeners(e)
    PROVE  LET d == DropListener(e, c) IN
           /\ Queue(d, (w \ {c}) \cup WokenByDrop(e, c), S, u)
           /\ Listeners(d) = Listeners(e) \ {c}
           /\ Notified(e) # {} /\ Listeners(d) # {} => Notified(d) # {}
  <1> DEFINE T == Successors(e, c)
             d == DropListener(e, c)
  <1>1. EventInv(e, S, {u}, S)
    BY DEF Queue
  <1>2. /\ EventInv(d, S, {u}, S)
        /\ Listeners(d) = Listeners(e) \ {c}
        /\ T \subseteq Unnotified(e) \ {c}
        /\ Notified(d) = (Notified(e) \ {c}) \cup T
        /\ Parked(d) = (Parked(e) \ {c}) \ T
        /\ \A m \in Parked(d) : d.waker[m] = e.waker[m]
        /\ WokenByDrop(e, c) = {e.waker[m] : m \in T \cap Parked(e)}
        /\ c \in Notified(e) /\ Unnotified(e) # {} => \E f \in Unnotified(e) : T = {f}
    BY <1>1, DropListenerInv
  <1> HIDE DEF T, d
  <1>3. WokenByDrop(e, c) = T
    BY <1>2 DEF Queue, Unnotified
  <1>4. Parked(d) = Listeners(d) \ Notified(d)
    BY <1>2 DEF Queue
  <1>5. Queue(d, (w \ {c}) \cup WokenByDrop(e, c), S, u)
    BY <1>2, <1>3, <1>4 DEF Queue
  <1>6. ASSUME Notified(e) # {}, Listeners(d) # {} PROVE Notified(d) # {}
    <2>1. CASE c \notin Notified(e)
      BY <1>2, <1>6, <2>1
    <2>2. CASE Unnotified(e) = {}
      BY <1>2, <1>6, <2>2 DEF Unnotified
    <2>3. CASE c \in Notified(e) /\ Unnotified(e) # {}
      BY <1>2, <2>3
    <2> QED
      BY <2>1, <2>2, <2>3
  <1> QED
    BY <1>2, <1>5, <1>6 DEF d

\* A notified future consumes its notification and drops its listener.
LEMMA ConsumeQueue ==
    ASSUME NEW S, IsFiniteSet(S), NEW u, NEW e, NEW w, Queue(e, w, S, u), NEW c \in Notified(e)
    PROVE  LET d == DropListener(Consume(e, c), c) IN
           Queue(d, w \ {c}, S, u) /\ Listeners(d) = Listeners(e) \ {c}
  <1> DEFINE r == Consume(e, c)
             d == DropListener(r, c)
  <1>1. EventInv(e, S, {u}, S)
    BY DEF Queue
  <1>2. /\ EventInv(r, S, {u}, S) /\ Listeners(r) = Listeners(e)
        /\ Notified(r) = Notified(e) \ {c} /\ Parked(r) = Parked(e) /\ r.waker = e.waker
    BY <1>1, ConsumeInv
  <1>3. c \in Listeners(r) /\ c \notin Notified(r) /\ c \notin Parked(e)
    BY <1>1, <1>2 DEF EventInv
  <1> HIDE DEF r
  <1>4. /\ EventInv(d, S, {u}, S)
        /\ Listeners(d) = Listeners(r) \ {c}
        /\ Notified(d) = (Notified(r) \ {c}) \cup Successors(r, c)
        /\ Parked(d) = (Parked(r) \ {c}) \ Successors(r, c)
        /\ \A m \in Parked(d) : d.waker[m] = r.waker[m]
    BY <1>2, <1>3, DropListenerInv
  <1>5. Successors(r, c) = {}
    BY <1>3 DEF Successors
  <1> HIDE DEF d
  <1>6. /\ Listeners(d) = Listeners(e) \ {c} /\ Notified(d) = Notified(e) \ {c}
        /\ Parked(d) = Listeners(d) \ Notified(d)
        /\ \A m \in Parked(d) : d.waker[m] = m
    BY <1>2, <1>3, <1>4, <1>5 DEF Queue
  <1>7. Queue(d, w \ {c}, S, u)
    BY <1>4, <1>6 DEF Queue
  <1> QED
    BY <1>6, <1>7 DEF d, r

\* A future that is polled again stores its waker again.
LEMMA ParkQueue ==
    ASSUME NEW S, IsFiniteSet(S), NEW u, NEW e, NEW w, Queue(e, w, S, u), NEW c \in Unnotified(e)
    PROVE  Queue(Park(e, c, c), w \ {c}, S, u) /\ Listeners(Park(e, c, c)) = Listeners(e)
           /\ Notified(Park(e, c, c)) = Notified(e)
  <1> DEFINE d == Park(e, c, c)
  <1>1. EventInv(e, S, {u}, S) /\ c \in S
    BY EventSets DEF Queue, Unnotified, EventInv
  <1>2. /\ EventInv(d, S, {u}, S)
        /\ Listeners(d) = Listeners(e) /\ Notified(d) = Notified(e)
        /\ Parked(d) = Parked(e) \cup {c}
        /\ \A m \in Parked(d) : d.waker[m] = IF m = c THEN c ELSE e.waker[m]
    BY <1>1, ParkInv
  <1> HIDE DEF d
  <1>3. Queue(d, w \ {c}, S, u)
    BY <1>2 DEF Queue, Unnotified
  <1> QED
    BY <1>2, <1>3 DEF d

\* A future that finds the mutex locked registers at the end and parks.
LEMMA EnqueueQueue ==
    ASSUME NEW S, IsFiniteSet(S), NEW u, NEW e, NEW w, Queue(e, w, S, u), NEW c \in S, c \notin Listeners(e)
    PROVE  LET d == Park(Listen(e, c), c, c) IN
           Queue(d, w \ {c}, S, u) /\ Listeners(d) = Listeners(e) \cup {c}
  <1> DEFINE r == Listen(e, c)
             d == Park(r, c, c)
  <1>1. EventInv(e, S, {u}, S)
    BY DEF Queue
  <1>2. /\ EventInv(r, S, {u}, S)
        /\ Listeners(r) = Listeners(e) \cup {c}
        /\ Notified(r) = Notified(e) /\ Parked(r) = Parked(e) /\ r.waker = e.waker
    BY <1>1, ListenInv
  <1>3. c \in Unnotified(r)
    BY <1>1, <1>2 DEF Unnotified, EventInv
  <1> HIDE DEF r
  <1>4. /\ EventInv(d, S, {u}, S)
        /\ Listeners(d) = Listeners(r) /\ Notified(d) = Notified(r)
        /\ Parked(d) = Parked(r) \cup {c}
        /\ \A m \in Parked(d) : d.waker[m] = IF m = c THEN c ELSE r.waker[m]
    BY <1>2, <1>3, ParkInv
  <1> HIDE DEF d
  <1>5. Parked(d) = Listeners(d) \ Notified(d) /\ \A m \in Parked(d) : d.waker[m] = m
    BY <1>2, <1>3, <1>4 DEF Queue, Unnotified
  <1>6. Queue(d, w \ {c}, S, u)
    BY <1>2, <1>3, <1>4, <1>5 DEF Queue, Unnotified
  <1> QED
    BY <1>2, <1>4, <1>6 DEF d, r
=============================================================================
