------------------------------- MODULE Event -------------------------------
(***************************************************************************)
(* One `Event` of src/event.rs with its owner, its listeners and the tasks *)
(* that poll them.  Everything runs on one thread (Rc<RefCell<..>>), so a  *)
(* call is one step.  Waking a waker is recorded in `woken`: the listeners *)
(* whose last poller was woken since it found them pending.                *)
(***************************************************************************)
EXTENDS EventOps

CONSTANTS Listener,     \* the listener handles the program may hold
          Task,         \* the tasks that poll them
          Value,        \* the values a notification can carry
          UsizeMax,     \* usize::MAX, the count that means "all"
          NoTask        \* no task has polled the listener

ASSUME UsizeMaxAssumption == UsizeMax \in Nat \ {0}
ASSUME NoTaskAssumption == NoTask \notin Task
ASSUME ListenerAssumption == IsFiniteSet(Listener)

VARIABLES ev,           \* the event, a record of EventOps
          woken,        \* the listeners whose last poller was woken since
          poller        \* per listener, the task that last found it pending

vars == <<ev, woken, poller>>

Init ==
    /\ ev = NewEvent
    /\ woken = {}
    /\ poller = [l \in Listener |-> NoTask]

\* Waking the tasks in T wakes every listener they wait on.
Wake(T) == woken' = woken \cup {l \in Listener : poller[l] \in T}

\* Event::listen, by the owner of the event.
ListenFor(l) ==
    /\ ~ev.closed
    /\ l \notin Listeners(ev)
    /\ ev' = Listen(ev, l)
    /\ poller' = [poller EXCEPT ![l] = NoTask]
    /\ UNCHANGED woken

\* Event::notify with a plain or a valued notification: notify_inner.
Notify(n, v) ==
    LET targets == IF n = UsizeMax THEN Unnotified(ev) ELSE NotifyTargets(ev, n) IN
    /\ ~ev.closed
    /\ ev' = Mark(ev, targets, v)
    /\ Wake(WakersOf(ev, targets))
    /\ UNCHANGED poller

\* Event::notify with an additional notification.
NotifyAdditional(n, v) ==
    LET targets == AdditionalTargets(ev, n) IN
    /\ ~ev.closed
    /\ ev' = Mark(ev, targets, v)
    /\ Wake(WakersOf(ev, targets))
    /\ UNCHANGED poller

\* Event::drop.
DropEvent ==
    /\ ~ev.closed
    /\ ev' = Close(ev)
    /\ Wake(WakersOf(ev, Listeners(ev)))
    /\ UNCHANGED poller

\* EventListener::drop.
DropHandle(l) ==
    /\ l \in Listeners(ev)
    /\ ev' = DropListener(ev, l)
    /\ woken' = (woken \cup {m \in Listener : poller[m] \in WokenByDrop(ev, l)}) \ {l}
    /\ poller' = [poller EXCEPT ![l] = NoTask]

\* EventListener::poll, when the listener holds a value.
PollReady(l) ==
    /\ l \in Notified(ev)
    /\ ev' = Consume(ev, l)
    /\ woken' = woken \ {l}
    /\ poller' = [poller EXCEPT ![l] = NoTask]

\* EventListener::poll by task t, when it holds none.
PollPending(l, t) ==
    /\ l \in Unnotified(ev)
    /\ ev' = Park(ev, l, t)
    /\ woken' = woken \ {l}
    /\ poller' = [poller EXCEPT ![l] = t]

Next ==
    \/ \E l \in Listener : ListenFor(l) \/ DropHandle(l) \/ PollReady(l)
    \/ \E n \in 0 .. UsizeMax, v \in Value : Notify(n, v) \/ NotifyAdditional(n, v)
    \/ DropEvent
    \/ \E l \in Listener, t \in Task : PollPending(l, t)

Spec == Init /\ [][Next]_vars
-----------------------------------------------------------------------------
(***************************************************************************)
(* The event's record and the history variables keep their shape: only     *)
(* registered listeners are notified or parked, once each in the order.    *)
(***************************************************************************)
TypeOK ==
    /\ ev \in EventType(Listener, Value, Task)
    /\ Distinct(ev)
    /\ Notified(ev) \cup Parked(ev) \subseteq Listeners(ev)
    /\ woken \subseteq Listeners(ev)
    /\ poller \in [Listener -> Task \cup {NoTask}]

\* `Inner::notified` counts exactly the listeners that hold a value, whatever
\* order notifications are sent, consumed and handed over in.  If it drifted
\* upwards, notify(n) would believe that n listeners were notified already and
\* wake nobody: the regression that hung the primitives.
CountMatches == ev.notified = Cardinality(Notified(ev))

\* A task that found its listener pending is woken no later than the listener
\* is notified: by its own stored waker, also after the handle moved to another
\* task or the notification came from a dropped listener.
NoLostWake == \A l \in Notified(ev) : poller[l] # NoTask => l \in woken

\* A pending listener whose poller has not been woken still has the waker of
\* that poller stored, so that the next notification reaches the right task.
WakerIsCurrent ==
    \A l \in Listener : poller[l] # NoTask /\ l \notin woken =>
        l \in Parked(ev) /\ ev.waker[l] = poller[l]

\* After notify(n) at least n listeners are notified, or all of them: the
\* notifications that were pending, consumed or handed over before never make
\* a later notify(n) come up short.
NotifyReaches ==
    [][\A n \in 0 .. UsizeMax, v \in Value :
        Notify(n, v) => \/ Cardinality(Notified(ev)') >= n
                        \/ Notified(ev)' = Listeners(ev)']_vars

\* No listener overtakes an earlier one: whoever becomes notified, by a notify
\* or by a hand-over, leaves no unnotified listener in front of it.
InRegistrationOrder ==
    [][\A l \in Notified(ev)' \ Notified(ev), m \in Unnotified(ev)' :
        ~ Before(ev', m, l)]_vars

\* Dropping a notified listener loses no notification while another listener
\* still waits for one.
HandoverKeepsNotification ==
    [][\A l \in Listener :
        DropHandle(l) /\ l \in Notified(ev) /\ Unnotified(ev) # {}
            => Cardinality(Notified(ev)') = Cardinality(Notified(ev))]_vars

\* Dropping the event wakes every task that still waits on one of its
\* listeners.
DropWakesEveryWaiter ==
    [][DropEvent => \A l \in Listener : poller[l] # NoTask => l \in woken']_vars
=============================================================================
