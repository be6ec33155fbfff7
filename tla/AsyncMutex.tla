----------------------------- MODULE AsyncMutex -----------------------------
(***************************************************************************)
(* The asynchronous mutex of src/lock/mutex.rs on top of one event.  Each  *)
(* client runs LockFutures (or RcLockFutures, whose code is the same) one  *)
(* after the other: idle, waiting in the event's list, holding the guard.  *)
(* Everything runs on one thread, so a poll runs its loop to the end in    *)
(* one step; between two steps any other client may run.                   *)
(*                                                                         *)
(* The event lives as long as any future or guard, so it is never closed.  *)
(***************************************************************************)
EXTENDS EventOps

CONSTANTS Client,       \* the tasks that lock the mutex
          Unit          \* the value of the notifications of an Event<()>

ASSUME ClientAssumption == IsFiniteSet(Client)

VARIABLES ev,           \* AsyncMutexInner::event
          locked,       \* AsyncMutexInner::locked
          state,        \* each client's LockFuture or guard
          woken         \* the clients woken since their last poll

vars == <<ev, locked, state, woken>>

Waiting == {c \in Client : state[c] = "waiting"}
Holding == {c \in Client : state[c] = "holding"}

Init ==
    /\ ev = NewEvent
    /\ locked = FALSE
    /\ state = [c \in Client |-> "idle"]
    /\ woken = {}

\* Broken on purpose: a notified future takes the lock without testing it.
AcquireUntested(c, e) ==
    /\ locked' = TRUE
    /\ ev' = NotifyOne(e, Unit)
    /\ woken' = (woken \ {c}) \cup WokenByOne(e)
    /\ state' = [state EXCEPT ![c] = "holding"]

\* LockFuture::poll in state Idle on a free lock: lock() marks it locked and
\* notifies one listener; the guard is returned.
Acquire(c, e) ==
    /\ ~locked
    /\ locked' = TRUE
    /\ ev' = NotifyOne(e, Unit)
    /\ woken' = (woken \ {c}) \cup WokenByOne(e)
    /\ state' = [state EXCEPT ![c] = "holding"]

\* Broken on purpose: the new listener is not polled.
EnqueueUnparked(c, e) ==
    /\ locked
    /\ ev' = Listen(e, c)
    /\ woken' = woken \ {c}
    /\ state' = [state EXCEPT ![c] = "waiting"]
    /\ UNCHANGED locked

\* LockFuture::poll in state Idle on a locked lock: the future goes to the end of
\* the list and parks there.
Enqueue(c, e) ==
    /\ locked
    /\ ev' = Park(Listen(e, c), c, c)
    /\ woken' = woken \ {c}
    /\ state' = [state EXCEPT ![c] = "waiting"]
    /\ UNCHANGED locked

\* The first poll of a new future.
PollFirst(c) ==
    /\ state[c] = "idle"
    /\ Acquire(c, ev) \/ Enqueue(c, ev)

\* The poll of a notified future: it consumes the notification, drops its
\* listener and tries again.
PollNotified(c) ==
    LET e == DropListener(Consume(ev, c), c) IN
    /\ c \in Waiting \cap Notified(ev)
    /\ Acquire(c, e) \/ Enqueue(c, e)

\* The poll of a future that waits for its notification.
PollPending(c) ==
    /\ c \in Waiting \ Notified(ev)
    /\ ev' = Park(ev, c, c)
    /\ woken' = woken \ {c}
    /\ UNCHANGED <<locked, state>>

\* A waiting future is dropped.
DropFuture(c) ==
    /\ c \in Waiting
    /\ ev' = DropListener(ev, c)
    /\ woken' = (woken \ {c}) \cup WokenByDrop(ev, c)
    /\ state' = [state EXCEPT ![c] = "idle"]
    /\ UNCHANGED locked

\* Broken on purpose: unlock() notifies nobody.
UnlockQuietly(c) ==
    /\ c \in Holding
    /\ locked' = FALSE
    /\ state' = [state EXCEPT ![c] = "idle"]
    /\ UNCHANGED <<ev, woken>>

\* The guard is dropped: unlock() notifies one listener.
Unlock(c) ==
    /\ c \in Holding
    /\ locked' = FALSE
    /\ ev' = NotifyOne(ev, Unit)
    /\ woken' = woken \cup WokenByOne(ev)
    /\ state' = [state EXCEPT ![c] = "idle"]

Next ==
    \E c \in Client :
        \/ PollFirst(c) \/ PollNotified(c) \/ PollPending(c)
        \/ DropFuture(c) \/ Unlock(c)

\* A woken task is polled.  No one has to lock, unlock or give up waiting.
Fairness == \A c \in Client : WF_vars(c \in woken /\ PollNotified(c))

Spec == Init /\ [][Next]_vars /\ Fairness
-----------------------------------------------------------------------------
\* The waiting futures, and only they, are registered, once each; each of them
\* is notified or parked.
TypeOK ==
    /\ ev \in EventType(Client, {Unit}, Client)
    /\ Distinct(ev)
    /\ locked \in BOOLEAN
    /\ state \in [Client -> {"idle", "waiting", "holding"}]
    /\ woken \subseteq Client
    /\ Listeners(ev) = Waiting
    /\ Parked(ev) = Waiting \ Notified(ev)
    /\ Notified(ev) \subseteq Waiting

\* At most one guard exists, and the flag is set exactly while one does,
\* although the flag is tested and set by futures that were woken for different
\* reasons.
MutualExclusion ==
    /\ \A c, d \in Holding : c = d
    /\ locked <=> Holding # {}

\* A free mutex with waiters has one that is notified and whose task is woken:
\* no order of locking, unlocking, barging and giving up leaves the waiters
\* asleep.
NoLostWakeup ==
    ~locked /\ Waiting # {} => \E c \in Waiting : c \in Notified(ev) /\ c \in woken

\* A task is woken exactly when its future is notified: no notification is left
\* with a task that sleeps, and no task is woken without one.
WokenIffNotified == woken = Notified(ev)

\* A free mutex with waiters is taken, or its waiters give up.
FreeLockIsTaken == ~locked /\ Waiting # {} ~> locked \/ Waiting = {}

Guards == [c \in Client |-> IF state[c] = "holding" THEN "write" ELSE "none"]

L == INSTANCE Lock WITH holds <- Guards

\* Whatever the futures do, the mutex is a lock: a step gives one guard, when no
\* client has one, takes one back, or changes no guard.
ImplementsLock == L!Spec
=============================================================================
