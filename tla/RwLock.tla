------------------------------- MODULE RwLock -------------------------------
(***************************************************************************)
(* The asynchronous reader-writer lock of src/lock/rwlock.rs: a counter of *)
(* readers, a flag for the writer and one event on which both kinds of     *)
(* futures wait.  A client runs read() or write() futures (or their Rc     *)
(* twins, whose code is the same) one after the other.                     *)
(*                                                                         *)
(* Everything runs on one thread, so a poll runs its loop to the end in    *)
(* one step.  A poll of a future that waits and is not notified changes    *)
(* nothing.  The event lives as long as any future or guard.               *)
(***************************************************************************)
EXTENDS EventOps

CONSTANTS Client,       \* the tasks that use the lock
          Unit          \* the value of the notifications of an Event<()>

ASSUME ClientAssumption == IsFiniteSet(Client)

VARIABLES ev,           \* RwLockInner::event
          readers,      \* RwLockInner::readers
          locked,       \* RwLockInner::locked
          state,        \* each client's future or guard
          woken         \* the clients woken since their last poll

vars == <<ev, readers, locked, state, woken>>

In(s) == {c \in Client : state[c] = s}
Waiting == In("wait_read") \cup In("wait_write")

Init ==
    /\ ev = NewEvent
    /\ readers = 0
    /\ locked = FALSE
    /\ state = [c \in Client |-> "idle"]
    /\ woken = {}

\* Broken on purpose: a writer does not look at the readers.
can_write_over_readers == ~locked

can_read == ~locked
can_write == ~locked /\ readers = 0

\* Every change of the counter or of the flag notifies one listener.
NotifyFrom(c, e) ==
    /\ ev' = NotifyOne(e, Unit)
    /\ woken' = (woken \ {c}) \cup WokenByOne(e)

\* A future in state Idle with event e gets its guard.
AcquireRead(c, e) ==
    /\ can_read
    /\ readers' = readers + 1
    /\ NotifyFrom(c, e)
    /\ state' = [state EXCEPT ![c] = "reading"]
    /\ UNCHANGED locked

AcquireWrite(c, e) ==
    /\ can_write
    /\ locked' = TRUE
    /\ NotifyFrom(c, e)
    /\ state' = [state EXCEPT ![c] = "writing"]
    /\ UNCHANGED readers

\* Broken on purpose: the new listener is not polled.
EnqueueUnparked(c, e, s) ==
    /\ ev' = Listen(e, c)
    /\ woken' = woken \ {c}
    /\ state' = [state EXCEPT ![c] = s]
    /\ UNCHANGED <<readers, locked>>

\* A future in state Idle goes to the end of the list and parks there.
Enqueue(c, e, s) ==
    /\ ev' = Park(Listen(e, c), c, c)
    /\ woken' = woken \ {c}
    /\ state' = [state EXCEPT ![c] = s]
    /\ UNCHANGED <<readers, locked>>

TryRead(c, e) == AcquireRead(c, e) \/ (~can_read /\ Enqueue(c, e, "wait_read"))
TryWrite(c, e) == AcquireWrite(c, e) \/ (~can_write /\ Enqueue(c, e, "wait_write"))

\* The first poll of a new future.
PollRead(c) == state[c] = "idle" /\ TryRead(c, ev)
PollWrite(c) == state[c] = "idle" /\ TryWrite(c, ev)

\* The poll of a notified future: it consumes the notification, drops its
\* listener and tries again.
PollNotified(c) ==
    LET e == DropListener(Consume(ev, c), c) IN
    /\ c \in Notified(ev)
    /\ \/ state[c] = "wait_read" /\ TryRead(c, e)
       \/ state[c] = "wait_write" /\ TryWrite(c, e)

\* A waiting future is dropped.
DropFuture(c) ==
    /\ c \in Waiting
    /\ ev' = DropListener(ev, c)
    /\ woken' = (woken \ {c}) \cup WokenByDrop(ev, c)
    /\ state' = [state EXCEPT ![c] = "idle"]
    /\ UNCHANGED <<readers, locked>>

\* Broken on purpose: the last reader leaves without notifying.
DropReadGuardQuietly(c) ==
    /\ state[c] = "reading"
    /\ readers' = readers - 1
    /\ state' = [state EXCEPT ![c] = "idle"]
    /\ UNCHANGED <<ev, locked, woken>>

\* Broken on purpose: a writer leaves without notifying.
DropWriteGuardQuietly(c) ==
    /\ state[c] = "writing"
    /\ locked' = FALSE
    /\ state' = [state EXCEPT ![c] = "idle"]
    /\ UNCHANGED <<ev, readers, woken>>

\* The guards' drops: decrement_readers() and unlock().
DropReadGuard(c) ==
    /\ state[c] = "reading"
    /\ readers' = readers - 1
    /\ NotifyFrom(c, ev)
    /\ state' = [state EXCEPT ![c] = "idle"]
    /\ UNCHANGED locked

DropWriteGuard(c) ==
    /\ state[c] = "writing"
    /\ locked' = FALSE
    /\ NotifyFrom(c, ev)
    /\ state' = [state EXCEPT ![c] = "idle"]
    /\ UNCHANGED readers

Next ==
    \E c \in Client :
        \/ PollRead(c) \/ PollWrite(c) \/ PollNotified(c)
        \/ DropFuture(c) \/ DropReadGuard(c) \/ DropWriteGuard(c)

\* A woken task is polled.  No one has to lock, unlock or give up waiting.
Fairness == \A c \in Client : WF_vars(c \in woken /\ PollNotified(c))

Spec == Init /\ [][Next]_vars /\ Fairness
-----------------------------------------------------------------------------
\* The waiting futures, and only they, are registered, once each; each of them
\* is either notified and woken or parked.
TypeOK ==
    /\ ev \in EventType(Client, {Unit}, Client)
    /\ Distinct(ev)
    /\ readers \in Nat
    /\ locked \in BOOLEAN
    /\ state \in [Client -> {"idle", "wait_read", "wait_write", "reading", "writing"}]
    /\ Listeners(ev) = Waiting
    /\ Parked(ev) = Waiting \ Notified(ev)
    /\ woken = Notified(ev)

\* A writer excludes readers and other writers, and the counter and the flag say
\* which guards exist, so that decrement_readers never finds zero.
SharedXorExclusive ==
    /\ readers = Cardinality(In("reading"))
    /\ locked <=> In("writing") # {}
    /\ \A c \in In("writing"), d \in In("reading") \cup In("writing") : c = d

\* A lock that nobody holds has a waiter that is notified, whatever mix of
\* readers and writers waits and whoever was notified in vain before.
NoLostWakeup == can_write /\ Waiting # {} => Waiting \cap Notified(ev) # {}

\* A lock that nobody holds is taken, or its waiters give up.
FreeLockIsTaken == can_write /\ Waiting # {} ~> ~can_write \/ Waiting = {}

Guards ==
    [c \in Client |-> CASE state[c] = "reading" -> "read"
                       [] state[c] = "writing" -> "write"
                       [] OTHER -> "none"]

L == INSTANCE Lock WITH holds <- Guards

\* Whatever the futures do, the lock is a reader-writer lock: a step gives one
\* guard that agrees with those that exist, takes one back, or changes no guard.
ImplementsLock == L!Spec
=============================================================================
