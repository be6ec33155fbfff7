----------------------------- MODULE PollMutex ------------------------------
(***************************************************************************)
(* The poll mutex and the locked sink of src/poll_lock.rs: the mutex of    *)
(* AsyncMutex with one more user, the poller.  Its lock future is kept     *)
(* between its polls (state Unlocking), registered and possibly notified,  *)
(* for as long as nobody polls; state Locked is the absence of a future.   *)
(*                                                                         *)
(* The other clients run the futures of lock().  A guard that poll_lock    *)
(* returns belongs to its caller, here one of the idle clients.  The sink  *)
(* takes the lock and gives it back within one poll.                       *)
(***************************************************************************)
EXTENDS AsyncMutex

CONSTANTS Poller,       \* the task that polls the sink; one of the clients
          MaxItems      \* bound: items sent

ASSUME PollerAssumption == Poller \in Client
ASSUME MaxItemsAssumption == MaxItems \in Nat

VARIABLES alive,        \* the AsyncPollMutex exists
          slot,         \* LockedSink::slot, or 0
          sent,         \* the items given to start_send, numbered in their order
          inner,        \* the items the inner sink accepted
          failed        \* the items whose start_send the inner sink answered with an error

sinkVars == <<alive, slot, sent, inner, failed>>
pollVars == <<vars, sinkVars>>

PollInit ==
    /\ Init
    /\ alive = TRUE
    /\ slot = 0
    /\ sent = 0
    /\ inner = <<>>
    /\ failed = {}

\* The futures of lock(), and the guards of any origin.
LockUser(c) ==
    /\ PollFirst(c) \/ PollNotified(c) \/ PollPending(c) \/ DropFuture(c)
    /\ c # Poller
    /\ UNCHANGED sinkVars

DropGuard(c) == Unlock(c) /\ UNCHANGED sinkVars

\* The future runs its loop: it is new, or it is notified.
Runs == alive /\ (state[Poller] = "idle" \/ Poller \in Notified(ev))

\* The event once the future has given up the listener it had.
Unregistered ==
    IF state[Poller] = "idle" THEN ev ELSE DropListener(Consume(ev, Poller), Poller)

\* poll_lock is pending: the future is kept.
PollLockPending ==
    /\ alive
    /\ PollPending(Poller) \/ (Runs /\ Enqueue(Poller, Unregistered))
    /\ UNCHANGED sinkVars

\* poll_lock is ready: the future goes and its guard is the caller's.
PollLockReady(c) ==
    /\ Runs /\ ~locked
    /\ c # Poller /\ state[c] = "idle"
    /\ locked' = TRUE
    /\ ev' = NotifyOne(Unregistered, Unit)
    /\ woken' = (woken \ {Poller}) \cup WokenByOne(Unregistered)
    /\ state' = [state EXCEPT ![Poller] = "idle", ![c] = "holding"]
    /\ UNCHANGED sinkVars

\* LockedSink::start_send; a sink is asked by poll_ready first, which is ready
\* when the slot is empty.
StartSend ==
    /\ alive /\ slot = 0 /\ sent < MaxItems
    /\ sent' = sent + 1
    /\ slot' = sent + 1
    /\ UNCHANGED <<vars, alive, inner, failed>>

\* Broken on purpose: the slot keeps the item it has given away.
FlushSlotCopies ==
    /\ slot # 0
    /\ \/ inner' = Append(inner, slot) /\ UNCHANGED <<slot, failed>>
       \/ slot' = 0 /\ failed' = failed \cup {slot} /\ UNCHANGED inner
       \/ UNCHANGED <<slot, inner, failed>>

\* poll_flush_slot: the inner sink accepts the item, refuses it with an error, or
\* is not ready for it.
FlushSlot ==
    \/ slot # 0 /\ slot' = 0 /\ inner' = Append(inner, slot) /\ UNCHANGED failed
    \/ slot # 0 /\ slot' = 0 /\ failed' = failed \cup {slot} /\ UNCHANGED inner
    \/ UNCHANGED <<slot, inner, failed>>

\* poll_ready, poll_flush or poll_close of the sink: lock(), the slot, unlock().
PollSink ==
    LET e == NotifyOne(Unregistered, Unit) IN
    /\ Runs /\ ~locked
    /\ ev' = NotifyOne(e, Unit)
    /\ woken' = (woken \ {Poller}) \cup WokenByOne(Unregistered) \cup WokenByOne(e)
    /\ state' = [state EXCEPT ![Poller] = "idle"]
    /\ FlushSlot
    /\ UNCHANGED <<locked, alive, sent>>

\* The AsyncPollMutex is dropped, and with it the future it keeps and the slot.
\* The mutex lives on in the futures and the guards.
DropPollMutex ==
    /\ alive
    /\ alive' = FALSE
    /\ DropFuture(Poller) \/ (state[Poller] = "idle" /\ UNCHANGED vars)
    /\ UNCHANGED <<slot, sent, inner, failed>>

PollNext ==
    \/ \E c \in Client : LockUser(c) \/ DropGuard(c) \/ PollLockReady(c)
    \/ PollLockPending \/ StartSend \/ PollSink \/ DropPollMutex

\* A woken lock() future is polled.  Nobody has to poll the sink, even when its
\* task is woken: a poll_ready with an empty slot does not touch the lock.
PollFairness == \A c \in Client : WF_pollVars(c \in woken /\ LockUser(c))

PollSpec == PollInit /\ [][PollNext]_pollVars /\ PollFairness
-----------------------------------------------------------------------------
\* Items reach the inner sink in the order they were sent and once each; an item
\* that did not reach it is in the slot or was answered with an error, however
\* often the lock was taken by others between start_send and the flush.
ItemsForwardedInOrder ==
    /\ \A i, j \in DOMAIN inner : i < j => inner[i] < inner[j]
    /\ Range(inner) \cap failed = {}
    /\ slot \notin Range(inner) \cup failed
    /\ 1 .. sent = Range(inner) \cup failed \cup ({slot} \ {0})

\* A free mutex with waiters is taken, or its waiters give up, provided that the
\* poller does not keep a notified future for ever.
FreeLockIsTakenIfDriven ==
    []<>(Poller \notin Notified(ev)) => FreeLockIsTaken
=============================================================================
