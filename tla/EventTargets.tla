----------------------------- MODULE EventTargets ---------------------------
(***************************************************************************)
(* The users of the event streams: an emitter, an observable cell of       *)
(* either kind (the implementers of EventTarget), or a wait group.  Which  *)
(* one it is does not change; the code of the streams is the same for all. *)
(***************************************************************************)
EXTENDS Cells, WaitGroup

VARIABLE kind           \* what the subscribers subscribe to

targetVars == <<vars, cellVars, tickets, kind>>

TargetInit ==
    /\ Init
    /\ CellInit
    /\ tickets = 0
    /\ kind \in {"emitter", "cell", "ref_cell", "wait_group"}

Observers ==
    \/ \E s \in Stream : SubscribeCell(s) \/ PollCell(s) \/ DropObserver(s)
    \/ DropHandle

EmitterNext == Announce /\ changes' = changes + 1
                        /\ UNCHANGED <<strong, value, guard, refs, known>>

CellNext == UpgradeHandle \/ \E v \in Value : Set(v)

RefCellNext == UpgradeHandle \/ Borrow \/ DropRef \/ BorrowMut \/ DerefMut \/ DropGuard

WaitGroupNext ==
    /\ Add \/ DropTicket \/ WaitFirst \/ PollWaiter \/ DropWait
    /\ UNCHANGED cellVars

TargetNext ==
    /\ \/ kind = "wait_group" /\ WaitGroupNext
       \/ kind # "wait_group" /\ Observers /\ UNCHANGED tickets
       \/ kind = "emitter" /\ EmitterNext /\ UNCHANGED tickets
       \/ kind = "cell" /\ CellNext /\ UNCHANGED tickets
       \/ kind = "ref_cell" /\ RefCellNext /\ UNCHANGED tickets
    /\ UNCHANGED kind

\* A subscriber is polled until it is pending, and again when it is woken; so is
\* the task that awaits wait().
TargetFairness ==
    /\ \A s \in Stream :
          WF_targetVars(kind # "wait_group" /\ s \notin asleep /\ PollCell(s)
                        /\ UNCHANGED <<tickets, kind>>)
    /\ WF_targetVars(kind = "wait_group" /\ Waiter \notin asleep /\ PollWaiter
                     /\ UNCHANGED <<cellVars, kind>>)

TargetSpec == TargetInit /\ [][TargetNext]_targetVars /\ TargetFairness
-----------------------------------------------------------------------------
\* Whoever sleeps will still be woken by somebody: a subscriber is parked on an
\* event that exists, and wait() has a ticket left to wait for, although several
\* drops may be told as one and a ticket may go before the notification of its
\* predecessor is read.
SleepersHaveAWaker ==
    /\ SleepersCanBeWoken
    /\ kind = "wait_group" /\ Waiter \in Listening \ Notified(ev) => tickets > 0

\* wait() returns once the last ticket is gone, however the drops of the tickets
\* and the polls of the waiter interleave, unless its future is dropped.
WaitReturns ==
    kind = "wait_group" /\ tickets = 0 /\ stream[Waiter] = "listening"
        ~> stream[Waiter] = "none"
=============================================================================
