------------------------------ MODULE WaitGroup -----------------------------
(***************************************************************************)
(* The wait group of src/waitgroup.rs: a counter of tickets and an event   *)
(* that every dropped ticket notifies once.  wait() borrows the group, so  *)
(* there is one waiter and no ticket is added while it waits.  It is a     *)
(* loop over an EventStream, which does what an EmitterStream does: the    *)
(* waiter is one of the subscribers of Emitter, and a poll of it runs the  *)
(* loop until it returns or sleeps.                                        *)
(***************************************************************************)
EXTENDS Emitter

CONSTANTS Waiter,       \* the subscriber that is the stream of wait()
          MaxTickets    \* bound: tickets at a time

ASSUME WaiterAssumption == Waiter \in Stream
ASSUME MaxTicketsAssumption == MaxTickets \in Nat

VARIABLE tickets        \* WaitGroup::tickets

\* WaitGroup::add.
Add ==
    /\ stream[Waiter] = "none"
    /\ tickets < MaxTickets
    /\ tickets' = tickets + 1
    /\ UNCHANGED vars

\* Ticket::drop; its notifications are numbered as the emitter's values are.
DropTicket ==
    /\ tickets > 0 /\ emitted < MaxEmits
    /\ tickets' = tickets - 1
    /\ emitted' = emitted + 1
    /\ ev' = NotifyOne(ev, emitted + 1)
    /\ asleep' = asleep \ WokenByOne(ev)
    /\ UNCHANGED <<stream, since, got, handed>>

\* The first poll of wait(); with no ticket it returns at once.
WaitFirst ==
    /\ stream[Waiter] = "none" /\ tickets > 0
    /\ Wait(Waiter, Listen(ev, Waiter))
    /\ UNCHANGED <<emitted, since, got, handed, tickets>>

\* A later poll: an item, then the test of the counter.
WaitNotified ==
    LET e == DropListener(Consume(ev, Waiter), Waiter) IN
    /\ Waiter \in Notified(ev)
    /\ IF tickets = 0
       THEN ev' = e /\ stream' = [stream EXCEPT ![Waiter] = "none"] /\ UNCHANGED asleep
       ELSE Wait(Waiter, Listen(e, Waiter))
    /\ UNCHANGED <<emitted, since, got, handed, tickets>>

PollWaiter == WaitNotified \/ (PollWait(Waiter) /\ UNCHANGED tickets)

\* The future of wait() is dropped.
DropWait == DropStream(Waiter) /\ UNCHANGED tickets
=============================================================================
