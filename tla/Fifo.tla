-------------------------------- MODULE Fifo --------------------------------
(***************************************************************************)
(* What a bounded channel promises, without events, wakers and counters.   *)
(* Items come out in the order in which they went in.  A value is taken    *)
(* exactly if the reader is there and there is room; a send fails only     *)
(* when the reader is gone, and waits only when the queue is full.  The    *)
(* reader sees the end exactly when nothing is queued and no handle is     *)
(* left, and waits only when nothing is queued and one is.  A send outlives*)
(* the handle it came from, so an item may follow the end.                 *)
(***************************************************************************)
EXTENDS Naturals, Sequences

CONSTANT Producer

VARIABLES capacity,
          queue,
          handles,      \* the producers that have a handle
          sending,      \* those that have a send under way
          blocked,      \* those whose send waits for room
          reader,       \* "idle", "waiting" or "dropped"
          returned      \* what the last call or poll returned

fifoVars == <<capacity, queue, handles, sending, blocked, reader, returned>>

Nothing == <<>>
Alive == reader # "dropped"
Room == Len(queue) < capacity

Init ==
    /\ capacity \in Nat /\ queue = <<>>
    /\ \E p \in Producer : handles = {p}
    /\ sending = {} /\ blocked = {}
    /\ reader = "idle" /\ returned = Nothing

Enqueue(p) ==
    /\ Alive /\ Room
    /\ queue' = Append(queue, p)
    /\ returned' = <<"sent", p>>

\* The send of p is over.
Settle(p) ==
    /\ sending' = sending \ {p}
    /\ blocked' = blocked \ {p}

TrySend(p) ==
    /\ p \in handles
    /\ \/ Enqueue(p)
       \/ ~(Alive /\ Room) /\ returned' = <<"refused", p>> /\ UNCHANGED queue
    /\ UNCHANGED <<capacity, handles, sending, blocked, reader>>

Begin(p) ==
    /\ p \in handles \ sending
    /\ sending' = sending \cup {p}
    /\ returned' = Nothing
    /\ UNCHANGED <<capacity, queue, handles, blocked, reader>>

Complete(p) ==
    /\ p \in sending
    /\ Enqueue(p) /\ Settle(p)
    /\ UNCHANGED <<capacity, handles, reader>>

Fail(p) ==
    /\ p \in sending /\ ~Alive
    /\ returned' = <<"failed", p>>
    /\ Settle(p)
    /\ UNCHANGED <<capacity, queue, handles, reader>>

Block(p) ==
    /\ p \in sending /\ Alive /\ ~Room
    /\ blocked' = blocked \cup {p}
    /\ returned' = Nothing
    /\ UNCHANGED <<capacity, queue, handles, sending, reader>>

Abandon(p) ==
    /\ p \in sending
    /\ Settle(p)
    /\ returned' = Nothing
    /\ UNCHANGED <<capacity, queue, handles, reader>>

\* A handle is made from another, or goes.
Handle(p) ==
    /\ handles # {}
    /\ \/ handles' = handles \cup {p}
       \/ handles' = handles \ {p}
    /\ returned' = Nothing
    /\ UNCHANGED <<capacity, queue, sending, blocked, reader>>

Receive ==
    /\ Alive /\ queue # <<>>
    /\ queue' = Tail(queue)
    /\ returned' = <<"item", Head(queue)>>
    /\ reader' = "idle"
    /\ UNCHANGED <<capacity, handles, sending, blocked>>

End ==
    /\ Alive /\ queue = <<>> /\ handles = {}
    /\ returned' = <<"end">>
    /\ reader' = "idle"
    /\ UNCHANGED <<capacity, queue, handles, sending, blocked>>

Wait ==
    /\ Alive /\ queue = <<>> /\ handles # {}
    /\ returned' = Nothing
    /\ reader' = "waiting"
    /\ UNCHANGED <<capacity, queue, handles, sending, blocked>>

Leave ==
    /\ Alive
    /\ reader' = "dropped" /\ queue' = <<>>
    /\ returned' = Nothing
    /\ UNCHANGED <<capacity, handles, sending, blocked>>

Next ==
    \/ \E p \in Producer :
        \/ TrySend(p) \/ Begin(p) \/ Complete(p) \/ Fail(p)
        \/ Block(p) \/ Abandon(p) \/ Handle(p)
    \/ Receive \/ End \/ Wait \/ Leave

Spec == Init /\ [][Next]_fifoVars
=============================================================================
