------------------------------- MODULE Promise -------------------------------
(***************************************************************************)
(* What a one-value channel promises, without events, wakers and the state *)
(* word.  A value is sent at most once, and then waits until it is         *)
(* received, once.  A send is refused exactly if the reader has refused    *)
(* before; an awaited reader learns of a sender that went without a value, *)
(* and waits only as long as there is neither.                             *)
(***************************************************************************)
CONSTANT Channel

VARIABLES ended,        \* the channels whose sender is gone
          fate,         \* of each channel's value: "none", "sent" or "received"
          refusing,     \* the channels whose reader takes nothing any more
          reader,       \* the channels whose reader is there
          waiting,      \* those whose reader was last told to wait
          returned      \* what the last call or poll returned

promiseVars == <<ended, fate, refusing, reader, waiting, returned>>

Nothing == <<>>

\* The sender went without a value, and nobody had refused one.
Broken(c) == c \in ended \ refusing /\ fate[c] = "none"

Init ==
    /\ ended = {} /\ refusing = {} /\ waiting = {}
    /\ fate = [c \in Channel |-> "none"]
    /\ reader = Channel
    /\ returned = Nothing

Send(c) ==
    /\ c \notin ended
    /\ ended' = ended \cup {c}
    /\ IF c \in refusing
       THEN returned' = <<"refused", c>> /\ UNCHANGED fate
       ELSE returned' = <<"sent", c>> /\ fate' = [fate EXCEPT ![c] = "sent"]
    /\ UNCHANGED <<refusing, reader, waiting>>

Renounce(c) ==
    /\ c \notin ended
    /\ ended' = ended \cup {c}
    /\ returned' = Nothing
    /\ UNCHANGED <<fate, refusing, reader, waiting>>

\* A reader refuses nothing that was sent, and stays told of a broken promise.
Refuse(c) ==
    /\ refusing' = IF fate[c] = "sent" \/ Broken(c) THEN refusing ELSE refusing \cup {c}
    /\ returned' = Nothing
    /\ UNCHANGED <<ended, fate>>

Close(c) == c \in reader /\ Refuse(c) /\ UNCHANGED <<reader, waiting>>

Leave(c) ==
    /\ c \in reader
    /\ Refuse(c)
    /\ reader' = reader \ {c}
    /\ waiting' = waiting \ {c}

Receive(c) ==
    /\ fate[c] = "sent"
    /\ fate' = [fate EXCEPT ![c] = "received"]
    /\ returned' = <<"value", c>>

Try(c) ==
    /\ c \in reader
    /\ \/ Receive(c)
       \/ (Broken(c) \/ c \in refusing) /\ returned' = <<"error", c>> /\ UNCHANGED fate
       \/ /\ fate[c] # "sent" /\ ~Broken(c) /\ c \notin refusing
          /\ returned' = <<"nothing", c>> /\ UNCHANGED fate
    /\ UNCHANGED <<ended, refusing, reader, waiting>>

Await(c) ==
    /\ c \in reader
    /\ \/ Receive(c) /\ waiting' = waiting \ {c}
       \/ /\ Broken(c)
          /\ returned' = <<"error", c>> /\ waiting' = waiting \ {c} /\ UNCHANGED fate
       \/ /\ fate[c] # "sent" /\ ~Broken(c)
          /\ returned' = <<"pending", c>> /\ waiting' = waiting \cup {c} /\ UNCHANGED fate
    /\ UNCHANGED <<ended, refusing, reader>>

Next ==
    \E c \in Channel :
        Send(c) \/ Renounce(c) \/ Close(c) \/ Leave(c) \/ Try(c) \/ Await(c)

Spec == Init /\ [][Next]_promiseVars
==============================================================================
