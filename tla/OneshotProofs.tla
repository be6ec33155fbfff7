---------------------------- MODULE OneshotProofs ----------------------------
(***************************************************************************)
(* The oneshot channels keep what was sent and wake who awaits it, for any *)
(* number of channels and tasks.                                           *)
(*                                                                         *)
(* A channel's history is in its sender: while it is held nothing was sent *)
(* and the event was never notified, so that a pending receiver is parked  *)
(* with the waker of its last poller.  That is the part of the invariant   *)
(* that AwaiterIsWoken needs: whatever ends the sender finds the receiver  *)
(* parked and wakes it, and no later step makes a channel full.  How the   *)
(* sender ended tells what the state word may be afterwards: with that,    *)
(* every answer of a call is one that the promise would give.              *)
(***************************************************************************)
EXTENDS Oneshot, EventOpsProofs

States == {"Empty", "SenderClosed", "ReceiverClosed", "Full"}

\* The types; the sets and functions are over the channels.
Typed ==
    /\ state \in [Channel -> States]
    /\ value = {c \in Channel : state[c] = "Full"}
    /\ sender \in [Channel -> {"held", "sent", "refused", "dropped"}]
    /\ poller \in [Channel -> Task \cup {NoTask}]
    /\ DOMAIN event = Channel
    /\ receiver \subseteq Channel
    /\ woken \cup {c \in Channel : poller[c] # NoTask} \subseteq receiver

\* The event of channel c.
EventOk(c) ==
    /\ EventInv(event[c], {c}, {Unit}, Task)
    /\ event[c].closed = (sender[c] # "held")
    /\ Listeners(event[c]) = receiver \cap {c}

\* While the sender is held the channel is as good as new.
HeldOk(c) ==
    sender[c] = "held" =>
        /\ state[c] \in {"Empty", "ReceiverClosed"}
        /\ c \notin received
        /\ Notified(event[c]) = {}
        /\ poller[c] # NoTask => c \in Parked(event[c]) /\ event[c].waker[c] = poller[c]

\* Afterwards it tells how the sender ended.
EndedOk(c) ==
    /\ sender[c] = "sent" =>
        state[c] # "SenderClosed" /\ (state[c] = "Full" <=> c \notin received)
    /\ sender[c] \in {"refused", "dropped"} => state[c] \in {"SenderClosed", "ReceiverClosed"}
    /\ poller[c] # NoTask /\ state[c] \in {"Full", "SenderClosed"} => c \in woken

ChannelOk(c) == EventOk(c) /\ HeldOk(c) /\ EndedOk(c)

IInv == Typed /\ \A c \in Channel : ChannelOk(c)
-----------------------------------------------------------------------------
\* A step leaves a channel whose variables it leaves alone; waking its receiver
\* does no harm.
LEMMA OtherChannel ==
    ASSUME NEW d, ChannelOk(d), state'[d] = state[d], sender'[d] = sender[d],
           event'[d] = event[d], poller'[d] = poller[d],
           d \in receiver' <=> d \in receiver, d \in received' <=> d \in received,
           d \in woken => d \in woken'
    PROVE  ChannelOk(d)'
  <1>1. EventOk(d)'
    BY DEF ChannelOk, EventOk
  <1>2. HeldOk(d)'
    BY DEF ChannelOk, HeldOk
  <1>3. EndedOk(d)'
    BY DEF ChannelOk, EndedOk
  <1> QED
    BY <1>1, <1>2, <1>3 DEF ChannelOk

\* The receiver is the only listener: a notification reaches it.
LEMMA NotifyReceiver ==
    ASSUME NEW c \in Channel, ChannelOk(c), sender[c] = "held"
    PROVE  LET e == NotifyOne(event[c], Unit) IN
           /\ EventInv(e, {c}, {Unit}, Task)
           /\ Listeners(e) = receiver \cap {c}
           /\ WokenByOne(event[c]) \subseteq Task
           /\ poller[c] # NoTask => poller[c] \in WokenByOne(event[c])
  <1> DEFINE v == event[c]
             T == NotifyTargets(v, 1)
             e == NotifyOne(v, Unit)
  <1>1. /\ EventInv(v, {c}, {Unit}, Task) /\ Listeners(v) = receiver \cap {c}
        /\ Notified(v) = {} /\ Unit \in {Unit} /\ IsFiniteSet({c})
        /\ poller[c] # NoTask => c \in Parked(v) /\ v.waker[c] = poller[c]
    BY FS_Singleton DEF ChannelOk, EventOk, HeldOk
  <1>2. T \subseteq Unnotified(v) /\ e = Mark(v, T, Unit) /\ WokenByOne(v) = WakersOf(v, T)
    BY DEF NotifyTargets, FirstUnnotified, NotifyOne, WokenByOne
  <1>3. v.notified = 0
    BY <1>1, FS_EmptySet DEF EventInv
  <1>4. T = FirstUnnotified(v, 1)
    BY <1>3 DEF NotifyTargets
  <1> HIDE DEF v, T, e
  <1>5. EventInv(e, {c}, {Unit}, Task) /\ Marked(e, v, T)
    BY <1>1, <1>2, MarkInv
  <1>6. Listeners(e) = receiver \cap {c}
    BY <1>1, <1>5 DEF Marked
  <1>7. ASSUME poller[c] # NoTask PROVE poller[c] \in WokenByOne(v)
    <2>1. c \in Parked(v) /\ v.waker[c] = poller[c]
      BY <1>1, <1>7
    <2>2. Unnotified(v) = {c}
      BY <1>1, <2>1 DEF Unnotified, EventInv
    <2>3. T = {c}
      BY <1>1, <1>4, <2>2, FirstUnnotifiedOne
    <2> QED
      BY <1>2, <2>1, <2>3 DEF WakersOf
  <1>8. WokenByOne(v) \subseteq Task
    BY <1>1, <1>2, EventSets DEF WakersOf, EventInv
  <1> QED
    BY <1>5, <1>6, <1>7, <1>8 DEF e, v

\* What the end of a sender does to its channel: event e is closed, and the tasks
\* that are woken may poll other channels, too.
LEMMA EndSenderInv ==
    ASSUME IInv, NEW c \in Channel, NEW e, NEW tasks \in SUBSET Task, EndSender(c, e, tasks),
           EventInv(e, {c}, {Unit}, Task), Listeners(e) = receiver \cap {c},
           NEW how \in {"sent", "refused", "dropped"}, sender' = [sender EXCEPT ![c] = how],
           UNCHANGED <<receiver, received, poller>>,
           state' \in [Channel -> States], \A d \in Channel \ {c} : state'[d] = state[d],
           value' = {d \in Channel : state'[d] = "Full"},
           how = "sent" => state'[c] = "Full" /\ c \notin received,
           how # "sent" => state'[c] \in {"SenderClosed", "ReceiverClosed"},
           poller[c] # NoTask /\ state'[c] \in {"Full", "SenderClosed"} => poller[c] \in tasks
    PROVE  IInv'
  <1>1. /\ event' = [event EXCEPT ![c] = Close(e)]
        /\ woken' = woken \cup {d \in Channel : poller[d] \in tasks \cup WakersOf(e, Listeners(e))}
    BY DEF EndSender
  <1>2. /\ EventInv(Close(e), {c}, {Unit}, Task) /\ Listeners(Close(e)) = Listeners(e)
        /\ Notified(Close(e)) = Notified(e) /\ Parked(Close(e)) = {} /\ Close(e).closed
    <2>1. EventInv(e, {c}, {Unit}, Task)
      OBVIOUS
    <2> QED
      BY ONLY <2>1, CloseInv, Zenon
  <1>3. Close(e).closed = TRUE
    BY DEF Close, EventInv, EventType
  <1>4. /\ DOMAIN event' = Channel /\ event'[c] = Close(e)
        /\ \A d \in Channel \ {c} : event'[d] = event[d] /\ sender'[d] = sender[d]
        /\ sender'[c] = how /\ sender' \in [Channel -> {"held", "sent", "refused", "dropped"}]
    BY <1>1 DEF IInv, Typed
  <1>5. woken \subseteq woken' /\ woken' \subseteq receiver
    <2>1. \A t \in tasks \cup WakersOf(e, Listeners(e)) : t # NoTask
      BY EventSets, TaskAssumption DEF WakersOf, EventInv
    <2> QED
      BY <1>1, <2>1 DEF IInv, Typed
  <1>6. Typed'
    BY <1>4, <1>5 DEF IInv, Typed
  <1>7. ASSUME NEW d \in Channel \ {c} PROVE ChannelOk(d)'
    BY <1>4, <1>5, <1>7, OtherChannel DEF IInv
  <1>8. ChannelOk(c)'
    <2>1. EventOk(c)'
      BY <1>2, <1>3, <1>4 DEF EventOk
    <2>2. HeldOk(c)'
      BY <1>4 DEF HeldOk
    <2>3. poller[c] \in tasks => c \in woken'
      BY <1>1
    <2>4. EndedOk(c)'
      BY <1>4, <2>3 DEF EndedOk
    <2> QED
      BY <2>1, <2>2, <2>4 DEF ChannelOk
  <1> QED
    BY <1>6, <1>7, <1>8 DEF IInv

\* The receiver listens from the start.
LEMMA InitInv == Init => IInv
  <1> SUFFICES ASSUME Init PROVE IInv
    OBVIOUS
  <1>1. Typed
    BY DEF Init, Typed, States
  <1>2. ASSUME NEW c \in Channel PROVE ChannelOk(c)
    <2>1. event[c] = Listen(NewEvent, c) /\ receiver \cap {c} = {c}
      BY DEF Init
    <2>2. /\ EventInv(NewEvent, {c}, {Unit}, Task)
          /\ Listeners(NewEvent) = {} /\ Notified(NewEvent) = {}
      BY NewEventInv
    <2>3. /\ EventInv(event[c], {c}, {Unit}, Task) /\ Listeners(event[c]) = {c}
          /\ Notified(event[c]) = {} /\ event[c].closed = NewEvent.closed
      BY <2>1, <2>2, ListenInv
    <2>4. NewEvent.closed = FALSE
      BY DEF NewEvent
    <2>5. EventOk(c)
      BY <2>1, <2>3, <2>4 DEF Init, EventOk
    <2> QED
      BY <2>3, <2>5 DEF Init, ChannelOk, HeldOk, EndedOk
  <1> QED
    BY <1>1, <1>2 DEF IInv

\* The three ends of a sender.
LEMMA SenderInv ==
    ASSUME IInv, NEW c \in Channel, Send(c) \/ SendRefused(c) \/ DropSender(c)
    PROVE  IInv'
  <1>1. /\ ChannelOk(c) /\ sender[c] = "held" /\ state[c] \in {"Empty", "ReceiverClosed"}
        /\ c \notin received /\ state \in [Channel -> States]
        /\ value = {d \in Channel : state[d] = "Full"}
        /\ EventInv(event[c], {c}, {Unit}, Task) /\ Listeners(event[c]) = receiver \cap {c}
    BY DEF IInv, Typed, ChannelOk, HeldOk, EventOk, Send, SendRefused, DropSender
  <1>2. /\ EventInv(NotifyOne(event[c], Unit), {c}, {Unit}, Task)
        /\ Listeners(NotifyOne(event[c], Unit)) = receiver \cap {c}
        /\ WokenByOne(event[c]) \in SUBSET Task
        /\ poller[c] # NoTask => poller[c] \in WokenByOne(event[c])
    BY <1>1, NotifyReceiver
  <1>3. CASE Send(c)
    <2>1. /\ state' = [state EXCEPT ![c] = "Full"] /\ sender' = [sender EXCEPT ![c] = "sent"]
          /\ value' = value \cup {c}
          /\ EndSender(c, NotifyOne(event[c], Unit), WokenByOne(event[c]))
          /\ UNCHANGED <<receiver, received, poller>>
      BY <1>3 DEF Send, EndSenderNotifying
    <2>2. /\ state' \in [Channel -> States] /\ \A d \in Channel \ {c} : state'[d] = state[d]
          /\ state'[c] = "Full" /\ value' = {d \in Channel : state'[d] = "Full"}
      BY <1>1, <2>1 DEF States
    <2> QED
      BY <1>1, <1>2, <2>1, <2>2, EndSenderInv
  <1>4. CASE SendRefused(c)
    <2>1. /\ sender' = [sender EXCEPT ![c] = "refused"] /\ EndSender(c, event[c], {})
          /\ UNCHANGED <<state, value, receiver, received, poller>>
          /\ state[c] = "ReceiverClosed"
      BY <1>4 DEF SendRefused
    <2>2. {} \in SUBSET Task
      OBVIOUS
    <2> QED
      BY <1>1, <2>1, <2>2, EndSenderInv
  <1>5. CASE DropSender(c) /\ state[c] = "Empty"
    <2>1. /\ state' = [state EXCEPT ![c] = "SenderClosed"]
          /\ sender' = [sender EXCEPT ![c] = "dropped"]
          /\ EndSender(c, NotifyOne(event[c], Unit), WokenByOne(event[c]))
          /\ UNCHANGED <<value, receiver, received, poller>>
      BY <1>5 DEF DropSender, EndSenderNotifying
    <2>2. /\ state' \in [Channel -> States] /\ \A d \in Channel \ {c} : state'[d] = state[d]
          /\ value' = {d \in Channel : state'[d] = "Full"} /\ state'[c] = "SenderClosed"
      BY <1>1, <2>1 DEF States
    <2> QED
      BY <1>1, <1>2, <2>1, <2>2, EndSenderInv
  <1>6. CASE DropSender(c) /\ state[c] # "Empty"
    <2>1. /\ sender' = [sender EXCEPT ![c] = "dropped"] /\ EndSender(c, event[c], {})
          /\ UNCHANGED <<state, value, receiver, received, poller>>
          /\ state[c] = "ReceiverClosed"
      BY <1>1, <1>6 DEF DropSender
    <2>2. {} \in SUBSET Task
      OBVIOUS
    <2> QED
      BY <1>1, <2>1, <2>2, EndSenderInv
  <1> QED
    BY <1>3, <1>4, <1>5, <1>6
-----------------------------------------------------------------------------
\* close() leaves a channel alone that is not empty.
LEMMA ShutChannel ==
    ASSUME IInv, NEW c \in Channel, Shut(c)
    PROVE  /\ state' \in [Channel -> States]
           /\ \A d \in Channel \ {c} : state'[d] = state[d]
           /\ state'[c] = IF state[c] = "Empty" THEN "ReceiverClosed" ELSE state[c]
           /\ value' = {d \in Channel : state'[d] = "Full"}
  BY DEF Shut, IInv, Typed, States

\* A closed receiver goes on listening.
LEMMA CloseReceiverInv ==
    ASSUME IInv, NEW c \in Channel, CloseReceiver(c)
    PROVE  IInv'
  <1>1. /\ Shut(c) /\ UNCHANGED <<event, sender, receiver, received, poller, woken>>
    BY DEF CloseReceiver
  <1>2. /\ state' \in [Channel -> States]
        /\ \A d \in Channel \ {c} : state'[d] = state[d]
        /\ state'[c] = IF state[c] = "Empty" THEN "ReceiverClosed" ELSE state[c]
        /\ value' = {d \in Channel : state'[d] = "Full"}
    BY <1>1, ShutChannel
  <1>3. Typed'
    BY <1>1, <1>2 DEF IInv, Typed
  <1>4. ASSUME NEW d \in Channel \ {c} PROVE ChannelOk(d)'
    BY <1>1, <1>2, OtherChannel DEF IInv
  <1>5. ChannelOk(c)'
    BY <1>1, <1>2 DEF IInv, ChannelOk, EventOk, HeldOk, EndedOk
  <1> QED
    BY <1>3, <1>4, <1>5 DEF IInv

\* A dropped receiver takes its listener with it.
LEMMA DropReceiverInv ==
    ASSUME IInv, NEW c \in Channel, DropReceiver(c)
    PROVE  IInv'
  <1>1. /\ Shut(c) /\ c \in receiver /\ receiver' = receiver \ {c}
        /\ event' = [event EXCEPT ![c] = DropListener(@, c)]
        /\ poller' = [poller EXCEPT ![c] = NoTask] /\ woken' = woken \ {c}
        /\ UNCHANGED <<sender, received>>
    BY DEF DropReceiver
  <1>2. /\ state' \in [Channel -> States]
        /\ \A d \in Channel \ {c} : state'[d] = state[d]
        /\ state'[c] = IF state[c] = "Empty" THEN "ReceiverClosed" ELSE state[c]
        /\ value' = {d \in Channel : state'[d] = "Full"}
    BY <1>1, ShutChannel
  <1>3. /\ event'[c] = DropListener(event[c], c) /\ DOMAIN event' = Channel
        /\ \A d \in Channel \ {c} : event'[d] = event[d] /\ poller'[d] = poller[d]
        /\ poller'[c] = NoTask /\ poller' \in [Channel -> Task \cup {NoTask}]
    BY <1>1 DEF IInv, Typed
  <1>4. Typed'
    BY <1>1, <1>2, <1>3 DEF IInv, Typed
  <1>5. ASSUME NEW d \in Channel \ {c} PROVE ChannelOk(d)'
    BY <1>1, <1>2, <1>3, OtherChannel DEF IInv
  <1>6. ChannelOk(c)'
    <2> DEFINE e == DropListener(event[c], c)
    <2>1. /\ EventInv(event[c], {c}, {Unit}, Task) /\ Listeners(event[c]) = {c}
          /\ event[c].closed = (sender[c] # "held") /\ IsFiniteSet({c})
      BY <1>1, FS_Singleton DEF IInv, ChannelOk, EventOk
    <2>2. c \in Listeners(event[c])
      BY <2>1
    <2>3. /\ EventInv(e, {c}, {Unit}, Task) /\ Listeners(e) = Listeners(event[c]) \ {c}
          /\ e.closed = event[c].closed
      BY <2>1, <2>2, DropListenerInv
    <2> HIDE DEF e
    <2>4. Listeners(e) = {} /\ Notified(e) = {}
      BY <2>1, <2>3 DEF EventInv
    <2>5. EventOk(c)'
      BY <1>1, <1>3, <2>1, <2>3, <2>4 DEF EventOk, e
    <2>6. HeldOk(c)' /\ EndedOk(c)'
      BY <1>1, <1>2, <1>3, <2>4 DEF IInv, ChannelOk, HeldOk, EndedOk, e
    <2> QED
      BY <2>5, <2>6 DEF ChannelOk
  <1> QED
    BY <1>4, <1>5, <1>6 DEF IInv

\* Taking a value empties the channel; its sender is gone.
LEMMA TakeChannel ==
    ASSUME IInv, NEW c \in Channel, Take(c)
    PROVE  /\ state' \in [Channel -> States]
           /\ \A d \in Channel \ {c} : state'[d] = state[d] /\ (d \in received' <=> d \in received)
           /\ state[c] = "Full" /\ state'[c] = "Empty" /\ c \in received' /\ sender[c] # "held"
           /\ value' = {d \in Channel : state'[d] = "Full"}
  BY DEF Take, IInv, Typed, States, ChannelOk, HeldOk

\* Taking the value leaves the listener.
LEMMA TakeInv ==
    ASSUME IInv, NEW c \in Channel, Take(c), UNCHANGED <<event, sender, receiver, poller, woken>>
    PROVE  IInv'
  <1>2. /\ state' \in [Channel -> States]
        /\ \A d \in Channel \ {c} : state'[d] = state[d] /\ (d \in received' <=> d \in received)
        /\ state[c] = "Full" /\ state'[c] = "Empty" /\ c \in received' /\ sender[c] # "held"
        /\ value' = {d \in Channel : state'[d] = "Full"}
    BY TakeChannel
  <1>3. Typed'
    BY <1>2 DEF IInv, Typed
  <1>4. ASSUME NEW d \in Channel \ {c} PROVE ChannelOk(d)'
    BY <1>2, OtherChannel DEF IInv
  <1>5. ChannelOk(c)'
    BY <1>2 DEF IInv, ChannelOk, EventOk, HeldOk, EndedOk
  <1> QED
    BY <1>3, <1>4, <1>5 DEF IInv

\* try_recv leaves the listener, whatever it answers.
LEMMA TryRecvInv ==
    ASSUME IInv, NEW c \in Channel, TryRecv(c)
    PROVE  IInv'
  <1>1. UNCHANGED <<event, sender, receiver, poller, woken>>
    BY DEF TryRecv
  <1>2. CASE Take(c)
    BY <1>1, <1>2, TakeInv
  <1>3. CASE UNCHANGED <<state, value, received>>
    <2>1. Typed'
      BY <1>1, <1>3 DEF IInv, Typed
    <2>2. ASSUME NEW d \in Channel PROVE ChannelOk(d)'
      BY <1>1, <1>3, OtherChannel DEF IInv
    <2> QED
      BY <2>1, <2>2 DEF IInv
  <1> QED
    BY <1>2, <1>3 DEF TryRecv, Answer

\* A receiver that is ready stops waiting.
LEMMA PollReadyInv ==
    ASSUME IInv, NEW c \in Channel, PollReady(c)
    PROVE  IInv'
  <1>1. /\ UNCHANGED <<event, sender, receiver>> /\ woken' = woken \ {c}
        /\ poller' = [poller EXCEPT ![c] = NoTask]
    BY DEF PollReady
  <1>2. /\ poller'[c] = NoTask /\ poller' \in [Channel -> Task \cup {NoTask}]
        /\ \A d \in Channel \ {c} : poller'[d] = poller[d]
    BY <1>1 DEF IInv, Typed
  <1>3. CASE Take(c)
    <2>1. /\ state' \in [Channel -> States]
          /\ \A d \in Channel \ {c} : state'[d] = state[d] /\ (d \in received' <=> d \in received)
          /\ state[c] = "Full" /\ state'[c] = "Empty" /\ c \in received' /\ sender[c] # "held"
          /\ value' = {d \in Channel : state'[d] = "Full"}
      BY <1>3, TakeChannel
    <2>2. Typed'
      BY <1>1, <1>2, <2>1 DEF IInv, Typed
    <2>3. ASSUME NEW d \in Channel \ {c} PROVE ChannelOk(d)'
      BY <1>1, <1>2, <2>1, OtherChannel DEF IInv
    <2>4. ChannelOk(c)'
      BY <1>1, <1>2, <2>1 DEF IInv, ChannelOk, EventOk, HeldOk, EndedOk
    <2> QED
      BY <2>2, <2>3, <2>4 DEF IInv
  <1>4. CASE UNCHANGED <<state, value, received>>
    <2>1. Typed'
      BY <1>1, <1>2, <1>4 DEF IInv, Typed
    <2>2. ASSUME NEW d \in Channel \ {c} PROVE ChannelOk(d)'
      BY <1>1, <1>2, <1>4, OtherChannel DEF IInv
    <2>3. ChannelOk(c)'
      BY <1>1, <1>2, <1>4 DEF IInv, ChannelOk, EventOk, HeldOk, EndedOk
    <2> QED
      BY <2>1, <2>2, <2>3 DEF IInv
  <1> QED
    BY <1>3, <1>4 DEF PollReady, Answer

\* A receiver that is pending is parked, unless a notification was left over: then
\* its sender is gone and the channel stays as it is.
LEMMA PollPendingInv ==
    ASSUME IInv, NEW c \in Channel, NEW t \in Task, PollPending(c, t)
    PROVE  IInv'
  <1> DEFINE v == event[c]
             e == IF c \in Notified(v) THEN Consume(v, c) ELSE Park(v, c, t)
  <1>1. /\ c \in receiver /\ state[c] \in {"Empty", "ReceiverClosed"}
        /\ event' = [event EXCEPT ![c] = e] /\ poller' = [poller EXCEPT ![c] = t]
        /\ woken' = woken \ {c} /\ UNCHANGED <<state, value, sender, receiver, received>>
    BY DEF PollPending, Answer
  <1>2. /\ EventInv(v, {c}, {Unit}, Task) /\ Listeners(v) = receiver \cap {c}
        /\ v.closed = (sender[c] # "held") /\ IsFiniteSet({c})
        /\ sender[c] = "held" => Notified(v) = {}
    BY FS_Singleton DEF IInv, ChannelOk, EventOk, HeldOk
  <1>3. /\ EventInv(e, {c}, {Unit}, Task) /\ Listeners(e) = Listeners(v) /\ e.closed = v.closed
        /\ sender[c] = "held" =>
               Notified(e) = {} /\ c \in Parked(e) /\ e.waker[c] = t
    <2>1. CASE c \in Notified(v)
      <3>1. e = Consume(v, c) /\ sender[c] # "held"
        BY <1>2, <2>1
      <3> HIDE DEF e, v
      <3> QED
        BY <1>2, <2>1, <3>1, ConsumeInv
    <2>2. CASE c \notin Notified(v)
      <3>1. e = Park(v, c, t) /\ c \in Unnotified(v)
        BY <1>1, <1>2, <2>2 DEF Unnotified
      <3> HIDE DEF e, v
      <3>2. /\ EventInv(e, {c}, {Unit}, Task) /\ Listeners(e) = Listeners(v)
            /\ Notified(e) = Notified(v) /\ Parked(e) = Parked(v) \cup {c}
            /\ \A m \in Parked(e) : e.waker[m] = IF m = c THEN t ELSE v.waker[m]
            /\ e.closed = v.closed
        BY <1>2, <3>1, ParkInv
      <3> QED
        BY <1>2, <3>2
    <2> QED
      BY <2>1, <2>2
  <1> HIDE DEF e
  <1>4. /\ event'[c] = e /\ DOMAIN event' = Channel
        /\ \A d \in Channel \ {c} : event'[d] = event[d] /\ poller'[d] = poller[d]
        /\ poller'[c] = t /\ poller' \in [Channel -> Task \cup {NoTask}]
    BY <1>1 DEF IInv, Typed
  <1>5. Typed'
    BY <1>1, <1>4 DEF IInv, Typed
  <1>6. ASSUME NEW d \in Channel \ {c} PROVE ChannelOk(d)'
    BY <1>1, <1>4, OtherChannel DEF IInv
  <1>7. ChannelOk(c)'
    <2>1. EventOk(c)'
      BY <1>1, <1>2, <1>3, <1>4 DEF EventOk
    <2>2. HeldOk(c)' /\ EndedOk(c)'
      BY <1>1, <1>3, <1>4 DEF IInv, ChannelOk, HeldOk, EndedOk
    <2> QED
      BY <2>1, <2>2 DEF ChannelOk
  <1> QED
    BY <1>5, <1>6, <1>7 DEF IInv
-----------------------------------------------------------------------------
\* Every step keeps the invariant.
LEMMA NextInv == IInv /\ [Next]_vars => IInv'
  <1> SUFFICES ASSUME IInv, [Next]_vars PROVE IInv'
    OBVIOUS
  <1>1. CASE UNCHANGED vars
    <2>1. Typed'
      BY <1>1 DEF vars, IInv, Typed
    <2>2. ASSUME NEW d \in Channel PROVE ChannelOk(d)'
      BY <1>1, OtherChannel DEF vars, IInv
    <2> QED
      BY <2>1, <2>2 DEF IInv
  <1>2. ASSUME NEW c \in Channel,
               \/ Send(c) \/ SendRefused(c) \/ DropSender(c)
               \/ CloseReceiver(c) \/ DropReceiver(c) \/ TryRecv(c) \/ Poll(c)
        PROVE  IInv'
    BY <1>2, SenderInv, CloseReceiverInv, DropReceiverInv, TryRecvInv, PollReadyInv,
       PollPendingInv DEF Poll
  <1> QED
    BY <1>1, <1>2 DEF Next

\* The invariant of the channels.
THEOREM OneshotInvariant == Spec => []IInv
  <1> QED
    BY InitInv, NextInv, PTL DEF Spec

\* The value is there while the state says Full, and the event goes with the sender.
THEOREM OneshotTypeCorrect == Spec => []TypeOK
  <1>1. IInv => TypeOK
    BY DEF IInv, Typed, States, ChannelOk, EventOk, EventInv, TypeOK, Awaited
  <1> QED
    BY <1>1, OneshotInvariant, PTL

\* The assertion in Sender::send never finds another state.
THEOREM SendNeverPanics == Spec => []SendIsReachable
  <1>1. IInv => SendIsReachable
    BY DEF IInv, ChannelOk, HeldOk, SendIsReachable
  <1> QED
    BY <1>1, OneshotInvariant, PTL

\* A value that was sent is kept until it is received, once.
THEOREM SentValuesAreKept == Spec => []SentIsKept
  <1>1. IInv => SentIsKept
    BY DEF IInv, ChannelOk, EndedOk, SentIsKept
  <1> QED
    BY <1>1, OneshotInvariant, PTL
-----------------------------------------------------------------------------
\* Only a receiver closes its channel.
ClosedByReceiver == \A c \in Channel : state[c] = "ReceiverClosed" => c \in closed

LEMMA ClosedNext == IInv /\ ClosedByReceiver /\ [Next]_vars => ClosedByReceiver'
  <1> SUFFICES ASSUME IInv, ClosedByReceiver, [Next]_vars PROVE ClosedByReceiver'
    OBVIOUS
  <1>1. CASE UNCHANGED vars
    BY <1>1 DEF vars, ClosedByReceiver
  <1>2. ASSUME NEW c \in Channel, Send(c) \/ SendRefused(c) \/ DropSender(c) \/ TryRecv(c) \/ Poll(c)
        PROVE  ClosedByReceiver'
    <2>1. closed' = closed
      BY <1>2 DEF Send, SendRefused, DropSender, TryRecv, Poll, PollReady, PollPending
    <2>2. \/ state' = state
          \/ \E w \in States \ {"ReceiverClosed"} : state' = [state EXCEPT ![c] = w]
      BY <1>2 DEF Send, SendRefused, DropSender, TryRecv, Poll, PollReady, PollPending, Take,
                  Answer, States
    <2> QED
      BY <2>1, <2>2 DEF ClosedByReceiver, IInv, Typed
  <1>3. ASSUME NEW c \in Channel, CloseReceiver(c) \/ DropReceiver(c)
        PROVE  ClosedByReceiver'
    <2>1. Shut(c)
      BY <1>3 DEF CloseReceiver, DropReceiver
    <2>2. (\A d \in Channel \ {c} : state'[d] = state[d]) /\ closed' = closed \cup {c}
      BY <2>1, ShutChannel DEF Shut
    <2> QED
      BY <2>2 DEF ClosedByReceiver
  <1> QED
    BY <1>1, <1>2, <1>3 DEF Next

\* Whoever awaits a receiver is woken when its sender ends, unless the value was taken
\* with try_recv or the channel was closed.
THEOREM AwaitersAreWoken == Spec => []AwaiterIsWoken
  <1>1. Init => ClosedByReceiver
    BY DEF Init, ClosedByReceiver
  <1>2. IInv /\ ClosedByReceiver => AwaiterIsWoken
    BY DEF IInv, Typed, States, ChannelOk, EndedOk, ClosedByReceiver, AwaiterIsWoken
  <1> QED
    BY <1>1, <1>2, ClosedNext, OneshotInvariant, PTL DEF Spec
-----------------------------------------------------------------------------
\* What the promise says of a channel, in terms of its state word.
LEMMA Promised ==
    ASSUME IInv, NEW c \in Channel
    PROVE  /\ c \in Ended <=> sender[c] # "held"
           /\ c \in Refusing <=> state[c] = "ReceiverClosed"
           /\ Fate[c] = "sent" <=> state[c] = "Full"
           /\ P!Broken(c) <=> state[c] = "SenderClosed"
  <1>1. /\ state[c] \in States /\ sender[c] \in {"held", "sent", "refused", "dropped"}
        /\ HeldOk(c) /\ EndedOk(c)
    BY DEF IInv, Typed, ChannelOk
  <1>2. Fate[c] = "sent" <=> state[c] = "Full"
    BY <1>1 DEF Fate, HeldOk, EndedOk, States
  <1>3. Fate[c] = "none" <=> sender[c] # "sent"
    BY DEF Fate
  <1>4. P!Broken(c) <=> state[c] = "SenderClosed"
    BY <1>1, <1>3 DEF P!Broken, Ended, Refusing, HeldOk, EndedOk, States
  <1> QED
    BY <1>2, <1>4 DEF Ended, Refusing

\* The end of a sender, with or without a value.
LEMMA SenderSteps ==
    ASSUME IInv, NEW c \in Channel, Send(c) \/ SendRefused(c) \/ DropSender(c)
    PROVE  P!Next
  <1>1. /\ c \notin Ended /\ (c \in Refusing <=> state[c] = "ReceiverClosed")
        /\ c \notin received /\ state[c] \in {"Empty", "ReceiverClosed"}
        /\ state \in [Channel -> States] /\ DOMAIN sender = Channel
    BY Promised DEF IInv, Typed, ChannelOk, HeldOk, Send, SendRefused, DropSender
  <1>2. /\ UNCHANGED <<receiver, received, poller>> /\ Awaited' = Awaited
    BY DEF Send, SendRefused, DropSender, Awaited
  <1>3. PICK how \in {"sent", "refused", "dropped"} : sender' = [sender EXCEPT ![c] = how]
    BY DEF Send, SendRefused, DropSender
  <1>4. Ended' = Ended \cup {c}
    BY <1>1, <1>3 DEF Ended
  <1>5. CASE Send(c)
    <2>1. /\ sender' = [sender EXCEPT ![c] = "sent"] /\ state' = [state EXCEPT ![c] = "Full"]
          /\ state[c] = "Empty" /\ returned' = <<"sent", c>>
      BY <1>5 DEF Send
    <2>2. Fate' = [Fate EXCEPT ![c] = "sent"]
      BY <1>1, <1>2, <2>1 DEF Fate
    <2>3. Refusing' = Refusing /\ c \notin Refusing
      BY <1>1, <2>1 DEF Refusing
    <2>4. P!Send(c)
      BY <1>1, <1>2, <1>4, <2>1, <2>2, <2>3 DEF P!Send
    <2> QED
      BY <2>4 DEF P!Next
  <1>6. CASE SendRefused(c)
    <2>1. /\ sender' = [sender EXCEPT ![c] = "refused"] /\ state' = state
          /\ state[c] = "ReceiverClosed" /\ returned' = <<"refused", c>>
      BY <1>6 DEF SendRefused
    <2>2. Fate' = Fate
      BY <1>1, <1>2, <2>1 DEF Fate, Ended
    <2>3. Refusing' = Refusing /\ c \in Refusing
      BY <1>1, <2>1 DEF Refusing
    <2>4. P!Send(c)
      BY <1>1, <1>2, <1>4, <2>1, <2>2, <2>3 DEF P!Send
    <2> QED
      BY <2>4 DEF P!Next
  <1>7. CASE DropSender(c)
    <2>1. /\ sender' = [sender EXCEPT ![c] = "dropped"] /\ returned' = Nothing
          /\ state' = state \/ (state[c] = "Empty" /\ state' = [state EXCEPT ![c] = "SenderClosed"])
      BY <1>7, Zenon DEF DropSender
    <2>2. Fate' = Fate
      BY <1>1, <1>2, <2>1 DEF Fate, Ended
    <2>3. Refusing' = Refusing
      BY <1>1, <2>1 DEF Refusing
    <2>4. P!Renounce(c)
      BY <1>1, <1>2, <1>4, <2>1, <2>2, <2>3 DEF P!Renounce, P!Nothing, Nothing
    <2> QED
      BY <2>4 DEF P!Next
  <1> QED
    BY <1>5, <1>6, <1>7

\* A receiver that closes or goes takes nothing any more, unless there is something
\* for it: the value, or the news that none will come.
LEMMA CloseSteps ==
    ASSUME IInv, NEW c \in Channel, CloseReceiver(c) \/ DropReceiver(c)
    PROVE  P!Next
  <1>1. /\ c \in receiver /\ Shut(c) /\ UNCHANGED <<sender, received>> /\ returned' = Nothing
    BY DEF CloseReceiver, DropReceiver
  <1>2. /\ state' \in [Channel -> States]
        /\ \A d \in Channel \ {c} : state'[d] = state[d]
        /\ state'[c] = IF state[c] = "Empty" THEN "ReceiverClosed" ELSE state[c]
    BY <1>1, ShutChannel
  <1>3. state[c] \in States
    BY DEF IInv, Typed
  <1>4. Ended' = Ended /\ Fate' = Fate
    BY <1>1 DEF Ended, Fate
  <1>5. Refusing' = IF state[c] \in {"Full", "SenderClosed"} THEN Refusing ELSE Refusing \cup {c}
    BY <1>2, <1>3 DEF Refusing, States
  <1>6. P!Refuse(c)
    BY <1>1, <1>4, <1>5, Promised DEF P!Refuse, P!Nothing, Nothing
  <1>7. CASE CloseReceiver(c)
    <2>1. receiver' = receiver /\ Awaited' = Awaited
      BY <1>7 DEF CloseReceiver, Awaited
    <2>2. P!Close(c)
      BY <1>1, <1>6, <2>1 DEF P!Close
    <2> QED
      BY <2>2 DEF P!Next
  <1>8. CASE DropReceiver(c)
    <2>1. receiver' = receiver \ {c} /\ poller' = [poller EXCEPT ![c] = NoTask]
      BY <1>8 DEF DropReceiver
    <2>2. Awaited' = Awaited \ {c}
      BY <2>1 DEF Awaited, IInv, Typed
    <2>3. P!Leave(c)
      BY <1>1, <1>6, <2>1, <2>2 DEF P!Leave
    <2> QED
      BY <2>3 DEF P!Next
  <1> QED
    BY <1>7, <1>8

\* A value that is taken was sent and not received before.
LEMMA TakeReceives ==
    ASSUME IInv, NEW c \in Channel, Take(c), sender' = sender
    PROVE  P!Receive(c) /\ Ended' = Ended /\ Refusing' = Refusing
  <1>1. /\ state[c] = "Full" /\ state' = [state EXCEPT ![c] = "Empty"]
        /\ received' = received \cup {c} /\ returned' = <<"value", c>>
    BY DEF Take
  <1>2. Fate[c] = "sent"
    BY <1>1, Promised
  <1>3. sender[c] = "sent"
    BY <1>2 DEF Fate
  <1>4. Fate' = [Fate EXCEPT ![c] = "received"]
    BY <1>1, <1>3 DEF Fate
  <1>5. Refusing' = Refusing
    BY <1>1 DEF Refusing, IInv, Typed
  <1> QED
    BY <1>1, <1>2, <1>4, <1>5 DEF P!Receive, Ended

\* An answer that changes nothing.
LEMMA AnswerKeeps ==
    ASSUME NEW c, NEW what, Answer(c, what), sender' = sender
    PROVE  UNCHANGED <<Ended, Fate, Refusing>> /\ returned' = <<what, c>>
  BY DEF Answer, Ended, Fate, Refusing

\* try_recv and the polls, answer by answer.
LEMMA ReceiveSteps ==
    ASSUME IInv, NEW c \in Channel, TryRecv(c) \/ Poll(c)
    PROVE  P!Next
  <1>1. c \in receiver /\ UNCHANGED <<sender, receiver>>
    BY DEF TryRecv, Poll, PollReady, PollPending
  <1>2. CASE TryRecv(c)
    <2>1. Awaited' = Awaited
      BY <1>2 DEF TryRecv, Awaited
    <2>2. CASE Take(c)
      <3>1. P!Try(c)
        BY <1>1, <2>1, <2>2, TakeReceives DEF P!Try
      <3> QED
        BY <3>1 DEF P!Next
    <2>3. CASE state[c] \in {"SenderClosed", "ReceiverClosed"} /\ Answer(c, "error")
      <3>1. P!Try(c)
        BY <1>1, <2>1, <2>3, AnswerKeeps, Promised DEF P!Try
      <3> QED
        BY <3>1 DEF P!Next
    <2>4. CASE state[c] = "Empty" /\ Answer(c, "nothing")
      <3>1. P!Try(c)
        BY <1>1, <2>1, <2>4, AnswerKeeps, Promised DEF P!Try
      <3> QED
        BY <3>1 DEF P!Next
    <2> QED
      BY <1>2, <2>2, <2>3, <2>4 DEF TryRecv
  <1>3. CASE PollReady(c)
    <2>1. Awaited' = Awaited \ {c}
      BY <1>3 DEF PollReady, Awaited, IInv, Typed
    <2>2. CASE Take(c)
      <3>1. P!Await(c)
        BY <1>1, <2>1, <2>2, TakeReceives DEF P!Await
      <3> QED
        BY <3>1 DEF P!Next
    <2>3. CASE state[c] = "SenderClosed" /\ Answer(c, "error")
      <3>1. P!Await(c)
        BY <1>1, <2>1, <2>3, AnswerKeeps, Promised DEF P!Await
      <3> QED
        BY <3>1 DEF P!Next
    <2> QED
      BY <1>3, <2>2, <2>3 DEF PollReady
  <1>4. ASSUME NEW t \in Task, PollPending(c, t) PROVE P!Next
    <2>1. poller' = [poller EXCEPT ![c] = t] /\ t # NoTask
      BY <1>4, TaskAssumption DEF PollPending
    <2>2. Awaited' = Awaited \cup {c}
      BY <2>1 DEF Awaited, IInv, Typed
    <2>3. state[c] \in {"Empty", "ReceiverClosed"} /\ Answer(c, "pending")
      BY <1>4 DEF PollPending
    <2>4. P!Await(c)
      BY <1>1, <2>2, <2>3, AnswerKeeps, Promised DEF P!Await
    <2> QED
      BY <2>4 DEF P!Next
  <1> QED
    BY <1>2, <1>3, <1>4 DEF Poll

\* The channels implement the promise of a value: it is received at most once, only
\* if it was sent, and every call says what has become of it.
THEOREM OneshotIsPromise == Spec => ImplementsPromise
  <1>1. Init => P!Init
    BY DEF Init, P!Init, P!Nothing, Nothing, Ended, Fate, Refusing, Awaited
  <1>2. IInv /\ [Next]_vars => [P!Next]_P!promiseVars
    <2> SUFFICES ASSUME IInv, [Next]_vars PROVE P!Next \/ UNCHANGED P!promiseVars
      OBVIOUS
    <2>1. CASE UNCHANGED vars
      BY <2>1 DEF vars, P!promiseVars, Ended, Fate, Refusing, Awaited
    <2> QED
      BY <2>1, SenderSteps, CloseSteps, ReceiveSteps DEF Next
  <1> QED
    BY <1>1, <1>2, OneshotInvariant, PTL DEF Spec, ImplementsPromise, P!Spec
=============================================================================
