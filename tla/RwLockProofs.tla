---------------------------- MODULE RwLockProofs ----------------------------
(***************************************************************************)
(* The reader-writer lock excludes and wakes as it should, for every       *)
(* finite set of clients, and implements the abstract lock.                *)
(*                                                                         *)
(* The event is a Queue, as in the mutex: the woken clients are the        *)
(* notified ones.  The two kinds of waiting futures differ only in the     *)
(* test they make when they run, and both tests fail only on a lock that   *)
(* somebody holds, whose guard notifies when it goes.                      *)
(***************************************************************************)
EXTENDS RwLock, EventOpsProofs

States == {"idle", "wait_read", "wait_write", "reading", "writing"}

IInv ==
    /\ Queue(ev, woken, Client, Unit)
    /\ locked \in BOOLEAN
    /\ readers \in Nat
    /\ state \in [Client -> States]
    /\ Listeners(ev) = Waiting
    /\ SharedXorExclusive
    /\ can_write /\ Waiting # {} => Notified(ev) # {}

\* Nobody waits for a new lock.
LEMMA InitInv == Init => IInv
  <1> SUFFICES ASSUME Init PROVE IInv
    OBVIOUS
  <1>1. /\ EventInv(ev, Client, {Unit}, Client)
        /\ Listeners(ev) = {} /\ Notified(ev) = {} /\ Parked(ev) = {}
    BY NewEventInv DEF Init
  <1>2. /\ \A s \in States \ {"idle"} : In(s) = {}
        /\ state \in [Client -> States] /\ Waiting = {}
    BY DEF Init, In, Waiting, States
  <1>3. In("reading") = {} /\ In("writing") = {}
    BY <1>2 DEF States
  <1>4. SharedXorExclusive
    BY <1>3, FS_EmptySet DEF Init, SharedXorExclusive
  <1> QED
    BY <1>1, <1>2, <1>4 DEF Init, IInv, Queue

\* What a new state of one client does to the sets of clients.
LEMMA Moved ==
    ASSUME IInv, NEW c \in Client, NEW s \in States, state' = [state EXCEPT ![c] = s]
    PROVE  /\ state' \in [Client -> States]
           /\ \A r \in States :
                In(r)' = IF r = s THEN In(r) \cup {c} ELSE In(r) \ {c}
           /\ s \in {"wait_read", "wait_write"} => Waiting' = Waiting \cup {c}
           /\ s \notin {"wait_read", "wait_write"} => Waiting' = Waiting \ {c}
  <1>1. state \in [Client -> States]
    BY DEF IInv
  <1>2. \A r \in States : In(r)' = IF r = s THEN In(r) \cup {c} ELSE In(r) \ {c}
    BY <1>1 DEF In
  <1>3. "wait_read" \in States /\ "wait_write" \in States
    BY DEF States
  <1> QED
    BY <1>1, <1>2, <1>3 DEF Waiting

\* The readers are counted: one more, one less, or the same.
LEMMA Counted ==
    ASSUME NEW R, R \subseteq Client, NEW c \in Client
    PROVE  /\ IsFiniteSet(R) /\ Cardinality(R) \in Nat
           /\ c \notin R => R \ {c} = R /\ Cardinality(R \cup {c}) = Cardinality(R) + 1
           /\ c \in R => /\ R \cup {c} = R
                         /\ Cardinality(R \ {c}) = Cardinality(R) - 1
                         /\ Cardinality(R) # 0
           /\ Cardinality(R) = 0 => R = {}
  <1>1. IsFiniteSet(R) /\ Cardinality(R) \in Nat
    BY ClientAssumption, FS_Subset, FS_CardinalityType
  <1>2. ASSUME c \notin R PROVE Cardinality(R \cup {c}) = Cardinality(R) + 1
    BY <1>1, <1>2, FS_AddElement
  <1>3. ASSUME c \in R PROVE Cardinality(R \ {c}) = Cardinality(R) - 1
    BY <1>1, <1>3, FS_RemoveElement
  <1>4. Cardinality(R) = 0 => R = {}
    BY <1>1, FS_EmptySet
  <1> QED
    BY <1>1, <1>2, <1>3, <1>4

\* A client that is not registered and has no guard reads if it can.
LEMMA AcquireReadInv ==
    ASSUME IInv, NEW c \in Client, state[c] \notin {"reading", "writing"}, NEW e,
           AcquireRead(c, e), Queue(e, woken \ {c}, Client, Unit),
           Listeners(e) = Waiting \ {c}
    PROVE  IInv'
  <1>1. /\ ~locked /\ locked' = locked /\ readers' = readers + 1
        /\ ev' = NotifyOne(e, Unit) /\ woken' = (woken \ {c}) \cup WokenByOne(e)
        /\ state' = [state EXCEPT ![c] = "reading"] /\ readers \in Nat
    BY DEF AcquireRead, NotifyFrom, can_read, IInv
  <1>2. Queue(ev', woken', Client, Unit) /\ Listeners(ev') = Waiting \ {c}
    BY <1>1, NotifyOneQueue, ClientAssumption
  <1>3. /\ state' \in [Client -> States] /\ Waiting' = Waiting \ {c}
        /\ In("reading")' = In("reading") \cup {c} /\ In("writing")' = In("writing") \ {c}
    BY <1>1, Moved DEF States
  <1>4. c \notin In("reading") /\ In("reading") \subseteq Client /\ In("writing") = {}
    BY <1>1 DEF In, IInv, SharedXorExclusive
  <1>5. SharedXorExclusive'
    BY <1>1, <1>3, <1>4, Counted DEF IInv, SharedXorExclusive
  <1> QED
    BY <1>1, <1>2, <1>3, <1>5 DEF IInv, can_write

\* It writes if it can.
LEMMA AcquireWriteInv ==
    ASSUME IInv, NEW c \in Client, state[c] \notin {"reading", "writing"}, NEW e,
           AcquireWrite(c, e), Queue(e, woken \ {c}, Client, Unit),
           Listeners(e) = Waiting \ {c}
    PROVE  IInv'
  <1>1. /\ ~locked /\ readers = 0 /\ locked' = TRUE /\ readers' = readers
        /\ ev' = NotifyOne(e, Unit) /\ woken' = (woken \ {c}) \cup WokenByOne(e)
        /\ state' = [state EXCEPT ![c] = "writing"]
    BY DEF AcquireWrite, NotifyFrom, can_write
  <1>2. Queue(ev', woken', Client, Unit) /\ Listeners(ev') = Waiting \ {c}
    BY <1>1, NotifyOneQueue, ClientAssumption
  <1>3. /\ state' \in [Client -> States] /\ Waiting' = Waiting \ {c}
        /\ In("reading")' = In("reading") \ {c} /\ In("writing")' = In("writing") \cup {c}
    BY <1>1, Moved DEF States
  <1>4. In("reading") \subseteq Client /\ In("writing") = {} /\ Cardinality(In("reading")) = 0
    BY <1>1 DEF In, IInv, SharedXorExclusive
  <1>5. In("reading") = {}
    BY <1>4, Counted
  <1>6. SharedXorExclusive'
    BY <1>1, <1>3, <1>4, <1>5 DEF SharedXorExclusive
  <1> QED
    BY <1>1, <1>2, <1>3, <1>6 DEF IInv, can_write

\* A client that cannot have its guard joins the queue.
LEMMA EnqueueInv ==
    ASSUME IInv, NEW c \in Client, state[c] \notin {"reading", "writing"}, NEW e,
           NEW s \in {"wait_read", "wait_write"}, Enqueue(c, e, s), ~can_write,
           Queue(e, woken \ {c}, Client, Unit), Listeners(e) = Waiting \ {c}
    PROVE  IInv'
  <1>1. /\ locked' = locked /\ readers' = readers /\ ev' = Park(Listen(e, c), c, c)
        /\ woken' = (woken \ {c}) \ {c} /\ state' = [state EXCEPT ![c] = s]
    BY DEF Enqueue
  <1>2. Queue(ev', woken', Client, Unit) /\ Listeners(ev') = Waiting \cup {c}
    BY <1>1, EnqueueQueue, ClientAssumption
  <1>3. /\ state' \in [Client -> States] /\ Waiting' = Waiting \cup {c}
        /\ In("reading")' = In("reading") \ {c} /\ In("writing")' = In("writing") \ {c}
    BY <1>1, Moved DEF States
  <1>4. c \notin In("reading") /\ c \notin In("writing")
    BY DEF In
  <1>5. SharedXorExclusive' /\ ~can_write'
    BY <1>1, <1>3, <1>4 DEF IInv, SharedXorExclusive, can_write
  <1> QED
    BY <1>1, <1>2, <1>3, <1>5 DEF IInv

\* Either kind of future, run by a client that is not registered.
LEMMA TryInv ==
    ASSUME IInv, NEW c \in Client, state[c] \notin {"reading", "writing"}, NEW e,
           TryRead(c, e) \/ TryWrite(c, e), Queue(e, woken \ {c}, Client, Unit),
           Listeners(e) = Waiting \ {c}
    PROVE  IInv'
  <1>1. ~can_read => ~can_write
    BY DEF can_read, can_write
  <1> QED
    BY <1>1, AcquireReadInv, AcquireWriteInv, EnqueueInv DEF TryRead, TryWrite

\* A guard that goes leaves the lock to a notified waiter.
LEMMA DropGuardInv ==
    ASSUME IInv, NEW c \in Client, DropReadGuard(c) \/ DropWriteGuard(c)
    PROVE  IInv'
  <1>1. /\ state[c] \in {"reading", "writing"} /\ ev' = NotifyOne(ev, Unit)
        /\ woken' = (woken \ {c}) \cup WokenByOne(ev)
        /\ state' = [state EXCEPT ![c] = "idle"]
    BY DEF DropReadGuard, DropWriteGuard, NotifyFrom
  <1>2. /\ Queue(ev, woken, Client, Unit) /\ woken = Notified(ev)
        /\ Notified(ev) \subseteq Waiting /\ Listeners(ev) = Waiting /\ c \notin Waiting
    BY <1>1 DEF IInv, Queue, EventInv, Waiting, In
  <1>3. woken' = woken \cup WokenByOne(ev)
    BY <1>1, <1>2
  <1>4. /\ Queue(ev', woken', Client, Unit) /\ Listeners(ev') = Waiting
        /\ Waiting # {} => Notified(ev') # {}
    BY <1>1, <1>2, <1>3, NotifyOneQueue, ClientAssumption
  <1>5. /\ state' \in [Client -> States] /\ Waiting' = Waiting
        /\ In("reading")' = In("reading") \ {c} /\ In("writing")' = In("writing") \ {c}
    <2>1. Waiting \ {c} = Waiting
      BY <1>2
    <2>2. state' = [state EXCEPT ![c] = "idle"] /\ "idle" \in States
          /\ "idle" \notin {"wait_read", "wait_write"}
      BY <1>1 DEF States
    <2> QED
      BY <2>1, <2>2, Moved DEF States
  <1>6. In("reading") \subseteq Client /\ IsFiniteSet(In("reading")) /\ readers \in Nat
    BY Counted DEF In, IInv
  <1>7. CASE DropReadGuard(c)
    <2>1. /\ readers' = readers - 1 /\ locked' = locked /\ c \in In("reading")
          /\ In("writing") = {} /\ Cardinality(In("reading")) = readers
      BY <1>7 DEF DropReadGuard, In, IInv, SharedXorExclusive
    <2>2. readers' \in Nat /\ SharedXorExclusive'
      BY <1>5, <1>6, <2>1, Counted DEF IInv, SharedXorExclusive
    <2> QED
      BY <1>4, <1>5, <2>1, <2>2 DEF IInv
  <1>8. CASE DropWriteGuard(c)
    <2>1. /\ readers' = readers /\ locked' = FALSE /\ c \in In("writing")
          /\ In("writing") \subseteq {c} /\ In("reading") \subseteq {c} /\ c \notin In("reading")
      BY <1>8 DEF DropWriteGuard, In, IInv, SharedXorExclusive
    <2>2. SharedXorExclusive'
      BY <1>5, <2>1 DEF IInv, SharedXorExclusive
    <2> QED
      BY <1>4, <1>5, <1>6, <2>1, <2>2 DEF IInv
  <1> QED
    BY <1>7, <1>8

\* Every step of a client keeps the invariant.
LEMMA NextInv == IInv /\ [Next]_vars => IInv'
  <1> SUFFICES ASSUME IInv, [Next]_vars PROVE IInv'
    OBVIOUS
  <1>0. /\ Queue(ev, woken, Client, Unit) /\ Listeners(ev) = Waiting
        /\ woken = Notified(ev) /\ Notified(ev) \subseteq Waiting
    BY DEF IInv, Queue, EventInv
  <1>1. ASSUME NEW c \in Client, PollRead(c) \/ PollWrite(c) PROVE IInv'
    <2>1. state[c] = "idle" /\ c \notin Waiting
      BY <1>1 DEF PollRead, PollWrite, Waiting, In
    <2>2. woken \ {c} = woken /\ Waiting \ {c} = Waiting
      BY <1>0, <2>1
    <2> QED
      BY <1>0, <1>1, <2>1, <2>2, TryInv DEF PollRead, PollWrite
  <1>2. ASSUME NEW c \in Client, PollNotified(c) PROVE IInv'
    <2> DEFINE e == DropListener(Consume(ev, c), c)
    <2>1. /\ c \in Notified(ev) /\ state[c] \in {"wait_read", "wait_write"}
          /\ TryRead(c, e) \/ TryWrite(c, e)
      BY <1>2 DEF PollNotified
    <2>2. Queue(e, woken \ {c}, Client, Unit) /\ Listeners(e) = Waiting \ {c}
      BY <1>0, <2>1, ConsumeQueue, ClientAssumption
    <2> HIDE DEF e
    <2> QED
      BY <2>1, <2>2, TryInv
  <1>3. ASSUME NEW c \in Client, DropFuture(c) PROVE IInv'
    <2>1. /\ c \in Waiting /\ ev' = DropListener(ev, c) /\ locked' = locked
          /\ readers' = readers /\ woken' = (woken \ {c}) \cup WokenByDrop(ev, c)
          /\ state' = [state EXCEPT ![c] = "idle"]
      BY <1>3 DEF DropFuture
    <2>2. /\ Queue(ev', woken', Client, Unit) /\ Listeners(ev') = Waiting \ {c}
          /\ Notified(ev) # {} /\ Listeners(ev') # {} => Notified(ev') # {}
      BY <1>0, <2>1, DropQueue, ClientAssumption
    <2>3. /\ state' \in [Client -> States] /\ Waiting' = Waiting \ {c}
          /\ In("reading")' = In("reading") \ {c} /\ In("writing")' = In("writing") \ {c}
      BY <2>1, Moved DEF States
    <2>4. c \notin In("reading") /\ c \notin In("writing")
      BY <2>1 DEF In, Waiting
    <2>5. SharedXorExclusive' /\ can_write' = can_write
      BY <2>1, <2>3, <2>4 DEF IInv, SharedXorExclusive, can_write
    <2> QED
      BY <2>1, <2>2, <2>3, <2>5 DEF IInv
  <1>4. CASE UNCHANGED vars
    BY <1>4 DEF vars, IInv, SharedXorExclusive, can_write, Waiting, In
  <1> QED
    BY <1>1, <1>2, <1>3, <1>4, DropGuardInv DEF Next

\* The inductive invariant holds in every reachable state.
THEOREM RwLockInvariant == Spec => []IInv
  BY InitInv, NextInv, PTL DEF Spec

\* The waiting futures of both kinds are the registered ones, each parked or
\* notified and woken.
THEOREM RwLockTypeCorrect == Spec => []TypeOK
  <1>1. IInv => TypeOK
    <2> SUFFICES ASSUME IInv PROVE TypeOK
      OBVIOUS
    <2>1. Queue(ev, woken, Client, Unit) /\ EventInv(ev, Client, {Unit}, Client)
      BY DEF IInv, Queue
    <2> QED
      BY <2>1 DEF IInv, Queue, EventInv, TypeOK, States
  <1> QED
    BY <1>1, RwLockInvariant, PTL

\* Writers exclude everybody, and the counter and the flag tell the guards.
THEOREM Exclusion == Spec => []SharedXorExclusive
  <1>1. IInv => SharedXorExclusive
    BY DEF IInv
  <1> QED
    BY <1>1, RwLockInvariant, PTL

\* A lock nobody holds has a notified waiter, if it has any.
THEOREM NoWakeupIsLost == Spec => []NoLostWakeup
  <1>1. IInv => NoLostWakeup
    BY DEF IInv, Queue, EventInv, NoLostWakeup
  <1> QED
    BY <1>1, RwLockInvariant, PTL

\* A step of a client changes the guards as the abstract lock does, or not at all.
LEMMA LockStep == IInv /\ [Next]_vars => [L!Next]_Guards
  <1> SUFFICES ASSUME IInv, [Next]_vars PROVE [L!Next]_Guards
    OBVIOUS
  <1>1. state \in [Client -> States] /\ SharedXorExclusive
    BY DEF IInv
  <1>2. ASSUME NEW c \in Client, state[c] \notin {"reading", "writing"},
               NEW s \in {"idle", "wait_read", "wait_write"},
               state' = [state EXCEPT ![c] = s]
        PROVE  Guards' = Guards
    BY <1>1, <1>2 DEF Guards
  <1>3. ASSUME NEW c \in Client, state[c] \notin {"reading", "writing"}, NEW e,
               AcquireRead(c, e)
        PROVE  L!Next
    <2>1. ~locked /\ state' = [state EXCEPT ![c] = "reading"]
      BY <1>3 DEF AcquireRead, can_read
    <2>2. \A d \in Client : state[d] # "writing"
      BY <1>1, <2>1 DEF SharedXorExclusive, In
    <2>3. Guards[c] = "none" /\ \A d \in Client : Guards[d] \in {"none", "read"}
      BY <1>1, <1>3, <2>2 DEF Guards
    <2>4. Guards' = [Guards EXCEPT ![c] = "read"]
      BY <1>1, <2>1 DEF Guards
    <2> QED
      BY <2>3, <2>4 DEF L!Next, L!Acquire
  <1>4. ASSUME NEW c \in Client, state[c] \notin {"reading", "writing"}, NEW e,
               AcquireWrite(c, e)
        PROVE  L!Next
    <2>1. ~locked /\ readers = 0 /\ state' = [state EXCEPT ![c] = "writing"]
      BY <1>4 DEF AcquireWrite, can_write
    <2>2. In("writing") = {} /\ In("reading") \subseteq Client /\ Cardinality(In("reading")) = 0
      BY <2>1, <1>1 DEF SharedXorExclusive, In
    <2>3. In("reading") = {}
      BY <2>2, Counted
    <2>4. \A d \in Client : state[d] # "writing" /\ state[d] # "reading"
      BY <2>2, <2>3 DEF In
    <2>5. \A d \in Client : Guards[d] = "none"
      BY <2>4 DEF Guards
    <2>6. Guards' = [Guards EXCEPT ![c] = "write"]
      BY <1>1, <2>1 DEF Guards
    <2> QED
      BY <2>5, <2>6 DEF L!Next, L!Acquire
  <1>5. ASSUME NEW c \in Client, state[c] \notin {"reading", "writing"}, NEW e,
               TryRead(c, e) \/ TryWrite(c, e)
        PROVE  [L!Next]_Guards
    BY <1>2, <1>3, <1>4, <1>5 DEF TryRead, TryWrite, Enqueue
  <1>6. ASSUME NEW c \in Client, PollRead(c) \/ PollWrite(c) PROVE [L!Next]_Guards
    BY <1>5, <1>6 DEF PollRead, PollWrite
  <1>7. ASSUME NEW c \in Client, PollNotified(c) PROVE [L!Next]_Guards
    <2> DEFINE e == DropListener(Consume(ev, c), c)
    <2>1. state[c] \in {"wait_read", "wait_write"} /\ (TryRead(c, e) \/ TryWrite(c, e))
      BY <1>7 DEF PollNotified
    <2> HIDE DEF e
    <2> QED
      BY <1>5, <2>1
  <1>8. ASSUME NEW c \in Client, DropFuture(c) PROVE Guards' = Guards
    BY <1>2, <1>8 DEF DropFuture, Waiting, In
  <1>9. ASSUME NEW c \in Client, DropReadGuard(c) \/ DropWriteGuard(c) PROVE L!Next
    <2>1. state[c] \in {"reading", "writing"} /\ state' = [state EXCEPT ![c] = "idle"]
      BY <1>9 DEF DropReadGuard, DropWriteGuard
    <2>2. Guards[c] # "none" /\ Guards' = [Guards EXCEPT ![c] = "none"]
      BY <1>1, <2>1 DEF Guards
    <2> QED
      BY <2>2 DEF L!Next, L!Release
  <1>10. CASE UNCHANGED vars
    BY <1>10 DEF vars, Guards
  <1> QED
    BY <1>6, <1>7, <1>8, <1>9, <1>10 DEF Next

\* The reader-writer lock implements the abstract lock.
THEOREM RwLockIsLock == Spec => ImplementsLock
  <1>1. Init => L!Init
    BY DEF Init, L!Init, Guards
  <1> QED
    BY <1>1, LockStep, RwLockInvariant, PTL DEF Spec, ImplementsLock, L!Spec
=============================================================================
