--------------------------- MODULE ExecutorProofs ---------------------------
(***************************************************************************)
(* The executor's queue, its slots and the sleep of its event loop, for    *)
(* any threads, any number of tasks and any depth of nested calls.         *)
(*                                                                         *)
(* A queue entry of a task is in one of three places: the inbox, a batch   *)
(* that a process_tasks call has drained, or the hands of a thread that    *)
(* has set QUEUED and not pushed yet.  Once says that no task is in two of *)
(* them; Marked and MarkTold that QUEUED tells which tasks are; WakeTold   *)
(* that a woken task is in one of them.  Each is inductive only together   *)
(* with the others: a thread may make an entry because QUEUED was clear    *)
(* (Marked) and may drop a wake-up because it was set (MarkTold), and run  *)
(* clears QUEUED for an entry that was the only one (Once).  Slots does    *)
(* the same for the futures: a task is polled by one call at a time,       *)
(* because its slot is empty meanwhile.                                    *)
(*                                                                         *)
(* The lemmas come in four groups: sequences; the shape of the state       *)
(* (Shape, Named); the queue (Told); the slots (Slots).  In each group a   *)
(* step is reduced to what it does to that part of the state.              *)
(*                                                                         *)
(* Three things follow from them: the executor's end (Kept), RunQueue,     *)
(* and the order in which tasks run.                                       *)
(***************************************************************************)
EXTENDS Executor, SequenceTheorems, TLAPS

\* A sequence without repetitions keeps none when a new element is appended.
LEMMA AppendOnce ==
    ASSUME NEW S, NEW s \in Seq(S), NEW x \in S
    PROVE  /\ Append(s, x) \in Seq(S)
           /\ Range(Append(s, x)) = Range(s) \cup {x}
           /\ IsInjective(s) /\ x \notin Range(s) => IsInjective(Append(s, x))
  <1> DEFINE a == Append(s, x)
  <1>1. /\ a \in Seq(S) /\ Len(a) = Len(s) + 1
        /\ \A i \in 1 .. Len(s) : a[i] = s[i]
        /\ a[Len(s) + 1] = x
    BY AppendProperties
  <1>2. /\ DOMAIN s = 1 .. Len(s) /\ Len(s) \in Nat
        /\ DOMAIN a = 1 .. Len(s) + 1
    BY <1>1, LenProperties
  <1> HIDE DEF a
  <1>3. Range(a) = Range(s) \cup {x}
    <2>1. ASSUME NEW i \in DOMAIN a PROVE a[i] \in Range(s) \cup {x}
      BY <1>1, <1>2 DEF Range
    <2>2. ASSUME NEW i \in DOMAIN s PROVE s[i] \in Range(a)
      BY <1>1, <1>2 DEF Range
    <2>3. x \in Range(a)
      BY <1>1, <1>2 DEF Range
    <2> QED
      BY <2>1, <2>2, <2>3 DEF Range
  <1>4. IsInjective(s) /\ x \notin Range(s) => IsInjective(a)
    BY <1>1, <1>2 DEF IsInjective, Range
  <1> QED
    BY <1>1, <1>3, <1>4 DEF a

\* The two parts of a sequence without repetitions share nothing.
LEMMA SplitOnce ==
    ASSUME NEW S, NEW s \in Seq(S), NEW n \in 1 .. Len(s)
    PROVE  LET p == SubSeq(s, 1, n)
               q == SubSeq(s, n + 1, Len(s))
           IN  /\ p \in Seq(S) /\ q \in Seq(S)
               /\ Range(p) \cup Range(q) = Range(s)
               /\ IsInjective(s) =>
                    IsInjective(p) /\ IsInjective(q) /\ Range(p) \cap Range(q) = {}
  <1> DEFINE p == SubSeq(s, 1, n)
             q == SubSeq(s, n + 1, Len(s))
  <1>1. Len(s) \in Nat /\ DOMAIN s = 1 .. Len(s) /\ n \in Nat /\ n <= Len(s) /\ 1 <= n
    BY LenProperties
  <1>2. \A i \in 1 .. Len(s) : s[i] \in S
    BY ElementOfSeq
  <1>3. p \in Seq(S) /\ Len(p) = n /\ \A i \in 1 .. n : p[i] = s[i]
    BY <1>1, <1>2, SubSeqProperties
  <1>4. q \in Seq(S) /\ Len(q) = Len(s) - n /\ \A i \in 1 .. Len(s) - n : q[i] = s[n + i]
    <2>1. /\ q \in Seq(S)
          /\ Len(q) = IF n + 1 <= Len(s) THEN Len(s) - (n + 1) + 1 ELSE 0
          /\ \A i \in 1 .. Len(s) - (n + 1) + 1 : q[i] = s[n + 1 + i - 1]
      BY <1>1, <1>2, SubSeqProperties
    <2> HIDE DEF q
    <2>2. Len(q) = Len(s) - n
      <3>1. CASE n + 1 <= Len(s)
        <4>1. Len(q) = Len(s) - (n + 1) + 1
          BY <2>1, <3>1
        <4> QED
          BY <1>1, <4>1
      <3>2. CASE ~(n + 1 <= Len(s))
        <4>1. Len(q) = 0
          BY <2>1, <3>2
        <4>2. \A a, b \in Nat : b <= a /\ ~(b + 1 <= a) => a = b
          OBVIOUS
        <4>3. Len(s) = n
          BY <1>1, <3>2, <4>2
        <4> QED
          BY <1>1, <4>1, <4>3
      <3> QED
        BY <3>1, <3>2
    <2>3. ASSUME NEW i \in 1 .. Len(s) - n PROVE q[i] = s[n + i]
      <3>1. i \in 1 .. Len(s) - (n + 1) + 1 /\ n + 1 + i - 1 = n + i
        BY <1>1
      <3> QED
        BY <2>1, <3>1
    <2> QED
      BY <2>1, <2>2, <2>3
  <1>5. DOMAIN p = 1 .. n /\ DOMAIN q = 1 .. Len(s) - n
    BY <1>3, <1>4, LenProperties
  <1> HIDE DEF p, q
  <1>6. Range(p) \cup Range(q) = Range(s)
    <2>1. ASSUME NEW i \in DOMAIN s PROVE s[i] \in Range(p) \cup Range(q)
      <3>1. CASE i <= n
        BY <1>1, <1>3, <1>5, <3>1 DEF Range
      <3>2. CASE ~(i <= n)
        <4>1. i - n \in 1 .. Len(s) - n /\ n + (i - n) = i
          BY <1>1, <3>2
        <4>2. q[i - n] = s[i]
          BY <1>4, <4>1
        <4> QED
          BY <1>5, <4>1, <4>2 DEF Range
      <3> QED
        BY <3>1, <3>2
    <2>2. ASSUME NEW i \in DOMAIN p PROVE p[i] \in Range(s)
      BY <1>1, <1>3, <1>5 DEF Range
    <2>3. ASSUME NEW i \in DOMAIN q PROVE q[i] \in Range(s)
      <3>1. n + i \in 1 .. Len(s)
        BY <1>1, <1>5
      <3> QED
        BY <1>1, <1>4, <1>5, <3>1 DEF Range
    <2> QED
      BY <2>1, <2>2, <2>3 DEF Range
  <1>7. ASSUME IsInjective(s)
        PROVE  IsInjective(p) /\ IsInjective(q) /\ Range(p) \cap Range(q) = {}
    <2>1. IsInjective(p)
      BY <1>1, <1>3, <1>5, <1>7 DEF IsInjective
    <2>2. ASSUME NEW i \in DOMAIN q, NEW j \in DOMAIN q, q[i] = q[j] PROVE i = j
      <3>1. n + i \in 1 .. Len(s) /\ n + j \in 1 .. Len(s) /\ i \in Nat /\ j \in Nat
        BY <1>1, <1>5
      <3>2. s[n + i] = s[n + j]
        BY <1>4, <1>5, <2>2
      <3>3. n + i = n + j
        BY <1>1, <1>7, <3>1, <3>2 DEF IsInjective
      <3> QED
        BY <1>1, <3>1, <3>3
    <2>3. ASSUME NEW i \in DOMAIN p, NEW j \in DOMAIN q PROVE p[i] # q[j]
      <3>1. i \in 1 .. Len(s) /\ n + j \in 1 .. Len(s) /\ i # n + j
        BY <1>1, <1>5
      <3>2. s[i] # s[n + j]
        BY <1>1, <1>7, <3>1 DEF IsInjective
      <3> QED
        BY <1>3, <1>4, <1>5, <3>2
    <2> QED
      BY <2>1, <2>2, <2>3 DEF IsInjective, Range
  <1> QED
    BY <1>3, <1>4, <1>6, <1>7 DEF p, q

\* The tail of a sequence without repetitions has all its elements but the head.
LEMMA TailOnce ==
    ASSUME NEW S, NEW s \in Seq(S), s # <<>>
    PROVE  /\ Tail(s) \in Seq(S) /\ Head(s) \in S
           /\ Range(s) = Range(Tail(s)) \cup {Head(s)}
           /\ IsInjective(s) => IsInjective(Tail(s)) /\ Head(s) \notin Range(Tail(s))
  <1> DEFINE t == Tail(s)
  <1>1. /\ Head(s) \in S /\ Head(s) = s[1]
        /\ t \in Seq(S) /\ Len(t) = Len(s) - 1
        /\ \A i \in 1 .. Len(t) : t[i] = s[i + 1]
    BY HeadTailProperties
  <1>2. /\ Len(s) \in Nat /\ Len(s) > 0
        /\ DOMAIN s = 1 .. Len(s) /\ DOMAIN t = 1 .. Len(s) - 1
    <2>1. /\ Len(s) \in Nat /\ DOMAIN s = 1 .. Len(s) /\ DOMAIN t = 1 .. Len(t)
      BY <1>1, LenProperties
    <2>2. Len(s) # 0
      BY EmptySeq
    <2> QED
      BY <1>1, <2>1, <2>2
  <1>3. \A i \in 1 .. Len(s) - 1 : t[i] = s[i + 1] /\ i + 1 \in DOMAIN s
    BY <1>1, <1>2
  <1> HIDE DEF t
  <1>4. Range(s) = Range(t) \cup {Head(s)}
    <2>1. ASSUME NEW i \in DOMAIN s PROVE s[i] \in Range(t) \cup {Head(s)}
      <3>1. CASE i = 1
        BY <1>1, <3>1
      <3>2. CASE i # 1
        <4>1. i - 1 \in DOMAIN t /\ (i - 1) + 1 = i
          BY <1>2, <3>2
        <4>2. t[i - 1] = s[i]
          BY <1>2, <1>3, <4>1
        <4> QED
          BY <4>1, <4>2 DEF Range
      <3> QED
        BY <3>1, <3>2
    <2>2. ASSUME NEW i \in DOMAIN t PROVE t[i] \in Range(s)
      BY <1>2, <1>3 DEF Range
    <2>3. Head(s) \in Range(s)
      BY <1>1, <1>2 DEF Range
    <2> QED
      BY <2>1, <2>2, <2>3 DEF Range
  <1>5. ASSUME IsInjective(s)
        PROVE  IsInjective(t) /\ Head(s) \notin Range(t)
    <2>1. ASSUME NEW i \in DOMAIN t, NEW j \in DOMAIN t, t[i] = t[j] PROVE i = j
      <3>1. i + 1 = j + 1
        BY <1>2, <1>3, <1>5, <2>1 DEF IsInjective
      <3> QED
        BY <1>2, <3>1
    <2>2. ASSUME NEW i \in DOMAIN t PROVE t[i] # s[1]
      <3>1. i + 1 # 1 /\ 1 \in DOMAIN s
        BY <1>2
      <3> QED
        BY <1>2, <1>3, <1>5, <3>1 DEF IsInjective
    <2> QED
      BY <1>1, <2>1, <2>2 DEF IsInjective, Range
  <1> QED
    BY <1>1, <1>4, <1>5 DEF t

\* A sequence whose last element is replaced.
LEMMA ReplaceLast ==
    ASSUME NEW S, NEW s \in Seq(S), s # <<>>, NEW f \in S
    PROVE  LET r == [s EXCEPT ![Len(s)] = f]
           IN  /\ r \in Seq(S) /\ r # <<>> /\ Len(r) = Len(s)
               /\ DOMAIN r = DOMAIN s /\ Len(s) \in DOMAIN s
               /\ r[Len(s)] = f
               /\ \A d \in DOMAIN s \ {Len(s)} : r[d] = s[d]
  <1> DEFINE r == [s EXCEPT ![Len(s)] = f]
  <1>1. Len(s) \in Nat /\ DOMAIN s = 1 .. Len(s) /\ Len(s) # 0
    BY LenProperties, EmptySeq
  <1>2. Len(s) \in 1 .. Len(s)
    BY <1>1
  <1>3. /\ r \in Seq(S) /\ Len(r) = Len(s)
        /\ \A j \in 1 .. Len(s) : r[j] = IF j = Len(s) THEN f ELSE s[j]
    BY <1>2, ExceptSeq
  <1> HIDE DEF r
  <1>4. DOMAIN r = 1 .. Len(s) /\ r # <<>>
    BY <1>1, <1>3, LenProperties, EmptySeq
  <1> QED
    BY <1>1, <1>2, <1>3, <1>4 DEF r

\* A sequence without its last element.
LEMMA DropLast ==
    ASSUME NEW S, NEW s \in Seq(S), s # <<>>
    PROVE  /\ Front(s) \in Seq(S) /\ Len(s) \in DOMAIN s
           /\ DOMAIN Front(s) = DOMAIN s \ {Len(s)}
           /\ \A d \in DOMAIN Front(s) : Front(s)[d] = s[d]
  <1> DEFINE n == Len(s) - 1
             r == SubSeq(s, 1, n)
  <1>1. Len(s) \in Nat /\ DOMAIN s = 1 .. Len(s) /\ Len(s) # 0
    BY LenProperties, EmptySeq
  <1>2. n \in Nat /\ \A i \in 1 .. n : i \in 1 .. Len(s) /\ 1 + i - 1 = i
    BY <1>1
  <1>3. \A i \in 1 .. n : s[i] \in S
    BY <1>1, <1>2, ElementOfSeq
  <1> HIDE DEF n
  <1>4. /\ r \in Seq(S) /\ Len(r) = IF 1 <= n THEN n - 1 + 1 ELSE 0
        /\ \A i \in 1 .. n - 1 + 1 : r[i] = s[1 + i - 1]
    BY <1>2, <1>3, SubSeqProperties
  <1> HIDE DEF r
  <1>5. Len(r) = n /\ \A i \in 1 .. n : r[i] = s[i]
    BY <1>2, <1>4
  <1>6. DOMAIN r = 1 .. n
    BY <1>4, <1>5, LenProperties
  <1>7. 1 .. n = 1 .. Len(s) \ {Len(s)} /\ Len(s) \in 1 .. Len(s)
    BY <1>1 DEF n
  <1>8. Front(s) = r
    BY DEF Front, r, n
  <1> QED
    BY <1>1, <1>4, <1>5, <1>6, <1>7, <1>8

\* A sequence with one more element.
LEMMA AddLast ==
    ASSUME NEW S, NEW s \in Seq(S), NEW f \in S
    PROVE  LET r == Append(s, f)
           IN  /\ r \in Seq(S) /\ r # <<>> /\ Len(r) = Len(s) + 1
               /\ DOMAIN r = DOMAIN s \cup {Len(r)} /\ Len(r) \notin DOMAIN s
               /\ r[Len(r)] = f
               /\ \A d \in DOMAIN s : r[d] = s[d]
  <1> DEFINE r == Append(s, f)
  <1>1. Len(s) \in Nat /\ DOMAIN s = 1 .. Len(s)
    BY LenProperties
  <1>2. /\ r \in Seq(S) /\ Len(r) = Len(s) + 1 /\ r[Len(s) + 1] = f
        /\ \A i \in 1 .. Len(s) : r[i] = s[i]
    BY AppendProperties
  <1> HIDE DEF r
  <1>3. DOMAIN r = 1 .. Len(s) + 1 /\ r # <<>>
    BY <1>1, <1>2, LenProperties, EmptySeq
  <1> QED
    BY <1>1, <1>2, <1>3 DEF r
-----------------------------------------------------------------------------
\* The tasks that a process_tasks call at depth d still has to run, and a thread
\* between the two steps that make a queue entry of t.
Held(d) == Range(stack[d].batch)
Pushing(th, t) == call[th].pc = "push" /\ call[th].task = t

Queued(t) ==
    \/ t \in Range(inbox)
    \/ \E d \in DOMAIN stack : t \in Held(d)
    \/ \E th \in Threads : Pushing(th, t)

\* No task is in two of these places, or twice in one.
Once ==
    /\ IsInjective(inbox)
    /\ \A d \in DOMAIN stack : IsInjective(stack[d].batch) /\ Held(d) \cap Range(inbox) = {}
    /\ \A d, e \in DOMAIN stack : d # e => Held(d) \cap Held(e) = {}
    /\ \A th \in Threads, t \in Task : Pushing(th, t) =>
           t \notin Range(inbox) /\ \A d \in DOMAIN stack : t \notin Held(d)
    /\ \A x, y \in Threads, t \in Task : Pushing(x, t) /\ Pushing(y, t) => x = y

\* QUEUED tells exactly which tasks have an entry, up to the finished ones.
Marked == \A t \in Task : Queued(t) => "QUEUED" \in flags[t]
MarkTold == ~closed => \A t \in Task : "QUEUED" \in flags[t] /\ ~Finished(t) => Queued(t)
WakeTold == \A t \in owed \ skipped : ~Finished(t) /\ ~closed => Waking(t) \/ Queued(t)

Told == Once /\ Marked /\ MarkTold /\ WakeTold

Shape ==
    /\ flags \in [Task -> SUBSET Flag]
    /\ slot \in [Task -> {"absent", "idle", "taken"}]
    /\ nextId \in 0 .. MaxTasks
    /\ handles \cup known \cup owed \cup skipped \cup Range(inbox) \subseteq Spawned
    /\ inbox \in Seq(Task)
    /\ closed = (loop \in {"closing", "canceling", "gone"})
    /\ stack \in Seq(FrameType)
    /\ call \in [Threads -> [pc : {"idle", "check", "mark", "push", "notify"},
                            task : Task \cup {NoTask}]]
    /\ loop \in {"awake", "asleep", "closing", "canceling", "gone", "panicked"}
    /\ signal \in BOOLEAN
    /\ budget \in 0 .. OpsPerPoll

\* Whoever names a task names a spawned one; the others are untouched.
Named ==
    /\ \A th \in Threads : call[th].pc # "idle" => call[th].task \in Spawned
    /\ \A d \in DOMAIN stack :
           Held(d) \subseteq Spawned /\ (stack[d].phase # "next" => stack[d].task \in Spawned)
    /\ \A t \in Task \ Spawned : flags[t] = {} /\ slot[t] = "absent"

Polled(d, t) == stack[d].phase = "poll" /\ stack[d].task = t

\* A future that is out of its slot is polled, by one call only.
Slots ==
    /\ \A t \in Task :
        /\ slot[t] = "taken" <=> ~Finished(t) /\ \E d \in DOMAIN stack : Polled(d, t)
        /\ Finished(t) => slot[t] = "absent"
    /\ \A d, e \in DOMAIN stack, t \in Task : Polled(d, t) /\ Polled(e, t) /\ ~Finished(t) => d = e
    /\ loop = "gone" => \A t \in Task : slot[t] = "absent"

IInv == Shape /\ Named /\ Told /\ Slots /\ NoSleepOnWork
-----------------------------------------------------------------------------
\* Every frame of the stack is a frame.
LEMMA FrameShape ==
    ASSUME Shape, NEW d \in DOMAIN stack
    PROVE  /\ stack[d] \in FrameType
           /\ stack[d].batch \in Seq(Task)
           /\ stack[d].task \in Task \cup {NoTask}
           /\ stack[d].phase \in {"next", "poll", "drop"}
  <1>1. stack \in Seq(FrameType) /\ DOMAIN stack = 1 .. Len(stack)
    BY LenProperties DEF Shape
  <1>2. stack[d] \in FrameType
    BY <1>1, ElementOfSeq
  <1> QED
    BY <1>2 DEF FrameType

\* The innermost call.
LEMMA TopShape ==
    ASSUME Shape, stack # <<>>
    PROVE  /\ Len(stack) \in DOMAIN stack
           /\ Top \in FrameType
           /\ Top.batch \in Seq(Task)
           /\ Top.task \in Task \cup {NoTask}
           /\ Phase = Top.phase
  <1>1. stack \in Seq(FrameType)
    BY DEF Shape
  <1>2. Len(stack) \in Nat /\ DOMAIN stack = 1 .. Len(stack) /\ Len(stack) # 0
    BY <1>1, LenProperties, EmptySeq
  <1>3. Len(stack) \in DOMAIN stack
    BY <1>2
  <1> QED
    BY <1>3, FrameShape DEF Top, Phase

\* The innermost frame is replaced.
LEMMA ReplaceTop ==
    ASSUME Shape, stack # <<>>, NEW f \in FrameType, stack' = Replace(f)
    PROVE  /\ stack' \in Seq(FrameType)
           /\ DOMAIN stack' = DOMAIN stack /\ Len(stack) \in DOMAIN stack
           /\ stack'[Len(stack)] = f
           /\ \A d \in DOMAIN stack \ {Len(stack)} : stack'[d] = stack[d]
  <1>1. stack \in Seq(FrameType)
    BY DEF Shape
  <1> QED
    BY <1>1, ReplaceLast DEF Replace

\* The frame that is left when the first entry of the innermost batch is used.
LEMMA HeadUsed ==
    ASSUME Shape, RunStep
    PROVE  LET t == Head(Top.batch)
               used == [Top EXCEPT !.batch = Tail(@)]
               polled == [Top EXCEPT !.batch = Tail(@), !.task = t, !.phase = "poll"]
           IN  /\ stack # <<>>
               /\ t \in Task /\ t \in Held(Len(stack))
               /\ used \in FrameType /\ used.batch = Tail(Top.batch)
               /\ used.phase = Top.phase /\ used.task = Top.task
               /\ polled \in FrameType /\ polled.batch = Tail(Top.batch)
               /\ polled.phase = "poll" /\ polled.task = t
  <1>1. stack # <<>> /\ Top.batch # <<>>
    BY DEF RunStep, Phase
  <1>2. Top \in FrameType /\ Top.batch \in Seq(Task)
    BY <1>1, TopShape
  <1>3. /\ Head(Top.batch) \in Task /\ Tail(Top.batch) \in Seq(Task)
        /\ Head(Top.batch) \in Range(Top.batch)
    BY <1>1, <1>2, TailOnce
  <1>4. Head(Top.batch) \in Held(Len(stack))
    BY <1>3 DEF Held, Top
  <1> QED
    BY <1>1, <1>2, <1>3, <1>4 DEF FrameType

\* Spawned tasks are tasks.
LEMMA SpawnedTasks ==
    ASSUME Shape
    PROVE  nextId \in Nat /\ Spawned \subseteq Task /\ Main \in Threads
  BY BoundsAssumption DEF Shape, Spawned, Task, Threads

\* Steps that leave the queue, the stack and the number of tasks alone.
LEMMA QuietShape ==
    ASSUME Shape, Named, UNCHANGED <<inbox, stack, nextId>>,
           flags' \in [Task -> SUBSET Flag],
           slot' \in [Task -> {"absent", "idle", "taken"}],
           handles' \cup known' \cup owed' \cup skipped' \subseteq Spawned,
           closed' = (loop' \in {"closing", "canceling", "gone"}),
           call' \in [Threads -> [pc : {"idle", "check", "mark", "push", "notify"},
                                 task : Task \cup {NoTask}]],
           loop' \in {"awake", "asleep", "closing", "canceling", "gone", "panicked"},
           signal' \in BOOLEAN, budget' \in 0 .. OpsPerPoll,
           \A th \in Threads : call'[th].pc # "idle" => call'[th].task \in Spawned,
           \A t \in Task \ Spawned : flags'[t] = {} /\ slot'[t] = "absent"
    PROVE  Shape' /\ Named'
  <1>1. Spawned' = Spawned /\ \A d \in DOMAIN stack : Held(d)' = Held(d)
    BY DEF Spawned, Held
  <1>2. Shape'
    BY <1>1 DEF Shape
  <1>3. Named'
    BY <1>1 DEF Named
  <1> QED
    BY <1>2, <1>3

\* Steps of a thread in schedule().
LEMMA ScheduleShape ==
    ASSUME Shape, Named, NEW th \in Threads, Schedule(th)
    PROVE  Shape' /\ Named'
  <1> DEFINE pcs == {"idle", "check", "mark", "push", "notify"}
             Calls == [Threads -> [pc : pcs, task : Task \cup {NoTask}]]
  <1>0. /\ call \in Calls /\ Spawned \subseteq Task
        /\ \A x \in Threads : call[x].pc # "idle" => call[x].task \in Spawned
    BY SpawnedTasks DEF Shape, Named
  <1>1. CASE CheckOpen(th)
    <2>1. /\ call' \in Calls
          /\ \A x \in Threads : call'[x].pc # "idle" => call'[x].task \in Spawned
      BY <1>0, <1>1 DEF CheckOpen, Idle
    <2> QED
      BY <1>1, <2>1, QuietShape DEF CheckOpen, Shape, Named
  <1>2. CASE SetQueued(th)
    <2>1. /\ call' \in Calls
          /\ \A x \in Threads : call'[x].pc # "idle" => call'[x].task \in Spawned
      BY <1>0, <1>2 DEF SetQueued, Idle
    <2>2. call[th].task \in Spawned
      BY <1>0, <1>2 DEF SetQueued
    <2>3. /\ flags' \in [Task -> SUBSET Flag]
          /\ \A t \in Task \ Spawned : flags'[t] = {} /\ slot'[t] = "absent"
      BY <1>2, <2>2 DEF SetQueued, Shape, Named, Flag
    <2> QED
      BY <1>2, <2>1, <2>3, QuietShape DEF SetQueued, Shape, Named
  <1>3. CASE PushInbox(th)
    <2>1. /\ call' \in Calls
          /\ \A x \in Threads : call'[x].pc # "idle" => call'[x].task \in Spawned
      BY <1>0, <1>3 DEF PushInbox
    <2>2. call[th].task \in Spawned /\ call[th].task \in Task /\ inbox \in Seq(Task)
      BY <1>0, <1>3 DEF PushInbox, Shape
    <2>3. inbox' \in Seq(Task) /\ Range(inbox') = Range(inbox) \cup {call[th].task}
      BY <1>3, <2>2, AppendOnce DEF PushInbox
    <2>4. Spawned' = Spawned /\ stack' = stack /\ \A d \in DOMAIN stack : Held(d)' = Held(d)
      BY <1>3 DEF PushInbox, Spawned, Held
    <2>5. Shape'
      BY <1>3, <2>1, <2>2, <2>3, <2>4 DEF PushInbox, Shape
    <2>6. Named'
      BY <1>3, <2>1, <2>4 DEF PushInbox, Named
    <2> QED
      BY <2>5, <2>6
  <1>4. CASE NotifyLoop(th)
    <2>1. /\ call' \in Calls
          /\ \A x \in Threads : call'[x].pc # "idle" => call'[x].task \in Spawned
      BY <1>0, <1>4 DEF NotifyLoop, Idle
    <2> QED
      BY <1>4, <2>1, QuietShape DEF NotifyLoop, Shape, Named
  <1> QED
    BY <1>1, <1>2, <1>3, <1>4 DEF Schedule

\* The frames that block_on and process_tasks enter.
LEMMA BlockOnFrame ==
    ASSUME NEW t \in Task
    PROVE  LET f == Frame("block_on", t, <<>>)
           IN  f \in FrameType /\ f.phase = "next" /\ f.batch = <<>>
  <1>1. <<>> \in Seq(Task)
    BY EmptySeq
  <1> QED
    BY <1>1 DEF FrameType, Frame

LEMMA ProcessFrame ==
    ASSUME Shape, NEW n \in 1 .. Len(inbox)
    PROVE  LET f == Frame("process_tasks", NoTask, SubSeq(inbox, 1, n))
           IN  f \in FrameType /\ f.phase = "next" /\ f.batch = SubSeq(inbox, 1, n)
  <1>1. inbox \in Seq(Task)
    BY DEF Shape
  <1>2. SubSeq(inbox, 1, n) \in Seq(Task)
    BY <1>1, SplitOnce
  <1> QED
    BY <1>2 DEF FrameType, Frame

\* A new frame whose batch holds spawned tasks.
LEMMA PushFrame ==
    ASSUME Shape, Named, NEW f \in FrameType, stack' = Append(stack, f),
           f.phase = "next", Range(f.batch) \subseteq Spawned'  , Spawned \subseteq Spawned'
    PROVE  /\ stack' \in Seq(FrameType) /\ stack' # <<>>
           /\ DOMAIN stack' = DOMAIN stack \cup {Len(stack')} /\ Len(stack') \notin DOMAIN stack
           /\ stack'[Len(stack')] = f
           /\ \A d \in DOMAIN stack : stack'[d] = stack[d]
           /\ \A d \in DOMAIN stack' :
                 Held(d)' \subseteq Spawned' /\ (stack'[d].phase # "next" => stack'[d].task \in Spawned')
  <1>1. stack \in Seq(FrameType)
    BY DEF Shape
  <1>2. /\ stack' \in Seq(FrameType) /\ stack' # <<>>
        /\ DOMAIN stack' = DOMAIN stack \cup {Len(stack')} /\ Len(stack') \notin DOMAIN stack
        /\ stack'[Len(stack')] = f
        /\ \A d \in DOMAIN stack : stack'[d] = stack[d]
    BY <1>1, AddLast
  <1>3. ASSUME NEW d \in DOMAIN stack'
        PROVE  Held(d)' \subseteq Spawned' /\ (stack'[d].phase # "next" => stack'[d].task \in Spawned')
    BY <1>2 DEF Named, Held
  <1> QED
    BY <1>2, <1>3

\* A new innermost frame in place of the old one.
LEMMA SwapFrame ==
    ASSUME Shape, Named, stack # <<>>, NEW f \in FrameType, stack' = Replace(f), nextId' = nextId,
           Range(f.batch) \subseteq Spawned, f.phase # "next" => f.task \in Spawned
    PROVE  /\ Spawned' = Spawned
           /\ stack' \in Seq(FrameType)
           /\ \A d \in DOMAIN stack' :
                 Held(d)' \subseteq Spawned' /\ (stack'[d].phase # "next" => stack'[d].task \in Spawned')
  <1>1. /\ stack' \in Seq(FrameType)
        /\ DOMAIN stack' = DOMAIN stack /\ Len(stack) \in DOMAIN stack
        /\ stack'[Len(stack)] = f
        /\ \A d \in DOMAIN stack \ {Len(stack)} : stack'[d] = stack[d]
    BY ReplaceTop
  <1>2. Spawned' = Spawned
    BY DEF Spawned
  <1>3. ASSUME NEW d \in DOMAIN stack'
        PROVE  Held(d)' \subseteq Spawned' /\ (stack'[d].phase # "next" => stack'[d].task \in Spawned')
    BY <1>1, <1>2 DEF Named, Held
  <1> QED
    BY <1>1, <1>2, <1>3

\* A new task.
LEMMA EnterShape ==
    ASSUME Shape, Named, NEW t \in Task, Enter(t)
    PROVE  /\ t \notin Spawned /\ Spawned' = Spawned \cup {t}
           /\ nextId' \in 0 .. MaxTasks
           /\ slot' \in [Task -> {"absent", "idle", "taken"}]
           /\ call' \in [Threads -> [pc : {"idle", "check", "mark", "push", "notify"},
                                     task : Task \cup {NoTask}]]
           /\ \A th \in Threads : call'[th].pc # "idle" => call'[th].task \in Spawned'
           /\ \A u \in Task \ Spawned' : slot'[u] = "absent"
  <1>1. nextId \in Nat /\ t = nextId /\ nextId' = nextId + 1 /\ Main \in Threads
    BY SpawnedTasks DEF Enter
  <1>2. t \notin Spawned /\ Spawned' = Spawned \cup {t}
    BY <1>1 DEF Spawned
  <1>3. nextId' \in 0 .. MaxTasks
    BY <1>1, BoundsAssumption DEF Enter, Shape
  <1>4. slot' \in [Task -> {"absent", "idle", "taken"}]
    BY DEF Enter, Shape
  <1>5. /\ call' \in [Threads -> [pc : {"idle", "check", "mark", "push", "notify"},
                                  task : Task \cup {NoTask}]]
        /\ \A th \in Threads : call'[th].pc # "idle" => call'[th].task \in Spawned'
    BY <1>1, <1>2 DEF Enter, Shape, Named
  <1>6. \A u \in Task \ Spawned' : slot'[u] = "absent"
    BY <1>2 DEF Enter, Shape, Named
  <1> QED
    BY <1>2, <1>3, <1>4, <1>5, <1>6

\* spawn_local.
LEMMA SpawnShape ==
    ASSUME Shape, Named, NEW t \in Task, Spawn(t)
    PROVE  Shape' /\ Named'
  <1>1. Enter(t) /\ UNCHANGED <<flags, inbox, closed, stack, loop, signal, known, skipped>>
    BY DEF Spawn
  <1>2. /\ t \notin Spawned /\ Spawned' = Spawned \cup {t}
        /\ nextId' \in 0 .. MaxTasks
        /\ slot' \in [Task -> {"absent", "idle", "taken"}]
        /\ call' \in [Threads -> [pc : {"idle", "check", "mark", "push", "notify"},
                                  task : Task \cup {NoTask}]]
        /\ \A th \in Threads : call'[th].pc # "idle" => call'[th].task \in Spawned'
        /\ \A u \in Task \ Spawned' : slot'[u] = "absent"
    BY <1>1, EnterShape
  <1>3. \A d \in DOMAIN stack : Held(d)' = Held(d)
    BY <1>1 DEF Held
  <1>4. budget' \in 0 .. OpsPerPoll
    BY BoundsAssumption DEF Spawn, CanCall, Shape
  <1>5. owed' = owed \cup {t} /\ handles' = handles \cup {t}
    BY DEF Spawn, Enter
  <1>6. Shape'
    BY <1>1, <1>2, <1>4, <1>5 DEF Shape
  <1>7. Named'
    BY <1>1, <1>2, <1>3 DEF Named
  <1> QED
    BY <1>6, <1>7

\* block_on spawns its future and begins to drain.
LEMMA BlockOnShape ==
    ASSUME Shape, Named, NEW t \in Task, BlockOn(t)
    PROVE  Shape' /\ Named'
  <1> DEFINE f == Frame("block_on", t, <<>>)
  <1>1. /\ Enter(t) /\ stack' = Append(stack, f)
        /\ UNCHANGED <<flags, handles, inbox, closed, loop, signal, budget, known, skipped>>
    BY DEF BlockOn
  <1>2. /\ t \notin Spawned /\ Spawned' = Spawned \cup {t}
        /\ nextId' \in 0 .. MaxTasks
        /\ slot' \in [Task -> {"absent", "idle", "taken"}]
        /\ call' \in [Threads -> [pc : {"idle", "check", "mark", "push", "notify"},
                                  task : Task \cup {NoTask}]]
        /\ \A th \in Threads : call'[th].pc # "idle" => call'[th].task \in Spawned'
        /\ \A u \in Task \ Spawned' : slot'[u] = "absent"
    BY <1>1, EnterShape
  <1>3. f \in FrameType /\ f.phase = "next" /\ f.batch = <<>> /\ Range(f.batch) = {}
    <2>1. <<>> \in Seq(Task) /\ Range(<<>>) = {}
      BY EmptySeq DEF Range
    <2> QED
      BY <2>1 DEF FrameType, Frame
  <1> HIDE DEF f
  <1>4. /\ stack' \in Seq(FrameType)
        /\ \A d \in DOMAIN stack' :
              Held(d)' \subseteq Spawned' /\ (stack'[d].phase # "next" => stack'[d].task \in Spawned')
    BY <1>1, <1>2, <1>3, PushFrame
  <1>5. owed' = owed \cup {t}
    BY <1>1 DEF Enter
  <1>6. Shape'
    BY <1>1, <1>2, <1>4, <1>5 DEF Shape
  <1>7. Named'
    BY <1>1, <1>2, <1>4 DEF Named
  <1> QED
    BY <1>6, <1>7

\* process_tasks(n) splits the inbox.
LEMMA ProcessShape ==
    ASSUME Shape, Named, NEW n \in 1 .. Len(inbox), ProcessTasks(n)
    PROVE  Shape' /\ Named'
  <1> DEFINE p == SubSeq(inbox, 1, n)
             f == Frame("process_tasks", NoTask, p)
  <1>1. /\ stack' = Append(stack, f) /\ inbox' = SubSeq(inbox, n + 1, Len(inbox))
        /\ UNCHANGED <<flags, slot, nextId, handles, closed, call, loop, signal,
                       budget, known, owed, skipped>>
    BY DEF ProcessTasks
  <1>2. inbox \in Seq(Task) /\ Range(inbox) \subseteq Spawned
    BY DEF Shape
  <1>3. p \in Seq(Task) /\ inbox' \in Seq(Task) /\ Range(p) \cup Range(inbox') = Range(inbox)
    BY <1>1, <1>2, SplitOnce
  <1> HIDE DEF p
  <1>4. f \in FrameType /\ f.phase = "next" /\ f.batch = p
    BY <1>3 DEF FrameType, Frame
  <1> HIDE DEF f
  <1>5. Spawned' = Spawned
    BY <1>1 DEF Spawned
  <1>6. /\ stack' \in Seq(FrameType)
        /\ \A d \in DOMAIN stack' :
              Held(d)' \subseteq Spawned' /\ (stack'[d].phase # "next" => stack'[d].task \in Spawned')
    BY <1>1, <1>2, <1>3, <1>4, <1>5, PushFrame
  <1>7. Shape'
    BY <1>1, <1>2, <1>3, <1>5, <1>6 DEF Shape
  <1>8. Named'
    BY <1>1, <1>5, <1>6 DEF Named
  <1> QED
    BY <1>7, <1>8

\* Steps that replace the innermost frame and leave the inbox.
LEMMA SwapShape ==
    ASSUME Shape, Named, stack # <<>>, NEW f \in FrameType, stack' = Replace(f),
           Range(f.batch) \subseteq Spawned, f.phase # "next" => f.task \in Spawned,
           UNCHANGED <<nextId, handles, closed, call, loop, signal>>,
           inbox' \in Seq(Task), Range(inbox') \subseteq Spawned,
           flags' \in [Task -> SUBSET Flag],
           slot' \in [Task -> {"absent", "idle", "taken"}],
           known' \cup owed' \cup skipped' \subseteq Spawned,
           budget' \in 0 .. OpsPerPoll,
           \A t \in Task \ Spawned : flags'[t] = {} /\ slot'[t] = "absent"
    PROVE  Shape' /\ Named'
  <1>1. /\ Spawned' = Spawned /\ stack' \in Seq(FrameType)
        /\ \A d \in DOMAIN stack' :
              Held(d)' \subseteq Spawned' /\ (stack'[d].phase # "next" => stack'[d].task \in Spawned')
    BY SwapFrame DEF Shape
  <1>2. Shape'
    BY <1>1 DEF Shape
  <1>3. Named'
    BY <1>1 DEF Named
  <1> QED
    BY <1>2, <1>3

\* Steps of Executor::run, by the frame f they leave.
LEMMA RunShape ==
    ASSUME Shape, Named, RunTask
    PROVE  Shape' /\ Named'
  <1> DEFINE t == Head(Top.batch)
             used == [Top EXCEPT !.batch = Tail(@)]
             polled == [Top EXCEPT !.batch = Tail(@), !.task = t, !.phase = "poll"]
  <1>0. RunStep
    BY DEF RunTask, SkipFinished, SkipTaken, BeginPoll
  <1>1. /\ stack # <<>>
        /\ t \in Task /\ t \in Held(Len(stack))
        /\ used \in FrameType /\ used.batch = Tail(Top.batch)
        /\ used.phase = Top.phase /\ used.task = Top.task
        /\ polled \in FrameType /\ polled.batch = Tail(Top.batch)
        /\ polled.phase = "poll" /\ polled.task = t
    BY <1>0, HeadUsed
  <1>2. Top.batch \in Seq(Task) /\ Top.batch # <<>> /\ Len(stack) \in DOMAIN stack
        /\ Top = stack[Len(stack)] /\ Top.phase = "next"
    BY <1>0, <1>1, TopShape DEF RunStep, Top
  <1>3. Range(Tail(Top.batch)) \subseteq Range(Top.batch)
    BY <1>2, TailOnce
  <1>4. /\ t \in Spawned /\ Range(Tail(Top.batch)) \subseteq Spawned
        /\ \A u \in Task \ Spawned : flags[u] = {} /\ slot[u] = "absent"
    BY <1>1, <1>2, <1>3 DEF Named, Held
  <1>5. /\ inbox \in Seq(Task) /\ Range(inbox) \subseteq Spawned
        /\ flags \in [Task -> SUBSET Flag] /\ slot \in [Task -> {"absent", "idle", "taken"}]
        /\ known \cup owed \cup skipped \subseteq Spawned /\ budget \in 0 .. OpsPerPoll
        /\ OpsPerPoll \in 0 .. OpsPerPoll
    BY BoundsAssumption DEF Shape
  <1> HIDE DEF t, used, polled
  <1>6. CASE SkipFinished
    <2>1. /\ stack' = Replace(used)
          /\ UNCHANGED <<flags, slot, nextId, handles, inbox, closed, call, loop, signal,
                         budget, known, owed, skipped>>
      BY <1>6 DEF SkipFinished, used
    <2> QED
      BY <1>1, <1>2, <1>4, <1>5, <2>1, SwapShape
  <1>7. CASE SkipTaken
    <2>1. /\ stack' = Replace(used) /\ flags' = [flags EXCEPT ![t] = @ \ {"QUEUED"}]
          /\ skipped' = skipped \cup {t}
          /\ UNCHANGED <<slot, nextId, handles, inbox, closed, call, loop, signal,
                         budget, known, owed>>
      BY <1>7 DEF SkipTaken, used, t
    <2>2. /\ flags' \in [Task -> SUBSET Flag]
          /\ \A u \in Task \ Spawned : flags'[u] = {}
      BY <1>1, <1>4, <1>5, <2>1
    <2> QED
      BY <1>1, <1>2, <1>4, <1>5, <2>1, <2>2, SwapShape
  <1>8. CASE BeginPoll
    <2>1. /\ stack' = Replace(polled) /\ flags' = [flags EXCEPT ![t] = @ \ {"QUEUED"}]
          /\ slot' = [slot EXCEPT ![t] = "taken"] /\ budget' = OpsPerPoll
          /\ known' = known \cup {t} /\ owed' = owed \ {t} /\ skipped' = skipped \ {t}
          /\ UNCHANGED <<nextId, handles, inbox, closed, call, loop, signal>>
      BY <1>8 DEF BeginPoll, polled, t
    <2>2. /\ flags' \in [Task -> SUBSET Flag] /\ slot' \in [Task -> {"absent", "idle", "taken"}]
          /\ \A u \in Task \ Spawned : flags'[u] = {} /\ slot'[u] = "absent"
      BY <1>1, <1>4, <1>5, <2>1
    <2> QED
      BY <1>1, <1>2, <1>4, <1>5, <2>1, <2>2, SwapShape
  <1> QED
    BY <1>6, <1>7, <1>8 DEF RunTask

\* What the end of a poll leaves in the innermost frame.
LEMMA PollUsed ==
    ASSUME Shape, Named, stack # <<>>, Top.phase # "next"
    PROVE  LET back == [Top EXCEPT !.task = NoTask, !.phase = "next"]
               drop == [Top EXCEPT !.phase = "drop"]
           IN  /\ Top.task \in Task /\ Top.task \in Spawned /\ Range(Top.batch) \subseteq Spawned
               /\ back \in FrameType /\ back.batch = Top.batch /\ back.phase = "next"
               /\ drop \in FrameType /\ drop.batch = Top.batch
               /\ drop.phase = "drop" /\ drop.task = Top.task
  <1>1. /\ Len(stack) \in DOMAIN stack /\ Top \in FrameType
        /\ Top = stack[Len(stack)]
    BY TopShape DEF Top
  <1>2. Range(Top.batch) \subseteq Spawned /\ Top.task \in Spawned /\ Spawned \subseteq Task
    BY <1>1, SpawnedTasks DEF Named, Held
  <1> QED
    BY <1>1, <1>2 DEF FrameType

\* The end of a poll or of a drop.
LEMMA EndShape ==
    ASSUME Shape, Named, EndPoll
    PROVE  Shape' /\ Named'
  <1> DEFINE back == [Top EXCEPT !.task = NoTask, !.phase = "next"]
             drop == [Top EXCEPT !.phase = "drop"]
  <1>0. stack # <<>> /\ Top.phase # "next"
    BY DEF EndPoll, PollPending, PollReady, EndDrop, Polling, Phase
  <1>1. /\ Top.task \in Task /\ Top.task \in Spawned /\ Range(Top.batch) \subseteq Spawned
        /\ back \in FrameType /\ back.batch = Top.batch /\ back.phase = "next"
        /\ drop \in FrameType /\ drop.batch = Top.batch
        /\ drop.phase = "drop" /\ drop.task = Top.task
    BY <1>0, PollUsed
  <1>2. /\ inbox \in Seq(Task) /\ Range(inbox) \subseteq Spawned
        /\ flags \in [Task -> SUBSET Flag] /\ slot \in [Task -> {"absent", "idle", "taken"}]
        /\ known \cup owed \cup skipped \subseteq Spawned /\ budget \in 0 .. OpsPerPoll
        /\ \A u \in Task \ Spawned : flags[u] = {} /\ slot[u] = "absent"
    BY DEF Shape, Named
  <1> HIDE DEF back, drop
  <1>3. CASE PollPending
    <2>1. /\ UNCHANGED <<flags, nextId, handles, inbox, closed, call, loop, signal,
                         budget, known, owed, skipped>>
          /\ \/ slot' = [slot EXCEPT ![Top.task] = "idle"] /\ stack' = Replace(back)
             \/ slot' = slot /\ stack' = Replace(drop)
      BY <1>3 DEF PollPending, back, drop
    <2>2. /\ slot' \in [Task -> {"absent", "idle", "taken"}]
          /\ \A u \in Task \ Spawned : flags'[u] = {} /\ slot'[u] = "absent"
      BY <1>1, <1>2, <2>1
    <2>3. CASE stack' = Replace(back)
      BY <1>0, <1>1, <1>2, <2>1, <2>2, <2>3, SwapShape
    <2>4. CASE stack' = Replace(drop)
      BY <1>0, <1>1, <1>2, <2>1, <2>2, <2>4, SwapShape
    <2> QED
      BY <2>1, <2>3, <2>4
  <1>4. CASE PollReady
    <2>1. /\ flags' = [flags EXCEPT ![Top.task] = @ \cup {"COMPLETED"}]
          /\ slot' = [slot EXCEPT ![Top.task] = "absent"] /\ stack' = Replace(drop)
          /\ UNCHANGED <<nextId, handles, inbox, closed, call, loop, signal,
                         budget, known, owed, skipped>>
      BY <1>4 DEF PollReady, drop
    <2>2. /\ flags' \in [Task -> SUBSET Flag] /\ slot' \in [Task -> {"absent", "idle", "taken"}]
          /\ \A u \in Task \ Spawned : flags'[u] = {} /\ slot'[u] = "absent"
      BY <1>1, <1>2, <2>1 DEF Flag
    <2> QED
      BY <1>0, <1>1, <1>2, <2>1, <2>2, SwapShape
  <1>5. CASE EndDrop
    <2>1. /\ stack' = Replace(back)
          /\ UNCHANGED <<flags, slot, nextId, handles, inbox, closed, call, loop, signal,
                         budget, known, owed, skipped>>
      BY <1>5 DEF EndDrop, back
    <2> QED
      BY <1>0, <1>1, <1>2, <2>1, SwapShape
  <1> QED
    BY <1>3, <1>4, <1>5 DEF EndPoll

\* The end of a process_tasks or block_on call, and the rounds of the latter.
LEMMA FinishShape ==
    ASSUME Shape, Named, Finish
    PROVE  Shape' /\ Named'
  <1>0. BatchDone /\ stack # <<>> /\ Top.phase = "next"
    BY DEF Finish, Return, DrainAgain, Panic, BatchDone, Phase
  <1>1. Len(stack) \in DOMAIN stack /\ Top \in FrameType /\ stack \in Seq(FrameType)
    BY <1>0, TopShape DEF Shape
  <1>2. CASE Return
    <2>1. /\ stack' = Front(stack)
          /\ UNCHANGED <<flags, slot, nextId, handles, inbox, closed, call, loop, signal,
                         known, owed, skipped>>
          /\ budget' \in 0 .. OpsPerPoll
      BY <1>2, BoundsAssumption DEF Return
    <2>2. /\ stack' \in Seq(FrameType) /\ DOMAIN stack' = DOMAIN stack \ {Len(stack)}
          /\ \A d \in DOMAIN stack' : stack'[d] = stack[d]
      BY <1>0, <1>1, <2>1, DropLast
    <2>3. Spawned' = Spawned /\ \A d \in DOMAIN stack' : Held(d)' = Held(d)
      BY <2>1, <2>2 DEF Spawned, Held
    <2>4. Shape'
      BY <2>1, <2>2, <2>3 DEF Shape
    <2>5. Named'
      BY <2>1, <2>2, <2>3 DEF Named
    <2> QED
      BY <2>4, <2>5
  <1>3. CASE DrainAgain
    <2> DEFINE f == [Top EXCEPT !.batch = inbox]
    <2>1. /\ stack' = Replace(f) /\ inbox' = <<>>
          /\ UNCHANGED <<flags, slot, nextId, handles, closed, call, loop, signal,
                         budget, known, owed, skipped>>
      BY <1>3 DEF DrainAgain
    <2>2. /\ inbox \in Seq(Task) /\ Range(inbox) \subseteq Spawned
          /\ known \cup owed \cup skipped \subseteq Spawned /\ budget \in 0 .. OpsPerPoll
      BY DEF Shape
    <2>3. f \in FrameType /\ f.batch = inbox /\ f.phase = "next"
      BY <1>0, <1>1, <2>2 DEF FrameType
    <2>4. <<>> \in Seq(Task) /\ Range(<<>>) = {}
      BY EmptySeq DEF Range
    <2> HIDE DEF f
    <2> QED
      BY <1>0, <2>1, <2>2, <2>3, <2>4, SwapShape DEF Shape, Named
  <1>4. CASE Panic
    <2>1. /\ loop' = "panicked"
          /\ UNCHANGED <<flags, slot, nextId, handles, inbox, closed, stack, call, signal,
                         budget, known, owed, skipped>>
      BY <1>4 DEF Panic
    <2>2. closed' = (loop' \in {"closing", "canceling", "gone"})
      BY <1>0, <2>1 DEF BatchDone, MainFree, Shape
    <2> QED
      BY <2>1, <2>2, QuietShape DEF Shape, Named
  <1> QED
    BY <1>2, <1>3, <1>4 DEF Finish

\* The shape of the state, with the steps that neither enter nor leave a call.
LEMMA NextShape ==
    ASSUME Shape, Named, [Next]_vars
    PROVE  Shape' /\ Named'
  <1>0. /\ nextId \in Nat /\ Spawned \subseteq Task /\ Main \in Threads
        /\ OpsPerPoll \in Nat
    BY SpawnedTasks, BoundsAssumption
  <1>1. ASSUME NEW th \in Threads, NEW t \in Task, CallWake(th, t) PROVE Shape' /\ Named'
    <2>1. t \in Spawned
      BY <1>1 DEF CallWake, Shape
    <2>2. budget' \in 0 .. OpsPerPoll
      BY <1>0, <1>1 DEF CallWake, CanCall, Shape
    <2>3. /\ call' \in [Threads -> [pc : {"idle", "check", "mark", "push", "notify"},
                                    task : Task \cup {NoTask}]]
          /\ \A x \in Threads : call'[x].pc # "idle" => call'[x].task \in Spawned
      BY <1>1, <2>1 DEF CallWake, Shape, Named
    <2> QED
      BY <1>1, <2>1, <2>2, <2>3, QuietShape DEF CallWake, Shape, Named
  <1>2. ASSUME NEW t \in Task, Detach(t) PROVE Shape' /\ Named'
    <2>1. budget' \in 0 .. OpsPerPoll
      BY <1>0, <1>2 DEF Detach, CanCall, Shape
    <2> QED
      BY <1>2, <2>1, QuietShape DEF Detach, Shape, Named
  <1>3. ASSUME NEW t \in Task, DropHandle(t) PROVE Shape' /\ Named'
    <2>1. budget' \in 0 .. OpsPerPoll
      BY <1>0, <1>3 DEF DropHandle, CanCall, Shape
    <2>2. t \in Spawned
      BY <1>3 DEF DropHandle, Shape
    <2>3. /\ flags' \in [Task -> SUBSET Flag] /\ slot' \in [Task -> {"absent", "idle", "taken"}]
          /\ \A u \in Task \ Spawned : flags'[u] = {} /\ slot'[u] = "absent"
      BY <1>3, <2>2 DEF DropHandle, Shape, Named, Flag
    <2> QED
      BY <1>3, <2>1, <2>3, QuietShape DEF DropHandle, Shape, Named
  <1>4. ASSUME NEW t \in Task, DropHandleLate(t) PROVE Shape' /\ Named'
    <2>1. t \in Spawned
      BY <1>4 DEF DropHandleLate, Shape
    <2>2. /\ flags' \in [Task -> SUBSET Flag]
          /\ \A u \in Task \ Spawned : flags'[u] = {} /\ slot'[u] = "absent"
      BY <1>4, <2>1 DEF DropHandleLate, Shape, Named, Flag
    <2> QED
      BY <1>4, <2>2, QuietShape DEF DropHandleLate, Shape, Named
  <1>5. CASE CloseExecutor
    BY <1>5, QuietShape DEF CloseExecutor, Shape, Named
  <1>6. CASE TakeInbox
    <2>1. /\ inbox' = <<>> /\ loop' = "canceling" /\ loop = "closing"
          /\ UNCHANGED <<flags, slot, nextId, handles, closed, stack, call, signal,
                         budget, known, owed, skipped>>
      BY <1>6 DEF TakeInbox
    <2>2. <<>> \in Seq(Task) /\ Range(<<>>) = {}
      BY EmptySeq DEF Range
    <2>3. Spawned' = Spawned /\ \A d \in DOMAIN stack : Held(d)' = Held(d)
      BY <2>1 DEF Spawned, Held
    <2>4. Shape'
      BY <2>1, <2>2, <2>3 DEF Shape
    <2>5. Named'
      BY <2>1, <2>3 DEF Named
    <2> QED
      BY <2>4, <2>5
  <1>7. CASE CancelAll
    <2>1. /\ flags' \in [Task -> SUBSET Flag] /\ slot' \in [Task -> {"absent", "idle", "taken"}]
          /\ \A u \in Task \ Spawned : flags'[u] = {} /\ slot'[u] = "absent"
      BY <1>7 DEF CancelAll, Shape, Named, Flag
    <2>2. closed' = (loop' \in {"closing", "canceling", "gone"})
      BY <1>7 DEF CancelAll, Shape
    <2>3. loop' \in {"awake", "asleep", "closing", "canceling", "gone", "panicked"}
      BY <1>7 DEF CancelAll
    <2> QED
      BY <1>7, <2>1, <2>2, <2>3, QuietShape DEF CancelAll, Shape, Named
  <1>8. CASE Sleep
    BY <1>8, QuietShape DEF Sleep, InCode, MainFree, Shape, Named
  <1>9. CASE WakeUp
    <2>1. closed' = (loop' \in {"closing", "canceling", "gone"})
      BY <1>9 DEF WakeUp, Shape
    <2> QED
      BY <1>9, <2>1, QuietShape DEF WakeUp, Shape, Named
  <1>10. CASE UNCHANGED vars
    BY <1>10, QuietShape DEF vars, Shape, Named
  <1> QED
    BY <1>1, <1>2, <1>3, <1>4, <1>5, <1>6, <1>7, <1>8, <1>9, <1>10, ScheduleShape, SpawnShape,
       BlockOnShape, ProcessShape, RunShape, EndShape, FinishShape DEF Next, Process
-----------------------------------------------------------------------------
\* Steps that leave every queue entry where it is.
SameEntries ==
    /\ inbox' = inbox
    /\ \A d \in DOMAIN stack' :
           stack'[d].batch = <<>> \/ (d \in DOMAIN stack /\ stack'[d].batch = stack[d].batch)
    /\ \A d \in DOMAIN stack :
           stack[d].batch = <<>> \/ (d \in DOMAIN stack' /\ stack'[d].batch = stack[d].batch)
    /\ \A th \in Threads, t \in Task : Pushing(th, t)' <=> Pushing(th, t)

\* An empty sequence holds nothing.
LEMMA NoEntries == Range(<<>>) = {} /\ IsInjective(<<>>)
  BY DEF Range, IsInjective

\* Such steps keep every task in its place.
LEMMA SameOnce ==
    ASSUME Once, SameEntries
    PROVE  Once' /\ \A t \in Task : Queued(t)' <=> Queued(t)
  <1>1. \A d \in DOMAIN stack' : Held(d)' = {} \/ (d \in DOMAIN stack /\ Held(d)' = Held(d))
    BY NoEntries DEF SameEntries, Held
  <1>2. \A d \in DOMAIN stack : Held(d) = {} \/ (d \in DOMAIN stack' /\ Held(d)' = Held(d))
    BY NoEntries DEF SameEntries, Held
  <1>3. \A d \in DOMAIN stack' : IsInjective(stack'[d].batch)
    BY NoEntries DEF SameEntries, Once
  <1>4. inbox' = inbox /\ \A th \in Threads, t \in Task : Pushing(th, t)' <=> Pushing(th, t)
    BY DEF SameEntries
  <1>5. Once'
    BY <1>1, <1>3, <1>4 DEF Once
  <1>6. \A t \in Task : Queued(t)' <=> Queued(t)
    BY <1>1, <1>2, <1>4 DEF Queued
  <1> QED
    BY <1>5, <1>6

\* A thread that looks at the task or wakes the event loop holds no entry before
\* or after.
LEMMA ScheduleEntries ==
    ASSUME Shape, NEW th \in Threads, CheckOpen(th) \/ NotifyLoop(th)
    PROVE  SameEntries
  <1>1. call \in [Threads -> [pc : {"idle", "check", "mark", "push", "notify"},
                             task : Task \cup {NoTask}]]
    BY DEF Shape
  <1>2. \A x \in Threads, u \in Task : Pushing(x, u)' <=> Pushing(x, u)
    BY <1>1 DEF CheckOpen, NotifyLoop, Pushing, Idle
  <1>3. UNCHANGED <<inbox, stack>>
    BY DEF CheckOpen, NotifyLoop
  <1> QED
    BY <1>2, <1>3 DEF SameEntries

\* A thread that calls schedule() holds no entry yet; a frame that is entered with
\* it holds none either.
LEMMA CallEntries ==
    ASSUME Shape, NEW th \in Threads, NEW t \in Task, call[th].pc = "idle",
           call' = [call EXCEPT ![th] = [pc |-> "check", task |-> t]], inbox' = inbox,
           \A d \in DOMAIN stack : d \in DOMAIN stack' /\ stack'[d] = stack[d],
           \A d \in DOMAIN stack' \ DOMAIN stack : stack'[d].batch = <<>>
    PROVE  SameEntries
  <1>1. call \in [Threads -> [pc : {"idle", "check", "mark", "push", "notify"},
                             task : Task \cup {NoTask}]]
    BY DEF Shape
  <1>2. \A x \in Threads, u \in Task : Pushing(x, u)' <=> Pushing(x, u)
    BY <1>1 DEF Pushing
  <1> QED
    BY <1>2 DEF SameEntries

\* The end of a poll or of a drop moves no entry.
LEMMA EndEntries ==
    ASSUME Shape, Named, EndPoll
    PROVE  SameEntries
  <1> DEFINE back == [Top EXCEPT !.task = NoTask, !.phase = "next"]
             drop == [Top EXCEPT !.phase = "drop"]
  <1>1. stack # <<>> /\ Top.phase # "next" /\ UNCHANGED <<inbox, call>>
    BY DEF EndPoll, PollPending, PollReady, EndDrop, Polling, Phase
  <1>2. PICK f \in FrameType : f.batch = Top.batch /\ stack' = Replace(f)
    <2>1. /\ back \in FrameType /\ back.batch = Top.batch
          /\ drop \in FrameType /\ drop.batch = Top.batch
      BY <1>1, PollUsed
    <2>2. stack' = Replace(back) \/ stack' = Replace(drop)
      BY DEF EndPoll, PollPending, PollReady, EndDrop
    <2> HIDE DEF back, drop
    <2> QED
      BY <2>1, <2>2
  <1>3. /\ DOMAIN stack' = DOMAIN stack /\ Len(stack) \in DOMAIN stack
        /\ stack'[Len(stack)] = f
        /\ \A d \in DOMAIN stack \ {Len(stack)} : stack'[d] = stack[d]
    BY <1>1, <1>2, ReplaceTop
  <1>4. \A d \in DOMAIN stack : stack'[d].batch = stack[d].batch
    BY <1>2, <1>3 DEF Top
  <1> QED
    BY <1>1, <1>3, <1>4 DEF SameEntries, Pushing

\* A call returns when its batch is used up.
LEMMA ReturnEntries ==
    ASSUME Shape, Return
    PROVE  SameEntries
  <1>1. /\ stack' = Front(stack) /\ stack # <<>> /\ Top.batch = <<>>
        /\ UNCHANGED <<inbox, call>>
    BY DEF Return, BatchDone, Phase
  <1>2. stack \in Seq(FrameType)
    BY DEF Shape
  <1>3. /\ Len(stack) \in DOMAIN stack /\ DOMAIN stack' = DOMAIN stack \ {Len(stack)}
        /\ \A d \in DOMAIN stack' : stack'[d] = stack[d]
    BY <1>1, <1>2, DropLast
  <1> QED
    BY <1>1, <1>3 DEF SameEntries, Pushing, Top

\* A thread that finds QUEUED clear is about to make the task's only entry.
LEMMA SetQueuedOnce ==
    ASSUME Shape, Named, Once, Marked, NEW th \in Threads, SetQueued(th)
    PROVE  LET t == call[th].task
           IN  /\ Once' /\ t \in Task
               /\ \A u \in Task : Queued(u)' <=> Queued(u) \/ (u = t /\ "QUEUED" \notin flags[t])
  <1> DEFINE t == call[th].task
  <1>1. /\ call[th].pc = "mark" /\ flags' = [flags EXCEPT ![t] = @ \cup {"QUEUED"}]
        /\ call' = [call EXCEPT ![th] = IF "QUEUED" \in flags[t] THEN Idle ELSE [@ EXCEPT !.pc = "push"]]
        /\ UNCHANGED <<inbox, stack>>
    BY DEF SetQueued
  <1>2. /\ t \in Task
        /\ call \in [Threads -> [pc : {"idle", "check", "mark", "push", "notify"},
                                 task : Task \cup {NoTask}]]
    BY <1>1, SpawnedTasks DEF Shape, Named
  <1>3. \A d \in DOMAIN stack : Held(d)' = Held(d)
    BY <1>1 DEF Held
  <1>4. CASE "QUEUED" \in flags[t]
    <2>1. \A x \in Threads, u \in Task : Pushing(x, u)' <=> Pushing(x, u)
      BY <1>1, <1>2, <1>4 DEF Pushing, Idle
    <2> QED
      BY <1>1, <1>2, <1>4, <2>1, SameOnce DEF SameEntries
  <1>5. CASE "QUEUED" \notin flags[t]
    <2>1. \A x \in Threads, u \in Task : Pushing(x, u)' <=> Pushing(x, u) \/ (x = th /\ u = t)
      BY <1>1, <1>2, <1>5 DEF Pushing
    <2>2. ~Queued(t)
      BY <1>2, <1>5 DEF Marked
    <2>3. Once'
      BY <1>1, <1>2, <1>3, <2>1, <2>2 DEF Once, Queued
    <2>4. \A u \in Task : Queued(u)' <=> Queued(u) \/ u = t
      BY <1>1, <1>3, <2>1 DEF Queued
    <2> QED
      BY <1>2, <1>5, <2>3, <2>4
  <1> QED
    BY <1>4, <1>5

\* The push moves the entry from the thread to the inbox.
LEMMA PushOnce ==
    ASSUME Shape, Named, Once, NEW th \in Threads, PushInbox(th)
    PROVE  Once' /\ \A u \in Task : Queued(u)' <=> Queued(u)
  <1> DEFINE t == call[th].task
  <1>1. /\ call[th].pc = "push" /\ inbox' = Append(inbox, t)
        /\ call' = [call EXCEPT ![th].pc = "notify"] /\ stack' = stack
    BY DEF PushInbox
  <1>2. /\ t \in Task /\ inbox \in Seq(Task)
        /\ call \in [Threads -> [pc : {"idle", "check", "mark", "push", "notify"},
                                 task : Task \cup {NoTask}]]
    BY <1>1, SpawnedTasks DEF Shape, Named
  <1>3. Pushing(th, t) /\ \A x \in Threads, u \in Task : Pushing(x, u)' <=> Pushing(x, u) /\ x # th
    BY <1>1, <1>2 DEF Pushing
  <1>4. t \notin Range(inbox) /\ \A d \in DOMAIN stack : t \notin Held(d)
    BY <1>2, <1>3 DEF Once
  <1>5. Range(inbox') = Range(inbox) \cup {t} /\ IsInjective(inbox')
    BY <1>1, <1>2, <1>4, AppendOnce DEF Once
  <1>6. \A d \in DOMAIN stack : Held(d)' = Held(d)
    BY <1>1 DEF Held
  <1>7. \A u \in Task : Pushing(th, u) => u = t
    BY DEF Pushing
  <1>8. \A x \in Threads, u \in Task : Pushing(x, u)' => u # t
    BY <1>2, <1>3 DEF Once
  <1> HIDE DEF t
  <1>9. Once'
    BY <1>1, <1>3, <1>4, <1>5, <1>6, <1>8 DEF Once
  <1>10. \A u \in Task : Queued(u)' <=> Queued(u)
    BY <1>1, <1>2, <1>3, <1>5, <1>6, <1>7 DEF Queued
  <1> QED
    BY <1>9, <1>10

\* The first entry of the innermost batch was its task's only one.
LEMMA HeadOnce ==
    ASSUME Shape, Once, RunStep, NEW f \in FrameType, f.batch = Tail(Top.batch),
           stack' = Replace(f), UNCHANGED <<inbox, call>>
    PROVE  LET t == Head(Top.batch)
           IN  /\ Once' /\ t \in Task /\ Queued(t)
               /\ \A u \in Task : Queued(u)' <=> Queued(u) /\ u # t
  <1>0. PICK t, n : t = Head(Top.batch) /\ n = Len(stack)
    OBVIOUS
  <1>1. stack # <<>> /\ t \in Task /\ t \in Held(n)
    BY <1>0, HeadUsed
  <1>2. /\ Top.batch \in Seq(Task) /\ Top.batch # <<>> /\ n \in DOMAIN stack /\ Top = stack[n]
    BY <1>0, <1>1, TopShape DEF RunStep, Top
  <1>3. /\ DOMAIN stack' = DOMAIN stack /\ stack'[n] = f
        /\ \A d \in DOMAIN stack \ {n} : stack'[d] = stack[d]
    BY <1>0, <1>1, ReplaceTop
  <1>4. IsInjective(Top.batch) /\ Held(n) = Range(Top.batch)
    BY <1>2 DEF Once, Held
  <1>5. /\ Range(Top.batch) = Range(Tail(Top.batch)) \cup {t}
        /\ IsInjective(Tail(Top.batch)) /\ t \notin Range(Tail(Top.batch))
    BY <1>0, <1>2, <1>4, TailOnce
  <1>6. Held(n)' = Held(n) \ {t} /\ \A d \in DOMAIN stack \ {n} : Held(d)' = Held(d)
    <2>1. Held(n)' = Range(Tail(Top.batch))
      BY <1>3 DEF Held
    <2> QED
      BY <1>3, <1>4, <1>5, <2>1 DEF Held
  <1>7. \A d \in DOMAIN stack' : IsInjective(stack'[d].batch)
    BY <1>2, <1>3, <1>5 DEF Once
  <1>8. inbox' = inbox /\ \A x \in Threads, u \in Task : Pushing(x, u)' <=> Pushing(x, u)
    BY DEF Pushing
  <1>9. Once'
    BY <1>2, <1>3, <1>6, <1>7, <1>8 DEF Once
  <1>10. /\ t \notin Range(inbox) /\ \A d \in DOMAIN stack \ {n} : t \notin Held(d)
         /\ \A x \in Threads : ~Pushing(x, t)
    BY <1>1, <1>2 DEF Once
  <1>11. ASSUME NEW u \in Task PROVE Queued(u)' <=> Queued(u) /\ u # t
    <2>1. CASE u = t
      <3>1. ~Queued(t)'
        BY <1>3, <1>6, <1>8, <1>10, <1>1 DEF Queued
      <3> QED
        BY <2>1, <3>1
    <2>2. CASE u # t
      <3>1. \A d \in DOMAIN stack : u \in Held(d)' <=> u \in Held(d)
        BY <1>6, <2>2
      <3> QED
        BY <1>3, <1>8, <2>2, <3>1 DEF Queued
    <2> QED
      BY <2>1, <2>2
  <1>12. Queued(t)
    BY <1>1, <1>2 DEF Queued
  <1> QED
    BY <1>0, <1>1, <1>9, <1>11, <1>12

\* A call that takes entries from the inbox holds them instead: n is the depth of
\* its frame, which held nothing before.
LEMMA TakeOnce ==
    ASSUME Shape, Once, call' = call, NEW n, n \in DOMAIN stack',
           DOMAIN stack' = DOMAIN stack \cup {n}, n \in DOMAIN stack => Held(n) = {},
           \A d \in DOMAIN stack \ {n} : stack'[d] = stack[d],
           IsInjective(stack'[n].batch), IsInjective(inbox'),
           Held(n)' \cup Range(inbox') = Range(inbox), Held(n)' \cap Range(inbox') = {}
    PROVE  Once' /\ \A u \in Task : Queued(u)' <=> Queued(u)
  <1>1. \A d \in DOMAIN stack \ {n} : Held(d)' = Held(d)
    BY DEF Held
  <1>2. \A x \in Threads, u \in Task : Pushing(x, u)' <=> Pushing(x, u)
    BY DEF Pushing
  <1>3. \A d \in DOMAIN stack \ {n} : Held(d) \cap Range(inbox) = {}
    BY DEF Once
  <1>4. \A d \in DOMAIN stack' : IsInjective(stack'[d].batch) /\ Held(d)' \cap Range(inbox') = {}
    BY <1>1, <1>3 DEF Once
  <1>5. \A d, e \in DOMAIN stack' : d # e => Held(d)' \cap Held(e)' = {}
    BY <1>1, <1>3 DEF Once
  <1>6. \A x \in Threads, u \in Task : Pushing(x, u)' =>
            u \notin Range(inbox') /\ \A d \in DOMAIN stack' : u \notin Held(d)'
    BY <1>1, <1>2 DEF Once
  <1>7. Once'
    BY <1>2, <1>4, <1>5, <1>6 DEF Once
  <1>8. \A u \in Task : Queued(u)' <=> Queued(u)
    BY <1>1, <1>2 DEF Queued
  <1> QED
    BY <1>7, <1>8

\* process_tasks(n) moves the first n entries into its batch.
LEMMA ProcessOnce ==
    ASSUME Shape, Named, Once, NEW n \in 1 .. Len(inbox), ProcessTasks(n)
    PROVE  Once' /\ \A u \in Task : Queued(u)' <=> Queued(u)
  <1> DEFINE p == SubSeq(inbox, 1, n)
             f == Frame("process_tasks", NoTask, p)
  <1>0. PICK m : m = Len(stack')
    OBVIOUS
  <1>1. /\ stack' = Append(stack, f) /\ inbox' = SubSeq(inbox, n + 1, Len(inbox))
        /\ call' = call /\ nextId' = nextId
    BY DEF ProcessTasks
  <1>2. inbox \in Seq(Task) /\ IsInjective(inbox) /\ stack \in Seq(FrameType)
    BY DEF Shape, Once
  <1>3. /\ p \in Seq(Task) /\ inbox' \in Seq(Task)
        /\ Range(p) \cup Range(inbox') = Range(inbox)
        /\ IsInjective(p) /\ IsInjective(inbox') /\ Range(p) \cap Range(inbox') = {}
    BY <1>1, <1>2, SplitOnce
  <1> HIDE DEF p
  <1>4. f \in FrameType /\ f.batch = p
    BY <1>3 DEF FrameType, Frame
  <1> HIDE DEF f
  <1>5. /\ DOMAIN stack' = DOMAIN stack \cup {m} /\ m \notin DOMAIN stack
        /\ stack'[m] = f /\ \A d \in DOMAIN stack : stack'[d] = stack[d]
    BY <1>0, <1>1, <1>2, <1>4, AddLast
  <1>6. Held(m)' = Range(p) /\ stack'[m].batch = p
    <2>1. stack'[m].batch = p
      BY <1>4, <1>5
    <2> QED
      BY <2>1 DEF Held
  <1> QED
    BY <1>1, <1>3, <1>5, <1>6, TakeOnce

\* block_on moves the whole inbox into its batch.
LEMMA DrainOnce ==
    ASSUME Shape, Named, Once, DrainAgain
    PROVE  Once' /\ \A u \in Task : Queued(u)' <=> Queued(u)
  <1> DEFINE f == [Top EXCEPT !.batch = inbox]
  <1>0. PICK m : m = Len(stack)
    OBVIOUS
  <1>1. /\ stack' = Replace(f) /\ inbox' = <<>> /\ call' = call
        /\ stack # <<>> /\ Top.batch = <<>>
    BY DEF DrainAgain, BatchDone, Phase
  <1>2. inbox \in Seq(Task) /\ IsInjective(inbox)
    BY DEF Shape, Once
  <1>3. Top \in FrameType /\ m \in DOMAIN stack /\ Top = stack[m]
    BY <1>0, <1>1, TopShape DEF Top
  <1>4. f \in FrameType /\ f.batch = inbox
    BY <1>2, <1>3 DEF FrameType
  <1> HIDE DEF f
  <1>5. /\ DOMAIN stack' = DOMAIN stack /\ stack'[m] = f
        /\ \A d \in DOMAIN stack \ {m} : stack'[d] = stack[d]
    BY <1>0, <1>1, <1>4, ReplaceTop
  <1>6. Held(m) = {}
    BY <1>1, <1>3, NoEntries DEF Held
  <1>7. stack'[m].batch = inbox /\ Held(m)' = Range(inbox)
    <2>1. stack'[m].batch = inbox
      BY <1>4, <1>5
    <2> QED
      BY <2>1 DEF Held
  <1> QED
    BY <1>1, <1>2, <1>3, <1>5, <1>6, <1>7, NoEntries, TakeOnce

\* The drop of the executor empties the inbox.
LEMMA TakeInboxOnce ==
    ASSUME Once, TakeInbox
    PROVE  Once' /\ \A u \in Task : Queued(u)' => Queued(u)
  <1>1. inbox' = <<>> /\ UNCHANGED <<stack, call>>
    BY DEF TakeInbox
  <1>2. \A d : Held(d)' = Held(d)
    BY <1>1 DEF Held
  <1>3. \A x, u : Pushing(x, u)' <=> Pushing(x, u)
    BY <1>1 DEF Pushing
  <1>4. Once'
    BY <1>1, <1>2, <1>3, NoEntries DEF Once
  <1>5. \A u \in Task : Queued(u)' => Queued(u)
    BY <1>1, <1>2, <1>3, NoEntries DEF Queued
  <1> QED
    BY <1>4, <1>5
-----------------------------------------------------------------------------
\* Steps that move no queue entry, clear no flag and lose no wake-up.
LEMMA QuietTold ==
    ASSUME Told, SameEntries, closed => closed', owed' \subseteq Task,
           \A t \in Task : flags[t] \subseteq flags'[t] /\ ("QUEUED" \in flags'[t] => "QUEUED" \in flags[t]),
           \A t \in owed' \ skipped' :
               \/ Waking(t)'
               \/ /\ t \in owed \ skipped
                  /\ Waking(t) => Waking(t)' \/ Finished(t) \/ closed
    PROVE  Told'
  <1>1. Once' /\ \A t \in Task : Queued(t)' <=> Queued(t)
    BY SameOnce DEF Told
  <1>2. \A t \in Task : Finished(t) => Finished(t)'
    BY DEF Finished
  <1>3. Marked'
    BY <1>1 DEF Told, Marked
  <1>4. MarkTold'
    BY <1>1, <1>2 DEF Told, MarkTold
  <1>5. WakeTold'
    BY <1>1, <1>2 DEF Told, WakeTold
  <1> QED
    BY <1>1, <1>3, <1>4, <1>5 DEF Told

\* Steps that do not touch the threads' calls, the stack or the inbox.
LEMMA StillTold ==
    ASSUME Shape, Told, UNCHANGED <<inbox, stack, call, owed, skipped>>, closed => closed',
           \A t \in Task : flags[t] \subseteq flags'[t] /\ ("QUEUED" \in flags'[t] => "QUEUED" \in flags[t])
    PROVE  Told'
  <1>1. SameEntries
    BY DEF SameEntries, Pushing
  <1>2. \A t : Waking(t)' <=> Waking(t)
    BY DEF Waking
  <1>3. owed' \subseteq Task
    BY SpawnedTasks DEF Shape
  <1> QED
    BY <1>1, <1>2, <1>3, QuietTold

\* A thread in schedule() drops a wake-up only when the task has an entry, has
\* finished, or the executor is closed.
LEMMA ScheduleTold ==
    ASSUME Shape, Named, Told, NEW th \in Threads, Schedule(th)
    PROVE  Told'
  <1>0. /\ call \in [Threads -> [pc : {"idle", "check", "mark", "push", "notify"},
                                 task : Task \cup {NoTask}]]
        /\ owed \subseteq Task
        /\ flags \in [Task -> SUBSET Flag]
    BY SpawnedTasks DEF Shape
  <1>1. CASE CheckOpen(th)
    <2> DEFINE t == call[th].task
    <2>1. /\ call[th].pc = "check"
          /\ call' = [call EXCEPT ![th] = IF Finished(t) \/ closed THEN Idle ELSE [@ EXCEPT !.pc = "mark"]]
          /\ UNCHANGED <<flags, inbox, closed, stack, owed, skipped>>
      BY <1>1 DEF CheckOpen
    <2>2. \A u \in Task : Waking(u) => Waking(u)' \/ Finished(u) \/ closed
      BY <1>0, <2>1 DEF Waking, Idle
    <2> QED
      BY <1>0, <1>1, <2>1, <2>2, ScheduleEntries, QuietTold
  <1>2. CASE SetQueued(th)
    <2>0. PICK t : t = call[th].task
      OBVIOUS
    <2>1. /\ Once' /\ t \in Task
          /\ \A u \in Task : Queued(u)' <=> Queued(u) \/ (u = t /\ "QUEUED" \notin flags[t])
      BY <1>2, <2>0, SetQueuedOnce DEF Told
    <2>2. /\ flags' = [flags EXCEPT ![t] = @ \cup {"QUEUED"}]
          /\ call' = [call EXCEPT ![th] = IF "QUEUED" \in flags[t] THEN Idle ELSE [@ EXCEPT !.pc = "push"]]
          /\ call[th].pc = "mark"
          /\ UNCHANGED <<closed, owed, skipped>>
      BY <1>2, <2>0 DEF SetQueued
    <2>3. \A u \in Task : Finished(u)' <=> Finished(u)
      BY <1>0, <2>1, <2>2 DEF Finished
    <2>4. \A u \in Task : Waking(u) => Waking(u)' \/ u = t
      BY <1>0, <2>0, <2>2 DEF Waking, Idle
    <2>5. ~closed /\ ~Finished(t) => Queued(t)'
      BY <2>1 DEF Told, MarkTold
    <2>6. Marked'
      BY <1>0, <2>1, <2>2 DEF Told, Marked
    <2>7. MarkTold'
      BY <1>0, <2>1, <2>2, <2>3, <2>5 DEF Told, MarkTold
    <2>8. WakeTold'
      BY <1>0, <2>1, <2>2, <2>3, <2>4, <2>5 DEF Told, WakeTold
    <2> QED
      BY <2>1, <2>6, <2>7, <2>8 DEF Told
  <1>3. CASE PushInbox(th)
    <2>1. Once' /\ \A u \in Task : Queued(u)' <=> Queued(u)
      BY <1>3, PushOnce DEF Told
    <2>2. /\ call[th].pc = "push" /\ call' = [call EXCEPT ![th].pc = "notify"]
          /\ UNCHANGED <<flags, closed, owed, skipped>>
      BY <1>3 DEF PushInbox
    <2>3. \A u \in Task : (Waking(u) => Waking(u)') /\ (Finished(u)' <=> Finished(u))
      BY <1>0, <2>2 DEF Waking, Finished
    <2> QED
      BY <1>0, <2>1, <2>2, <2>3 DEF Told, Marked, MarkTold, WakeTold
  <1>4. CASE NotifyLoop(th)
    <2>1. /\ call[th].pc = "notify" /\ call' = [call EXCEPT ![th] = Idle]
          /\ UNCHANGED <<flags, inbox, closed, stack, owed, skipped>>
      BY <1>4 DEF NotifyLoop
    <2>2. \A u \in Task : Waking(u) => Waking(u)'
      BY <1>0, <2>1 DEF Waking, Idle
    <2> QED
      BY <1>0, <1>4, <2>1, <2>2, ScheduleEntries, QuietTold
  <1> QED
    BY <1>1, <1>2, <1>3, <1>4 DEF Schedule

\* A wake-up begins: a waker is woken or a task is spawned.
LEMMA CallTold ==
    ASSUME Shape, Told, NEW th \in Threads, NEW t \in Task, call[th].pc = "idle",
           call' = [call EXCEPT ![th] = [pc |-> "check", task |-> t]],
           owed' = owed \cup {t}, UNCHANGED <<flags, inbox, closed, skipped>>,
           \A d \in DOMAIN stack : d \in DOMAIN stack' /\ stack'[d] = stack[d],
           \A d \in DOMAIN stack' \ DOMAIN stack : stack'[d].batch = <<>>
    PROVE  Told'
  <1>0. /\ call \in [Threads -> [pc : {"idle", "check", "mark", "push", "notify"},
                                 task : Task \cup {NoTask}]]
        /\ owed' \subseteq Task
    BY SpawnedTasks DEF Shape
  <1>1. SameEntries
    BY CallEntries
  <1>2. Waking(t)' /\ \A u : Waking(u) => Waking(u)'
    BY <1>0 DEF Waking
  <1> QED
    BY <1>0, <1>1, <1>2, QuietTold

\* Executor::run uses the entry of its task up: the task is finished, is polled
\* by an outer call, or is polled now.
LEMMA RunTold ==
    ASSUME Shape, Named, Told, RunTask
    PROVE  Told'
  <1>0. PICK t : t = Head(Top.batch)
    OBVIOUS
  <1> DEFINE used == [Top EXCEPT !.batch = Tail(@)]
             polled == [Top EXCEPT !.batch = Tail(@), !.task = t, !.phase = "poll"]
  <1>1. RunStep /\ UNCHANGED <<inbox, call, closed>>
    BY DEF RunTask, SkipFinished, SkipTaken, BeginPoll
  <1>2. /\ used \in FrameType /\ used.batch = Tail(Top.batch)
        /\ polled \in FrameType /\ polled.batch = Tail(Top.batch)
    BY <1>0, <1>1, HeadUsed
  <1>3. stack' = Replace(used) \/ stack' = Replace(polled)
    BY <1>0 DEF RunTask, SkipFinished, SkipTaken, BeginPoll
  <1> HIDE DEF used, polled
  <1>4. /\ Once' /\ t \in Task /\ Queued(t)
        /\ \A u \in Task : Queued(u)' <=> Queued(u) /\ u # t
    BY <1>0, <1>1, <1>2, <1>3, HeadOnce DEF Told
  <1>5. \A u : Waking(u)' <=> Waking(u)
    BY <1>1 DEF Waking
  <1>6. owed \subseteq Task /\ flags \in [Task -> SUBSET Flag]
    BY SpawnedTasks DEF Shape
  <1>7. CASE SkipFinished
    <2>1. Finished(t) /\ UNCHANGED <<flags, owed, skipped>>
      BY <1>0, <1>7 DEF SkipFinished
    <2>2. \A u : Finished(u)' <=> Finished(u)
      BY <2>1 DEF Finished
    <2> QED
      BY <1>1, <1>4, <1>5, <1>6, <2>1, <2>2 DEF Told, Marked, MarkTold, WakeTold
  <1>8. ASSUME flags' = [flags EXCEPT ![t] = @ \ {"QUEUED"}],
               \A u \in owed' \ skipped' : u \in owed \ skipped /\ u # t
        PROVE  Told'
    <2>1. \A u \in Task : (Finished(u)' <=> Finished(u)) /\ (u # t => flags'[u] = flags[u])
      BY <1>6, <1>8 DEF Finished
    <2>2. "QUEUED" \notin flags'[t]
      BY <1>4, <1>6, <1>8
    <2>3. Marked'
      BY <1>4, <2>1 DEF Told, Marked
    <2>4. MarkTold'
      BY <1>1, <1>4, <2>1, <2>2 DEF Told, MarkTold
    <2>5. WakeTold'
      BY <1>1, <1>4, <1>5, <1>6, <1>8, <2>1 DEF Told, WakeTold
    <2> QED
      BY <1>4, <2>3, <2>4, <2>5 DEF Told
  <1>9. CASE SkipTaken
    BY <1>0, <1>8, <1>9 DEF SkipTaken
  <1>10. CASE BeginPoll
    <2>1. /\ flags' = [flags EXCEPT ![t] = @ \ {"QUEUED"}]
          /\ owed' = owed \ {t} /\ skipped' = skipped \ {t}
      BY <1>0, <1>10 DEF BeginPoll
    <2> QED
      BY <1>8, <2>1
  <1> QED
    BY <1>7, <1>9, <1>10 DEF RunTask

\* The end of a poll moves no entry.
LEMMA EndTold ==
    ASSUME Shape, Named, Told, EndPoll
    PROVE  Told'
  <1>1. SameEntries /\ UNCHANGED <<call, closed, owed, skipped>>
    BY EndEntries DEF EndPoll, PollPending, PollReady, EndDrop
  <1>2. \A t : Waking(t)' <=> Waking(t)
    BY <1>1 DEF Waking
  <1>3. /\ owed' \subseteq Task
        /\ \A t \in Task : flags[t] \subseteq flags'[t] /\ ("QUEUED" \in flags'[t] => "QUEUED" \in flags[t])
    <2>1. owed \subseteq Task /\ flags \in [Task -> SUBSET Flag]
      BY SpawnedTasks DEF Shape
    <2>2. flags' = flags \/ flags' = [flags EXCEPT ![Top.task] = @ \cup {"COMPLETED"}]
      BY DEF EndPoll, PollPending, PollReady, EndDrop
    <2> QED
      BY <1>1, <2>1, <2>2
  <1> QED
    BY <1>1, <1>2, <1>3, QuietTold

\* A call that returns has used its batch up.
LEMMA ReturnTold ==
    ASSUME Shape, Told, Return
    PROVE  Told'
  <1>1. SameEntries /\ UNCHANGED <<call, closed, owed, skipped, flags>>
    BY ReturnEntries DEF Return
  <1>2. \A t : Waking(t)' <=> Waking(t)
    BY <1>1 DEF Waking
  <1>3. owed' \subseteq Task
    BY <1>1, SpawnedTasks DEF Shape
  <1> QED
    BY <1>1, <1>2, <1>3, QuietTold

\* Steps that move entries but change neither flags nor calls.
LEMMA MoveTold ==
    ASSUME Shape, Told, UNCHANGED <<flags, call, closed, owed, skipped>>,
           Once', \A t \in Task : Queued(t)' <=> Queued(t)
    PROVE  Told'
  <1>1. \A t : (Waking(t)' <=> Waking(t)) /\ (Finished(t)' <=> Finished(t))
    BY DEF Waking, Finished
  <1>2. owed \subseteq Task
    BY SpawnedTasks DEF Shape
  <1> QED
    BY <1>1, <1>2 DEF Told, Marked, MarkTold, WakeTold

\* No step loses or doubles a queue entry.
LEMMA NextTold ==
    ASSUME Shape, Named, Told, [Next]_vars
    PROVE  Told'
  <1>0. Main \in Threads /\ flags \in [Task -> SUBSET Flag]
    BY SpawnedTasks DEF Shape
  <1>1. ASSUME NEW th \in Threads, NEW t \in Task, CallWake(th, t) PROVE Told'
    BY <1>1, CallTold DEF CallWake
  <1>2. ASSUME NEW t \in Task, Spawn(t) PROVE Told'
    BY <1>0, <1>2, CallTold DEF Spawn, Enter, CanCall, InCode, MainFree
  <1>3. ASSUME NEW t \in Task, BlockOn(t) PROVE Told'
    <2> DEFINE f == Frame("block_on", t, <<>>)
    <2>1. /\ stack' = Append(stack, f) /\ stack \in Seq(FrameType)
          /\ call[Main].pc = "idle"
          /\ call' = [call EXCEPT ![Main] = [pc |-> "check", task |-> t]]
          /\ owed' = owed \cup {t} /\ UNCHANGED <<flags, inbox, closed, skipped>>
      BY <1>3 DEF BlockOn, Enter, CanNest, InCode, MainFree, Shape
    <2>2. f \in FrameType /\ f.batch = <<>>
      <3>1. <<>> \in Seq(Task)
        BY EmptySeq
      <3> QED
        BY <3>1 DEF FrameType, Frame
    <2> HIDE DEF f
    <2>3. /\ DOMAIN stack' = DOMAIN stack \cup {Len(stack')}
          /\ stack'[Len(stack')] = f /\ \A d \in DOMAIN stack : stack'[d] = stack[d]
      BY <2>1, <2>2, AddLast
    <2>4. /\ \A d \in DOMAIN stack : d \in DOMAIN stack' /\ stack'[d] = stack[d]
          /\ \A d \in DOMAIN stack' \ DOMAIN stack : stack'[d].batch = <<>>
      BY <2>2, <2>3
    <2> QED
      BY <1>0, <2>1, <2>4, CallTold
  <1>4. ASSUME NEW n \in 1 .. Len(inbox), ProcessTasks(n) PROVE Told'
    <2>1. UNCHANGED <<flags, call, closed, owed, skipped>>
      BY <1>4 DEF ProcessTasks
    <2> QED
      BY <1>4, <2>1, ProcessOnce, MoveTold DEF Told
  <1>5. ASSUME NEW t \in Task, Detach(t) PROVE Told'
    BY <1>5, StillTold DEF Detach
  <1>6. ASSUME NEW t \in Task, DropHandle(t) PROVE Told'
    BY <1>0, <1>6, StillTold DEF DropHandle
  <1>7. ASSUME NEW t \in Task, DropHandleLate(t) PROVE Told'
    BY <1>0, <1>7, StillTold DEF DropHandleLate
  <1>8. CASE DrainAgain
    <2>1. UNCHANGED <<flags, call, closed, owed, skipped>>
      BY <1>8 DEF DrainAgain
    <2> QED
      BY <1>8, <2>1, DrainOnce, MoveTold DEF Told
  <1>9. CASE Panic
    BY <1>9, StillTold DEF Panic
  <1>10. CASE CloseExecutor
    BY <1>10, StillTold DEF CloseExecutor
  <1>11. CASE TakeInbox
    <2>1. closed' /\ flags' = flags
      BY <1>11 DEF TakeInbox, Shape
    <2>2. Once' /\ \A t \in Task : Queued(t)' => Queued(t)
      BY <1>11, TakeInboxOnce DEF Told
    <2> QED
      BY <2>1, <2>2 DEF Told, Marked, MarkTold, WakeTold
  <1>12. CASE CancelAll
    BY <1>0, <1>12, StillTold DEF CancelAll
  <1>13. CASE Sleep
    BY <1>13, StillTold DEF Sleep
  <1>14. CASE WakeUp
    BY <1>14, StillTold DEF WakeUp
  <1>15. CASE UNCHANGED vars
    BY <1>15, StillTold DEF vars
  <1> QED
    BY <1>1, <1>2, <1>3, <1>4, <1>5, <1>6, <1>7, <1>8, <1>9, <1>10, <1>11, <1>12, <1>13, <1>14,
       <1>15, ScheduleTold, RunTold, EndTold, ReturnTold DEF Next, Process, Finish
-----------------------------------------------------------------------------
\* Steps that neither begin nor end a poll, and finish no task.
LEMMA QuietSlots ==
    ASSUME Slots, slot' = slot, \A t \in Task : Finished(t)' <=> Finished(t),
           loop' = "gone" => loop = "gone",
           \A d \in DOMAIN stack', t \in Task : Polled(d, t)' => d \in DOMAIN stack /\ Polled(d, t),
           \A d \in DOMAIN stack, t \in Task : Polled(d, t) => d \in DOMAIN stack' /\ Polled(d, t)'
    PROVE  Slots'
  <1>1. \A t \in Task : slot'[t] = "taken" <=> ~Finished(t)' /\ \E d \in DOMAIN stack' : Polled(d, t)'
    BY DEF Slots
  <1> QED
    BY <1>1 DEF Slots

\* Steps that change no task and no frame.
LEMMA StillSlots ==
    ASSUME Slots, UNCHANGED <<flags, slot, stack>>, loop' = "gone" => loop = "gone"
    PROVE  Slots'
  <1>1. \A t : Finished(t)' <=> Finished(t)
    BY DEF Finished
  <1>2. \A d, t : Polled(d, t)' <=> Polled(d, t)
    BY DEF Polled
  <1> QED
    BY <1>1, <1>2, QuietSlots

\* A task that is polled nowhere gets a slot, or its poll ends and it goes back.
LEMMA NewSlot ==
    ASSUME Shape, Slots, NEW t \in Task, slot' = [slot EXCEPT ![t] = "idle"], flags' = flags,
           loop' = loop, loop # "gone", ~Finished(t), \A d \in DOMAIN stack' : ~Polled(d, t)',
           \A d \in DOMAIN stack', u \in Task : Polled(d, u)' => d \in DOMAIN stack /\ Polled(d, u),
           \A d \in DOMAIN stack, u \in Task : Polled(d, u) /\ u # t => d \in DOMAIN stack' /\ Polled(d, u)'
    PROVE  Slots'
  <1>1. \A u : Finished(u)' <=> Finished(u)
    BY DEF Finished
  <1>2. slot'[t] = "idle" /\ \A u \in Task \ {t} : slot'[u] = slot[u]
    BY DEF Shape
  <1>3. ASSUME NEW u \in Task
        PROVE  /\ slot'[u] = "taken" <=> ~Finished(u)' /\ \E d \in DOMAIN stack' : Polled(d, u)'
               /\ Finished(u)' => slot'[u] = "absent"
    BY <1>1, <1>2 DEF Slots
  <1> QED
    BY <1>1, <1>3 DEF Slots

\* A task finishes: its slot goes.
LEMMA FinishSlot ==
    ASSUME Shape, Slots, NEW t \in Task, NEW s \in {"CANCELED", "COMPLETED"},
           flags' = [flags EXCEPT ![t] = @ \cup {s}], slot'[t] = "absent",
           \A u \in Task \ {t} : slot'[u] = slot[u], loop' = loop,
           \A d \in DOMAIN stack', u \in Task : Polled(d, u)' => d \in DOMAIN stack /\ Polled(d, u),
           \A d \in DOMAIN stack, u \in Task : Polled(d, u) /\ u # t => d \in DOMAIN stack' /\ Polled(d, u)'
    PROVE  Slots'
  <1>1. Finished(t)' /\ \A u \in Task \ {t} : Finished(u)' <=> Finished(u)
    BY DEF Finished, Shape
  <1>2. ASSUME NEW u \in Task
        PROVE  /\ slot'[u] = "taken" <=> ~Finished(u)' /\ \E d \in DOMAIN stack' : Polled(d, u)'
               /\ Finished(u)' => slot'[u] = "absent"
    BY <1>1 DEF Slots
  <1>3. \A d, e \in DOMAIN stack', u \in Task : Polled(d, u)' /\ Polled(e, u)' /\ ~Finished(u)' => d = e
    BY <1>1 DEF Slots
  <1>4. loop' = "gone" => \A u \in Task : slot'[u] = "absent"
    BY DEF Slots
  <1> QED
    BY <1>2, <1>3, <1>4 DEF Slots

\* A spawned task has a slot and is polled nowhere.
LEMMA EnterSlots ==
    ASSUME Shape, Named, Slots, NEW t \in Task, Enter(t), UNCHANGED <<flags, loop>>, loop # "gone",
           \A d \in DOMAIN stack : d \in DOMAIN stack' /\ stack'[d] = stack[d],
           \A d \in DOMAIN stack' \ DOMAIN stack : stack'[d].phase = "next"
    PROVE  Slots'
  <1>1. t \notin Spawned /\ slot' = [slot EXCEPT ![t] = "idle"]
    BY EnterShape DEF Enter
  <1>2. ~Finished(t) /\ \A d \in DOMAIN stack : ~Polled(d, t)
    BY <1>1 DEF Named, Finished, Polled
  <1>3. /\ \A d \in DOMAIN stack', u \in Task : Polled(d, u)' => d \in DOMAIN stack /\ Polled(d, u)
        /\ \A d \in DOMAIN stack, u \in Task : Polled(d, u) => d \in DOMAIN stack' /\ Polled(d, u)'
    BY DEF Polled
  <1> QED
    BY <1>1, <1>2, <1>3, NewSlot

\* Where the polls are when the innermost frame becomes f.
LEMMA ReplacedPolls ==
    ASSUME Shape, stack # <<>>, NEW f \in FrameType, stack' = Replace(f)
    PROVE  \E n \in DOMAIN stack :
               /\ n = Len(stack) /\ Top = stack[n] /\ DOMAIN stack' = DOMAIN stack
               /\ \A u \in Task : Polled(n, u)' <=> f.phase = "poll" /\ f.task = u
               /\ \A d \in DOMAIN stack \ {n}, u \in Task : Polled(d, u)' <=> Polled(d, u)
  <1>1. PICK n : n = Len(stack)
    OBVIOUS
  <1>2. /\ DOMAIN stack' = DOMAIN stack /\ n \in DOMAIN stack
        /\ stack'[n] = f
        /\ \A d \in DOMAIN stack \ {n} : stack'[d] = stack[d]
    BY <1>1, ReplaceTop
  <1> QED
    BY <1>1, <1>2 DEF Polled, Top

\* A poll begins only with the future in its slot.
LEMMA RunSlots ==
    ASSUME Shape, Named, Slots, RunTask
    PROVE  Slots'
  <1>0. PICK t : t = Head(Top.batch)
    OBVIOUS
  <1> DEFINE used == [Top EXCEPT !.batch = Tail(@)]
             polled == [Top EXCEPT !.batch = Tail(@), !.task = t, !.phase = "poll"]
  <1>1. RunStep /\ Top.phase = "next" /\ loop' = loop /\ loop = "awake"
    BY DEF RunTask, SkipFinished, SkipTaken, BeginPoll, RunStep, Phase, MainFree
  <1>2. /\ stack # <<>> /\ t \in Task
        /\ used \in FrameType /\ used.phase = "next"
        /\ polled \in FrameType /\ polled.phase = "poll" /\ polled.task = t
    BY <1>0, <1>1, HeadUsed
  <1> HIDE DEF used, polled
  <1>3. CASE SkipFinished \/ SkipTaken
    <2>1. stack' = Replace(used) /\ slot' = slot
      BY <1>3 DEF SkipFinished, SkipTaken, used
    <2>2. \A u \in Task : Finished(u)' <=> Finished(u)
      BY <1>3 DEF SkipFinished, SkipTaken, Finished, Shape
    <2>3. PICK n \in DOMAIN stack :
             /\ Top = stack[n] /\ DOMAIN stack' = DOMAIN stack
             /\ \A u \in Task : Polled(n, u)' <=> used.phase = "poll" /\ used.task = u
             /\ \A d \in DOMAIN stack \ {n}, u \in Task : Polled(d, u)' <=> Polled(d, u)
      BY <1>2, <2>1, ReplacedPolls
    <2>4. \A u \in Task : ~Polled(n, u) /\ ~Polled(n, u)'
      BY <1>1, <1>2, <2>3 DEF Polled
    <2> QED
      BY <1>1, <2>1, <2>2, <2>3, <2>4, QuietSlots
  <1>4. CASE BeginPoll
    <2>1. /\ ~Finished(t) /\ slot[t] = "idle" /\ stack' = Replace(polled)
          /\ flags' = [flags EXCEPT ![t] = @ \ {"QUEUED"}] /\ slot' = [slot EXCEPT ![t] = "taken"]
      BY <1>0, <1>4 DEF BeginPoll, polled
    <2>2. \A u \in Task : Finished(u)' <=> Finished(u)
      BY <2>1 DEF Finished, Shape
    <2>3. PICK n \in DOMAIN stack :
             /\ Top = stack[n] /\ DOMAIN stack' = DOMAIN stack
             /\ \A u \in Task : Polled(n, u)' <=> polled.phase = "poll" /\ polled.task = u
             /\ \A d \in DOMAIN stack \ {n}, u \in Task : Polled(d, u)' <=> Polled(d, u)
      BY <1>2, <2>1, ReplacedPolls
    <2>4. \A u \in Task : ~Polled(n, u) /\ (Polled(n, u)' <=> u = t)
      BY <1>1, <1>2, <2>3 DEF Polled
    <2>5. \A d \in DOMAIN stack : ~Polled(d, t)
      BY <1>2, <2>1 DEF Slots
    <2>6. slot'[t] = "taken" /\ \A u \in Task \ {t} : slot'[u] = slot[u]
      BY <1>2, <2>1 DEF Shape
    <2>7. ASSUME NEW u \in Task
          PROVE  /\ slot'[u] = "taken" <=> ~Finished(u)' /\ \E d \in DOMAIN stack' : Polled(d, u)'
                 /\ Finished(u)' => slot'[u] = "absent"
      <3>1. CASE u = t
        BY <2>1, <2>2, <2>3, <2>4, <2>6, <3>1
      <3>2. CASE u # t
        <4>1. (\E d \in DOMAIN stack' : Polled(d, u)') <=> (\E d \in DOMAIN stack : Polled(d, u))
          BY <2>3, <2>4, <3>2
        <4> QED
          BY <2>2, <2>6, <3>2, <4>1 DEF Slots
      <3> QED
        BY <3>1, <3>2
    <2>8. ASSUME NEW d \in DOMAIN stack', NEW e \in DOMAIN stack', NEW u \in Task,
                 Polled(d, u)', Polled(e, u)', ~Finished(u)'
          PROVE  d = e
      BY <2>2, <2>3, <2>4, <2>5, <2>8 DEF Slots
    <2> QED
      BY <1>1, <2>7, <2>8 DEF Slots
  <1> QED
    BY <1>3, <1>4 DEF RunTask

\* After the poll the future is back in its slot, or its task is finished.
LEMMA EndSlots ==
    ASSUME Shape, Named, Slots, EndPoll
    PROVE  Slots'
  <1>0. PICK t : t = Top.task
    OBVIOUS
  <1> DEFINE back == [Top EXCEPT !.task = NoTask, !.phase = "next"]
             drop == [Top EXCEPT !.phase = "drop"]
  <1>1. stack # <<>> /\ Top.phase # "next" /\ loop' = loop /\ loop = "awake"
    BY DEF EndPoll, PollPending, PollReady, EndDrop, Polling, Phase, MainFree
  <1>2. /\ t \in Task
        /\ back \in FrameType /\ back.phase = "next" /\ drop \in FrameType /\ drop.phase = "drop"
    BY <1>0, <1>1, PollUsed
  <1>3. PICK f \in FrameType : f.phase # "poll" /\ stack' = Replace(f)
    <2>1. stack' = Replace(back) \/ stack' = Replace(drop)
      BY DEF EndPoll, PollPending, PollReady, EndDrop
    <2> HIDE DEF back, drop
    <2> QED
      BY <1>2, <2>1
  <1> HIDE DEF back, drop
  <1>4. PICK n \in DOMAIN stack :
           /\ Top = stack[n] /\ DOMAIN stack' = DOMAIN stack
           /\ \A u \in Task : Polled(n, u)' <=> f.phase = "poll" /\ f.task = u
           /\ \A d \in DOMAIN stack \ {n}, u \in Task : Polled(d, u)' <=> Polled(d, u)
    BY <1>1, <1>3, ReplacedPolls
  <1>5. \A u \in Task : ~Polled(n, u)' /\ (Polled(n, u) => u = t)
    BY <1>0, <1>3, <1>4 DEF Polled
  <1>6. /\ \A d \in DOMAIN stack', u \in Task : Polled(d, u)' => d \in DOMAIN stack /\ Polled(d, u)
        /\ \A d \in DOMAIN stack, u \in Task : Polled(d, u) /\ u # t => d \in DOMAIN stack' /\ Polled(d, u)'
    BY <1>4, <1>5
  <1>7. CASE PollPending
    <2>1. Polled(n, t)
      BY <1>0, <1>4, <1>7 DEF PollPending, Polling, Phase, Polled
    <2>2. CASE slot[t] # "absent" /\ ~Finished(t)
      <3>1. slot' = [slot EXCEPT ![t] = "idle"] /\ flags' = flags
        BY <1>0, <1>7, <2>2 DEF PollPending
      <3>2. \A d \in DOMAIN stack' : ~Polled(d, t)'
        BY <1>2, <1>4, <1>5, <2>1, <2>2 DEF Slots
      <3> QED
        BY <1>1, <1>2, <1>6, <2>2, <3>1, <3>2, NewSlot
    <2>3. CASE ~(slot[t] # "absent" /\ ~Finished(t))
      <3>1. slot' = slot /\ flags' = flags
        BY <1>0, <1>7, <2>3 DEF PollPending
      <3>2. Finished(t)
        BY <1>2, <2>1, <2>3 DEF Slots
      <3>3. \A u \in Task : Finished(u)' <=> Finished(u)
        BY <3>1 DEF Finished
      <3>4. \A u \in Task : slot'[u] = "taken" <=> ~Finished(u)' /\ \E d \in DOMAIN stack' : Polled(d, u)'
        BY <1>4, <1>6, <3>1, <3>2, <3>3 DEF Slots
      <3>5. \A d, e \in DOMAIN stack', u \in Task : Polled(d, u)' /\ Polled(e, u)' /\ ~Finished(u)' => d = e
        BY <1>6, <3>3 DEF Slots
      <3> QED
        BY <1>1, <3>1, <3>3, <3>4, <3>5 DEF Slots
    <2> QED
      BY <2>2, <2>3
  <1>8. CASE PollReady
    <2>1. flags' = [flags EXCEPT ![t] = @ \cup {"COMPLETED"}] /\ slot' = [slot EXCEPT ![t] = "absent"]
      BY <1>0, <1>8 DEF PollReady
    <2>2. slot'[t] = "absent" /\ \A u \in Task \ {t} : slot'[u] = slot[u]
      BY <1>2, <2>1 DEF Shape
    <2> QED
      BY <1>1, <1>2, <1>6, <2>1, <2>2, FinishSlot
  <1>9. CASE EndDrop
    <2>1. UNCHANGED <<flags, slot>> /\ Top.phase = "drop"
      BY <1>9 DEF EndDrop, Phase
    <2>2. \A u \in Task : ~Polled(n, u)
      BY <1>4, <2>1 DEF Polled
    <2>3. \A u : Finished(u)' <=> Finished(u)
      BY <2>1 DEF Finished
    <2> QED
      BY <1>1, <1>4, <1>6, <2>1, <2>2, <2>3, QuietSlots
  <1> QED
    BY <1>7, <1>8, <1>9 DEF EndPoll

\* No step loses a future or lets two calls poll it.
LEMMA NextSlots ==
    ASSUME Shape, Named, Slots, [Next]_vars
    PROVE  Slots'
  <1>0. flags \in [Task -> SUBSET Flag] /\ slot \in [Task -> {"absent", "idle", "taken"}]
    BY DEF Shape
  <1>1. ASSUME NEW th \in Threads, Schedule(th) PROVE Slots'
    <2>1. stack' = stack /\ slot' = slot /\ loop' = loop
      BY <1>1 DEF Schedule, CheckOpen, SetQueued, PushInbox, NotifyLoop
    <2>2. \A u \in Task : Finished(u)' <=> Finished(u)
      BY <1>0, <1>1 DEF Schedule, CheckOpen, SetQueued, PushInbox, NotifyLoop, Finished
    <2>3. \A d, t : Polled(d, t)' <=> Polled(d, t)
      BY <2>1 DEF Polled
    <2> QED
      BY <2>1, <2>2, <2>3, QuietSlots
  <1>2. ASSUME NEW th \in Threads, NEW t \in Task, CallWake(th, t) PROVE Slots'
    BY <1>2, StillSlots DEF CallWake
  <1>3. ASSUME NEW t \in Task, Spawn(t) PROVE Slots'
    BY <1>3, EnterSlots DEF Spawn, CanCall, InCode, MainFree
  <1>4. ASSUME NEW t \in Task, BlockOn(t) PROVE Slots'
    <2> DEFINE f == Frame("block_on", t, <<>>)
    <2>1. /\ stack' = Append(stack, f) /\ stack \in Seq(FrameType) /\ Enter(t)
          /\ UNCHANGED <<flags, loop>> /\ loop # "gone"
      BY <1>4 DEF BlockOn, CanNest, InCode, MainFree, Shape
    <2>2. f \in FrameType /\ f.phase = "next"
      <3>1. <<>> \in Seq(Task)
        BY EmptySeq
      <3> QED
        BY <3>1 DEF FrameType, Frame
    <2> HIDE DEF f
    <2>3. /\ DOMAIN stack' = DOMAIN stack \cup {Len(stack')}
          /\ stack'[Len(stack')] = f /\ \A d \in DOMAIN stack : stack'[d] = stack[d]
      BY <2>1, <2>2, AddLast
    <2> QED
      BY <2>1, <2>2, <2>3, EnterSlots
  <1>5. ASSUME NEW n \in 1 .. Len(inbox), ProcessTasks(n) PROVE Slots'
    <2> DEFINE p == SubSeq(inbox, 1, n)
               f == Frame("process_tasks", NoTask, p)
    <2>1. /\ stack' = Append(stack, f) /\ stack \in Seq(FrameType) /\ inbox \in Seq(Task)
          /\ UNCHANGED <<flags, slot, loop>>
      BY <1>5 DEF ProcessTasks, Shape
    <2>2. p \in Seq(Task)
      BY <2>1, SplitOnce
    <2> HIDE DEF p
    <2>3. f \in FrameType /\ f.phase = "next"
      BY <2>2 DEF FrameType, Frame
    <2> HIDE DEF f
    <2>4. /\ DOMAIN stack' = DOMAIN stack \cup {Len(stack')}
          /\ stack'[Len(stack')] = f /\ \A d \in DOMAIN stack : stack'[d] = stack[d]
      BY <2>1, <2>3, AddLast
    <2>5. /\ \A d \in DOMAIN stack', t \in Task : Polled(d, t)' => d \in DOMAIN stack /\ Polled(d, t)
          /\ \A d \in DOMAIN stack, t \in Task : Polled(d, t) => d \in DOMAIN stack' /\ Polled(d, t)'
      BY <2>3, <2>4 DEF Polled
    <2>6. \A u : Finished(u)' <=> Finished(u)
      BY <2>1 DEF Finished
    <2> QED
      BY <2>1, <2>5, <2>6, QuietSlots
  <1>6. ASSUME NEW t \in Task, Detach(t) PROVE Slots'
    BY <1>6, StillSlots DEF Detach
  <1>7. ASSUME NEW t \in Task, DropHandle(t) PROVE Slots'
    <2>1. flags' = [flags EXCEPT ![t] = @ \cup {"CANCELED"}] /\ UNCHANGED <<stack, loop>>
      BY <1>7 DEF DropHandle
    <2>2. slot'[t] = "absent" /\ \A u \in Task \ {t} : slot'[u] = slot[u]
      BY <1>0, <1>7 DEF DropHandle, Slots
    <2>3. \A d, u : Polled(d, u)' <=> Polled(d, u)
      BY <2>1 DEF Polled
    <2> QED
      BY <2>1, <2>2, <2>3, FinishSlot
  <1>8. ASSUME NEW t \in Task, DropHandleLate(t) PROVE Slots'
    <2>1. flags' = [flags EXCEPT ![t] = @ \cup {"CANCELED"}] /\ UNCHANGED <<stack, loop, slot>>
      BY <1>8 DEF DropHandleLate
    <2>2. slot'[t] = "absent"
      BY <1>8 DEF DropHandleLate, Slots
    <2>3. \A d, u : Polled(d, u)' <=> Polled(d, u)
      BY <2>1 DEF Polled
    <2> QED
      BY <2>1, <2>2, <2>3, FinishSlot
  <1>9. CASE Return
    <2>1. /\ stack' = Front(stack) /\ stack # <<>> /\ Top.phase = "next"
          /\ UNCHANGED <<flags, slot, loop>> /\ stack \in Seq(FrameType)
      BY <1>9 DEF Return, BatchDone, Phase, Shape
    <2>2. /\ Len(stack) \in DOMAIN stack /\ DOMAIN stack' = DOMAIN stack \ {Len(stack)}
          /\ \A d \in DOMAIN stack' : stack'[d] = stack[d]
      BY <2>1, DropLast
    <2>3. /\ \A d \in DOMAIN stack', t \in Task : Polled(d, t)' => d \in DOMAIN stack /\ Polled(d, t)
          /\ \A d \in DOMAIN stack, t \in Task : Polled(d, t) => d \in DOMAIN stack' /\ Polled(d, t)'
      BY <2>1, <2>2 DEF Polled, Top
    <2>4. \A u : Finished(u)' <=> Finished(u)
      BY <2>1 DEF Finished
    <2> QED
      BY <2>1, <2>3, <2>4, QuietSlots
  <1>10. CASE DrainAgain
    <2> DEFINE f == [Top EXCEPT !.batch = inbox]
    <2>1. /\ stack' = Replace(f) /\ stack # <<>> /\ Top.phase = "next" /\ inbox \in Seq(Task)
          /\ UNCHANGED <<flags, slot, loop>>
      BY <1>10 DEF DrainAgain, BatchDone, Phase, Shape
    <2>2. f \in FrameType /\ f.phase = "next"
      BY <2>1, TopShape DEF FrameType
    <2> HIDE DEF f
    <2>3. PICK n \in DOMAIN stack :
             /\ Top = stack[n] /\ DOMAIN stack' = DOMAIN stack
             /\ \A u \in Task : Polled(n, u)' <=> f.phase = "poll" /\ f.task = u
             /\ \A d \in DOMAIN stack \ {n}, u \in Task : Polled(d, u)' <=> Polled(d, u)
      BY <2>1, <2>2, ReplacedPolls
    <2>4. \A u \in Task : ~Polled(n, u) /\ ~Polled(n, u)'
      BY <2>1, <2>2, <2>3 DEF Polled
    <2>5. \A u : Finished(u)' <=> Finished(u)
      BY <2>1 DEF Finished
    <2> QED
      BY <2>1, <2>3, <2>4, <2>5, QuietSlots
  <1>11. CASE Panic
    BY <1>11, StillSlots DEF Panic
  <1>12. CASE CloseExecutor
    BY <1>12, StillSlots DEF CloseExecutor
  <1>13. CASE TakeInbox
    BY <1>13, StillSlots DEF TakeInbox
  <1>14. CASE CancelAll
    <2>1. stack' = stack /\ \A t \in Task : slot'[t] = "absent"
      BY <1>14 DEF CancelAll
    <2>2. \A t \in Task : Finished(t)' <=> Finished(t) \/ slot[t] # "absent"
      BY <1>0, <1>14 DEF CancelAll, Finished
    <2>3. \A d, u : Polled(d, u)' <=> Polled(d, u)
      BY <2>1 DEF Polled
    <2> QED
      BY <2>1, <2>2, <2>3 DEF Slots
  <1>15. CASE Sleep
    BY <1>15, StillSlots DEF Sleep
  <1>16. CASE WakeUp
    BY <1>16, StillSlots DEF WakeUp
  <1>17. CASE UNCHANGED vars
    BY <1>17, StillSlots DEF vars
  <1> QED
    BY <1>1, <1>2, <1>3, <1>4, <1>5, <1>6, <1>7, <1>8, <1>9, <1>10, <1>11, <1>12, <1>13, <1>14,
       <1>15, <1>16, <1>17, RunSlots, EndSlots DEF Next, Process, Finish
-----------------------------------------------------------------------------
\* While the event loop is asleep only threads in schedule() act, and whoever
\* pushes into the inbox wakes the loop next.
LEMMA NextSleep ==
    ASSUME Shape, NoSleepOnWork, [Next]_vars
    PROVE  NoSleepOnWork'
  <1>0. call \in [Threads -> [pc : {"idle", "check", "mark", "push", "notify"},
                             task : Task \cup {NoTask}]]
    BY DEF Shape
  <1>1. ASSUME NEW th \in Threads, PushInbox(th) PROVE NoSleepOnWork'
    BY <1>0, <1>1 DEF PushInbox, NoSleepOnWork
  <1>2. ASSUME NEW th \in Threads, NotifyLoop(th) PROVE NoSleepOnWork'
    BY <1>2 DEF NotifyLoop, NoSleepOnWork
  <1>3. ASSUME NEW th \in Threads, CheckOpen(th) \/ SetQueued(th) PROVE NoSleepOnWork'
    <2>1. /\ UNCHANGED <<inbox, loop, signal>>
          /\ \A x \in Threads : call[x].pc = "notify" => call'[x].pc = "notify"
      BY <1>0, <1>3 DEF CheckOpen, SetQueued, Idle
    <2> QED
      BY <2>1 DEF NoSleepOnWork
  <1>4. ASSUME NEW th \in Threads, NEW t \in Task, CallWake(th, t) PROVE NoSleepOnWork'
    <2>1. /\ UNCHANGED <<inbox, loop, signal>>
          /\ \A x \in Threads : call[x].pc = "notify" => call'[x].pc = "notify"
      BY <1>0, <1>4 DEF CallWake
    <2> QED
      BY <2>1 DEF NoSleepOnWork
  <1>5. ASSUME NEW t \in Task, Spawn(t) \/ BlockOn(t) \/ Detach(t) \/ DropHandle(t) \/ DropHandleLate(t)
        PROVE NoSleepOnWork'
    BY <1>5 DEF Spawn, BlockOn, Detach, DropHandle, DropHandleLate, CanCall, CanNest, InCode,
                MainFree, NoSleepOnWork
  <1>6. ASSUME NEW n \in 1 .. Len(inbox), ProcessTasks(n) PROVE NoSleepOnWork'
    BY <1>6 DEF ProcessTasks, CanNest, InCode, MainFree, NoSleepOnWork
  <1>7. CASE RunTask
    BY <1>7 DEF RunTask, SkipFinished, SkipTaken, BeginPoll, RunStep, MainFree, NoSleepOnWork
  <1>8. CASE EndPoll
    BY <1>8 DEF EndPoll, PollPending, PollReady, EndDrop, Polling, MainFree, NoSleepOnWork
  <1>9. CASE Finish
    BY <1>9 DEF Finish, Return, DrainAgain, Panic, BatchDone, MainFree, NoSleepOnWork
  <1>10. CASE CloseExecutor \/ TakeInbox \/ CancelAll \/ Sleep \/ WakeUp
    BY <1>10 DEF CloseExecutor, TakeInbox, CancelAll, Sleep, WakeUp, NoSleepOnWork
  <1>11. CASE UNCHANGED vars
    BY <1>11 DEF vars, NoSleepOnWork
  <1> QED
    BY <1>1, <1>2, <1>3, <1>4, <1>5, <1>6, <1>7, <1>8, <1>9, <1>10, <1>11
    DEF Next, Process, Schedule
-----------------------------------------------------------------------------
\* A new executor.
LEMMA InitInv == Init => IInv
  <1> SUFFICES ASSUME Init PROVE IInv
    OBVIOUS
  <1>1. /\ inbox = <<>> /\ stack = <<>> /\ <<>> \in Seq(Task) /\ <<>> \in Seq(FrameType)
        /\ Range(<<>>) = {} /\ IsInjective(<<>>) /\ DOMAIN <<>> = {}
    BY EmptySeq, NoEntries DEF Init
  <1>2. /\ flags = [t \in Task |-> {}] /\ slot = [t \in Task |-> "absent"]
        /\ call = [th \in Threads |-> Idle] /\ loop = "awake" /\ nextId = 0 /\ closed = FALSE
        /\ owed = {} /\ skipped = {} /\ handles = {} /\ known = {}
    BY DEF Init
  <1>3. Shape
    <2>1. /\ flags \in [Task -> SUBSET Flag] /\ slot \in [Task -> {"absent", "idle", "taken"}]
          /\ call \in [Threads -> [pc : {"idle", "check", "mark", "push", "notify"},
                                 task : Task \cup {NoTask}]]
      BY <1>2 DEF Idle
    <2>2. nextId \in 0 .. MaxTasks
      <3>1. MaxTasks \in Nat
        BY BoundsAssumption
      <3> QED
        BY <1>2, <3>1
    <2>3. handles \cup known \cup owed \cup skipped \cup Range(inbox) \subseteq Spawned
      BY <1>1, <1>2
    <2>4. inbox \in Seq(Task) /\ stack \in Seq(FrameType)
      BY <1>1
    <2>5. budget \in 0 .. OpsPerPoll
      <3>1. OpsPerPoll \in Nat /\ budget = OpsPerPoll
        BY BoundsAssumption DEF Init
      <3> QED
        BY <3>1
    <2>6. loop \notin {"closing", "canceling", "gone"}
      BY <1>2
    <2>7. closed = (loop \in {"closing", "canceling", "gone"})
      <3>1. (loop \in {"closing", "canceling", "gone"}) = FALSE
        BY <2>6
      <3>2. closed = FALSE
        BY <1>2
      <3> QED
        BY <3>1, <3>2
    <2>8. loop \in {"awake", "asleep", "closing", "canceling", "gone", "panicked"}
      BY <1>2
    <2>9. signal \in BOOLEAN
      BY Zenon DEF Init
    <2> QED
      BY <2>1, <2>9, <2>2, <2>3, <2>4, <2>5, <2>7, <2>8 DEF Shape
  <1>4. Named
    BY <1>1, <1>2 DEF Named, Idle
  <1>5. \A t : \A th \in Threads : ~Pushing(th, t)
    BY <1>2 DEF Pushing, Idle
  <1>6. \A t : ~Queued(t)
    BY <1>1, <1>5 DEF Queued
  <1>7. Told
    BY <1>1, <1>2, <1>5, <1>6 DEF Told, Once, Marked, MarkTold, WakeTold
  <1>8. Slots
    BY <1>1, <1>2 DEF Slots, Finished
  <1> QED
    BY <1>2, <1>3, <1>4, <1>7, <1>8 DEF IInv, NoSleepOnWork

\* Every step of the executor and its threads keeps the invariant.
LEMMA NextInv == IInv /\ [Next]_vars => IInv'
  BY NextShape, NextTold, NextSlots, NextSleep DEF IInv

\* The invariant holds in every reachable state.
LEMMA SpecInv == Spec => []IInv
  BY InitInv, NextInv, PTL DEF Spec

\* Entries names the places that Queued tells of.
LEMMA InEntries ==
    ASSUME Shape, NEW t
    PROVE  \A e : e \in Entries(t) <=>
               \/ \E i \in DOMAIN inbox : inbox[i] = t /\ e = <<"inbox", i>>
               \/ \E th \in Threads : Pushing(th, t) /\ e = <<"push", th>>
               \/ \E d \in DOMAIN stack :
                    \E i \in DOMAIN stack[d].batch : stack[d].batch[i] = t /\ e = <<"batch", d, i>>
  <1>1. \A th \in Threads : Pushing(th, t) <=> call[th] = [pc |-> "push", task |-> t]
    BY DEF Pushing, Shape
  <1> QED
    BY <1>1 DEF Entries

\* A task has an entry exactly when it is in one of the three places.
LEMMA EntriesQueued ==
    ASSUME Shape, NEW t
    PROVE  Entries(t) # {} <=> Queued(t)
  <1>1. ASSUME NEW e \in Entries(t) PROVE Queued(t)
    BY InEntries DEF Queued, Held, Range
  <1>2. ASSUME Queued(t) PROVE \E e : e \in Entries(t)
    BY <1>2, InEntries DEF Queued, Held, Range
  <1> QED
    BY <1>1, <1>2

\* No two places hold the same task.
LEMMA OnceEntries ==
    ASSUME Shape, Once, NEW t \in Task, NEW e \in Entries(t), NEW f \in Entries(t)
    PROVE  e = f
  <1> DEFINE InInbox(g, i) == i \in DOMAIN inbox /\ inbox[i] = t /\ g = <<"inbox", i>>
             InPush(g, th) == th \in Threads /\ Pushing(th, t) /\ g = <<"push", th>>
             InBatch(g, d, i) == /\ d \in DOMAIN stack /\ i \in DOMAIN stack[d].batch
                                 /\ stack[d].batch[i] = t /\ g = <<"batch", d, i>>
  <1>1. \A g \in {e, f} : (\E i : InInbox(g, i)) \/ (\E th : InPush(g, th)) \/ (\E d, i : InBatch(g, d, i))
    BY InEntries
  <1>2. \A g, i : InInbox(g, i) => t \in Range(inbox)
    BY DEF Range
  <1>3. \A g, d, i : InBatch(g, d, i) => d \in DOMAIN stack /\ t \in Held(d)
    BY DEF Held, Range
  <1>4. \A i, j : InInbox(e, i) /\ InInbox(f, j) => e = f
    BY DEF Once, IsInjective
  <1>5. \A x, y : InPush(e, x) /\ InPush(f, y) => e = f
    BY DEF Once
  <1>6. \A d, i, c, j : InBatch(e, d, i) /\ InBatch(f, c, j) => e = f
    <2> SUFFICES ASSUME NEW d, NEW i, NEW c, NEW j, InBatch(e, d, i), InBatch(f, c, j)
                 PROVE  e = f
      OBVIOUS
    <2>1. d = c
      BY <1>3 DEF Once
    <2>2. i = j
      BY <2>1 DEF Once, IsInjective
    <2> QED
      BY <2>1, <2>2
  <1> HIDE DEF InInbox, InPush, InBatch
  <1>7. \A g, h \in {e, f} : \A i, th : ~(InInbox(g, i) /\ InPush(h, th))
    BY <1>2 DEF Once, InPush
  <1>8. \A g, h \in {e, f} : \A i, d, j : ~(InInbox(g, i) /\ InBatch(h, d, j))
    BY <1>2, <1>3 DEF Once
  <1>9. \A g, h \in {e, f} : \A th, d, j : ~(InPush(g, th) /\ InBatch(h, d, j))
    BY <1>3 DEF Once, InPush
  <1> QED
    BY <1>1, <1>4, <1>5, <1>6, <1>7, <1>8, <1>9
-----------------------------------------------------------------------------
\* However many threads wake a task at the same time, it has at most one queue
\* entry, and it has one while QUEUED is set, so that a wake-up which finds it set
\* may be dropped (schedule() and run() of src/executor.rs).
THEOREM QueuedOnce == Spec => []QueuedExactlyOnce
  <1>1. IInv => QueuedExactlyOnce
    <2> SUFFICES ASSUME IInv, NEW t \in Task
                 PROVE  /\ \A e, f \in Entries(t) : e = f
                        /\ ~closed /\ "QUEUED" \in flags[t] /\ ~Finished(t) => Entries(t) # {}
      BY DEF QueuedExactlyOnce
    <2>1. \A e, f \in Entries(t) : e = f
      BY OnceEntries DEF IInv, Told
    <2>2. ~closed /\ "QUEUED" \in flags[t] /\ ~Finished(t) => Entries(t) # {}
      BY EntriesQueued DEF IInv, Told, MarkTold
    <2> QED
      BY <2>1, <2>2
  <1> QED
    BY <1>1, SpecInv, PTL

\* No wake-up is lost, from any thread and at any moment of a poll.
THEOREM WakesAreKept == Spec => []NoLostWake
  <1>1. IInv => NoLostWake
    <2> SUFFICES ASSUME IInv, NEW t \in owed \ skipped, ~Finished(t), ~closed
                 PROVE  Waking(t) \/ Entries(t) # {}
      BY DEF NoLostWake
    <2>1. Waking(t) \/ Queued(t)
      BY DEF IInv, Told, WakeTold
    <2> QED
      BY <2>1, EntriesQueued DEF IInv
  <1> QED
    BY <1>1, SpecInv, PTL

\* The event loop never sleeps on a queued task that nobody announces.
THEOREM LoopIsWoken == Spec => []NoSleepOnWork
  <1>1. IInv => NoSleepOnWork
    BY DEF IInv
  <1> QED
    BY <1>1, SpecInv, PTL

\* A future is out of its slot exactly while it is polled, and only spawned tasks
\* are ever queued.
THEOREM ExecutorTypeCorrect == Spec => []TypeOK
  <1>1. IInv => TypeOK
    BY DEF IInv, Shape, Slots, Polled, TypeOK
  <1> QED
    BY <1>1, SpecInv, PTL
-----------------------------------------------------------------------------
(***************************************************************************)
(* The end of the executor, and the bound on the depth of nested calls.    *)
(***************************************************************************)
\* A spawned task whose slot is gone has finished: whoever removes a slot sets
\* CANCELED or COMPLETED first.
Kept == \A t \in Spawned : slot[t] = "absent" => Finished(t)

\* Steps that give no task an end, and take no slot from one that goes on.
LEMMA StillKept ==
    ASSUME Shape, Kept, nextId' = nextId,
           \A t \in Spawned : Finished(t) => Finished(t)',
           \A t \in Spawned : slot'[t] = "absent" => slot[t] = "absent" \/ Finished(t)'
    PROVE  Kept'
  <1>1. Spawned' = Spawned
    BY DEF Spawned
  <1> QED
    BY <1>1 DEF Kept

\* A task is spawned with a slot.
LEMMA EnterKept ==
    ASSUME Shape, Named, Kept, NEW t \in Task, Enter(t), flags' = flags
    PROVE  Kept'
  <1>1. Spawned' = Spawned \cup {t} /\ slot' = [slot EXCEPT ![t] = "idle"] /\ t \notin Spawned
    BY EnterShape DEF Enter
  <1>2. slot'[t] = "idle" /\ \A u \in Task \ {t} : slot'[u] = slot[u]
    BY <1>1 DEF Shape
  <1>3. \A u : Finished(u)' <=> Finished(u)
    BY DEF Finished
  <1> QED
    BY <1>1, <1>2, <1>3, SpawnedTasks DEF Kept

\* No step takes a slot away from a task that has not ended.
LEMMA NextKept ==
    ASSUME Shape, Named, Slots, Kept, [Next]_vars
    PROVE  Kept'
  <1>0. /\ flags \in [Task -> SUBSET Flag] /\ slot \in [Task -> {"absent", "idle", "taken"}]
        /\ Spawned \subseteq Task
    BY SpawnedTasks DEF Shape
  <1>1. ASSUME NEW th \in Threads, Schedule(th) PROVE Kept'
    <2>1. slot' = slot /\ nextId' = nextId
      BY <1>1 DEF Schedule, CheckOpen, SetQueued, PushInbox, NotifyLoop
    <2>2. \A t \in Spawned : Finished(t) => Finished(t)'
      BY <1>0, <1>1 DEF Schedule, CheckOpen, SetQueued, PushInbox, NotifyLoop, Finished
    <2> QED
      BY <2>1, <2>2, StillKept
  <1>2. ASSUME NEW t \in Task, Spawn(t) \/ BlockOn(t) PROVE Kept'
    BY <1>2, EnterKept DEF Spawn, BlockOn
  <1>3. ASSUME NEW t \in Task, DropHandle(t) PROVE Kept'
    <2>1. /\ flags' = [flags EXCEPT ![t] = @ \cup {"CANCELED"}] /\ nextId' = nextId
          /\ \A u \in Task \ {t} : slot'[u] = slot[u]
      BY <1>0, <1>3 DEF DropHandle
    <2>2. Finished(t)' /\ \A u \in Task : Finished(u) => Finished(u)'
      BY <1>0, <2>1 DEF Finished
    <2> QED
      BY <1>0, <2>1, <2>2, StillKept
  <1>4. ASSUME NEW t \in Task, DropHandleLate(t) PROVE Kept'
    <2>1. \A u \in Task : Finished(u) => Finished(u)'
      BY <1>0, <1>4 DEF DropHandleLate, Finished
    <2> QED
      BY <1>0, <1>4, <2>1, StillKept DEF DropHandleLate
  <1>5. CASE RunTask
    <2>1. nextId' = nextId /\ \A u \in Task : slot'[u] = "absent" => slot[u] = "absent"
      BY <1>0, <1>5 DEF RunTask, SkipFinished, SkipTaken, BeginPoll
    <2>2. \A u \in Task : Finished(u) => Finished(u)'
      BY <1>0, <1>5 DEF RunTask, SkipFinished, SkipTaken, BeginPoll, Finished
    <2> QED
      BY <1>0, <2>1, <2>2, StillKept
  <1>6. CASE PollPending \/ EndDrop
    <2>1. /\ flags' = flags /\ nextId' = nextId
          /\ \A u \in Task : slot'[u] = "absent" => slot[u] = "absent"
      BY <1>0, <1>6 DEF PollPending, EndDrop
    <2>2. \A u \in Task : Finished(u) => Finished(u)'
      BY <2>1 DEF Finished
    <2> QED
      BY <1>0, <2>1, <2>2, StillKept
  <1>7. CASE PollReady
    <2>0. PICK t : t = Top.task
      OBVIOUS
    <2>1. /\ flags' = [flags EXCEPT ![t] = @ \cup {"COMPLETED"}] /\ nextId' = nextId
          /\ slot' = [slot EXCEPT ![t] = "absent"]
      BY <1>7, <2>0 DEF PollReady
    <2>2. \A u \in Task : (u = t => Finished(u)') /\ (Finished(u) => Finished(u)')
      BY <1>0, <2>1 DEF Finished
    <2>3. \A u \in Task : slot'[u] = "absent" => slot[u] = "absent" \/ u = t
      BY <1>0, <2>1
    <2> QED
      BY <1>0, <2>1, <2>2, <2>3, StillKept
  <1>8. CASE CancelAll
    <2>1. /\ flags' = [t \in Task |-> IF slot[t] = "absent" THEN flags[t]
                                      ELSE flags[t] \cup {"CANCELED"}]
          /\ nextId' = nextId
      BY <1>8 DEF CancelAll
    <2>2. \A u \in Task : (slot[u] # "absent" => Finished(u)') /\ (Finished(u) => Finished(u)')
      BY <1>0, <2>1 DEF Finished
    <2> QED
      BY <1>0, <2>1, <2>2, StillKept
  <1>9. ASSUME UNCHANGED <<flags, slot, nextId>> PROVE Kept'
    <2>1. \A u : Finished(u)' <=> Finished(u)
      BY <1>9 DEF Finished
    <2> QED
      BY <1>9, <2>1, StillKept
  <1>10. ASSUME NEW th \in Threads, NEW t \in Task, CallWake(th, t) PROVE Kept'
    BY <1>9, <1>10 DEF CallWake
  <1>11. ASSUME NEW t \in Task, Detach(t) PROVE Kept'
    BY <1>9, <1>11 DEF Detach
  <1>12. CASE Process \/ Finish \/ CloseExecutor \/ TakeInbox \/ Sleep \/ WakeUp \/ UNCHANGED vars
    <2>1. UNCHANGED <<flags, slot, nextId>>
      BY <1>12 DEF Process, ProcessTasks, Finish, Return, DrainAgain, Panic, CloseExecutor,
                   TakeInbox, Sleep, WakeUp, vars
    <2> QED
      BY <1>9, <2>1
  <1> QED
    BY <1>1, <1>2, <1>3, <1>4, <1>5, <1>6, <1>7, <1>8, <1>10, <1>11, <1>12 DEF Next, EndPoll

\* Kept holds in every reachable state.
LEMMA KeptInv == Spec => []Kept
  <1>1. Init => Kept
    <2> SUFFICES ASSUME Init PROVE Kept
      OBVIOUS
    <2>1. nextId = 0
      BY DEF Init
    <2>2. Spawned = {}
      BY <2>1 DEF Spawned
    <2> QED
      BY <2>2 DEF Kept
  <1>2. IInv /\ Kept /\ [Next]_vars => Kept'
    BY NextKept DEF IInv
  <1> QED
    BY <1>1, <1>2, SpecInv, PTL DEF Spec

\* The end of the executor ends every task: ExecutorState::drop in src/executor.rs
\* cancels each one that still has a slot, and the others had ended.
THEOREM ExecutorEndsItsTasks == Spec => []NothingOutlivesTheExecutor
  <1>1. IInv /\ Kept => NothingOutlivesTheExecutor
    BY SpawnedTasks DEF IInv, Slots, Kept, NothingOutlivesTheExecutor
  <1> QED
    BY <1>1, SpecInv, KeptInv, PTL

\* Calls are nested MaxDepth deep at most.
Bounded == DOMAIN stack \subseteq 1 .. MaxDepth

\* Only process_tasks and block_on enter a call.
LEMMA NextBounded ==
    ASSUME Shape, Bounded, [Next]_vars
    PROVE  Bounded'
  <1>0. /\ stack \in Seq(FrameType) /\ Len(stack) \in Nat /\ DOMAIN stack = 1 .. Len(stack)
        /\ MaxDepth \in Nat
    BY LenProperties, BoundsAssumption DEF Shape
  <1>1. ASSUME stack' = stack PROVE Bounded'
    BY <1>1 DEF Bounded
  <1>2. ASSUME NEW f \in FrameType, stack' = Append(stack, f), CanNest PROVE Bounded'
    <2>1. Len(stack') = Len(stack) + 1 /\ DOMAIN stack' = DOMAIN stack \cup {Len(stack')}
      BY <1>0, <1>2, AddLast
    <2> QED
      BY <1>0, <1>2, <2>1 DEF CanNest, Bounded
  <1>3. ASSUME NEW f, stack' = Replace(f) PROVE Bounded'
    BY <1>3 DEF Replace, Bounded
  <1>4. CASE Return
    <2>1. stack' = Front(stack) /\ stack # <<>>
      BY <1>4 DEF Return, BatchDone, Phase
    <2>2. DOMAIN stack' = DOMAIN stack \ {Len(stack)}
      BY <1>0, <2>1, DropLast
    <2> QED
      BY <2>2 DEF Bounded
  <1>5. CASE RunTask \/ EndPoll \/ DrainAgain
    BY <1>3, <1>5 DEF RunTask, SkipFinished, SkipTaken, BeginPoll, EndPoll, PollPending, PollReady,
                      EndDrop, DrainAgain
  <1>6. ASSUME NEW t \in Task, BlockOn(t) PROVE Bounded'
    BY <1>2, <1>6, BlockOnFrame DEF BlockOn
  <1>7. ASSUME NEW n \in 1 .. Len(inbox), ProcessTasks(n) PROVE Bounded'
    BY <1>2, <1>7, ProcessFrame DEF ProcessTasks
  <1>8. ASSUME NEW th \in Threads, Schedule(th) \/ \E t \in Task : CallWake(th, t) PROVE Bounded'
    BY <1>1, <1>8 DEF Schedule, CheckOpen, SetQueued, PushInbox, NotifyLoop, CallWake
  <1>9. ASSUME NEW t \in Task, Spawn(t) \/ Detach(t) \/ DropHandle(t) \/ DropHandleLate(t)
        PROVE  Bounded'
    BY <1>1, <1>9 DEF Spawn, Detach, DropHandle, DropHandleLate
  <1>10. CASE Panic \/ CloseExecutor \/ TakeInbox \/ CancelAll \/ Sleep \/ WakeUp \/ UNCHANGED vars
    BY <1>1, <1>10 DEF Panic, CloseExecutor, TakeInbox, CancelAll, Sleep, WakeUp, vars
  <1> QED
    BY <1>4, <1>5, <1>6, <1>7, <1>8, <1>9, <1>10 DEF Next, Finish, Process

\* The depth is bounded in every reachable state.
LEMMA BoundedInv == Spec => []Bounded
  <1>1. Init => Bounded
    <2> SUFFICES ASSUME Init PROVE Bounded
      OBVIOUS
    <2>1. stack = <<>>
      BY DEF Init
    <2> QED
      BY <2>1 DEF Bounded
  <1>2. IInv /\ Bounded /\ [Next]_vars => Bounded'
    BY NextBounded DEF IInv
  <1> QED
    BY <1>1, <1>2, SpecInv, PTL DEF Spec
-----------------------------------------------------------------------------
(***************************************************************************)
(* The executor implements RunQueue.  Ready, Running and Done are reduced  *)
(* to Queued, to the frames and to the flags; then there is one lemma for  *)
(* each kind of step, which names the abstract step it is.                 *)
(***************************************************************************)
\* The tasks with an entry, in this state and in the next.
LEMMA ReadyQueued == Shape => Ready = {t \in Task : Queued(t)}
  BY EntriesQueued DEF Ready

LEMMA NextReadyQueued == Shape' => Ready' = {t \in Task : Queued(t)'}
  <1>1. (Shape => Ready = {t \in Task : Queued(t)})'
    BY ReadyQueued, PTL
  <1> QED
    BY <1>1

\* What is ready when every task keeps its place, or loses or gets one.
LEMMA SameReady ==
    ASSUME Shape, Shape', \A t \in Task : Queued(t)' <=> Queued(t)
    PROVE  Ready' = Ready
  BY ReadyQueued, NextReadyQueued

\* Who is done when no task ends.
LEMMA SameDone ==
    ASSUME \A t \in Task : Finished(t)' <=> Finished(t)
    PROVE  Done' = Done
  BY DEF Done

\* Who is done when one task ends.
LEMMA OneMoreDone ==
    ASSUME Shape, NEW t \in Task, NEW s \in {"CANCELED", "COMPLETED"},
           flags' = [flags EXCEPT ![t] = @ \cup {s}]
    PROVE  Done' = Done \cup {t}
  BY DEF Shape, Done, Finished

\* Who is running when the stack is unchanged, or when a call that polls nothing
\* enters or returns.
LEMMA SameRunning ==
    ASSUME \A d \in DOMAIN stack : stack[d].phase = "poll" => d \in DOMAIN stack' /\ stack'[d] = stack[d],
           \A d \in DOMAIN stack' : stack'[d].phase = "poll" => d \in DOMAIN stack /\ stack'[d] = stack[d]
    PROVE  Running' = Running
  BY DEF Running

\* Who is running when the innermost frame becomes f.
LEMMA SwapRunning ==
    ASSUME Shape, stack # <<>>, NEW f \in FrameType, stack' = Replace(f), NEW n, n = Len(stack)
    PROVE  /\ n \in DOMAIN stack /\ Top = stack[n]
           /\ Top.phase = "poll" => <<n, Top.task>> \in Running
           /\ f.phase # "poll" /\ Top.phase # "poll" => Running' = Running
           /\ f.phase # "poll" /\ Top.phase = "poll" => Running' = Running \ {<<n, Top.task>>}
           /\ f.phase = "poll" /\ Top.phase # "poll" => /\ Running' = Running \cup {<<n, f.task>>}
                                                        /\ \A r \in Running : r[1] # n
  <1>1. /\ DOMAIN stack' = DOMAIN stack /\ n \in DOMAIN stack
        /\ stack'[n] = f /\ Top = stack[n]
        /\ \A d \in DOMAIN stack \ {n} : stack'[d] = stack[d]
    BY ReplaceTop DEF Top
  <1>2. \A r : r \in Running <=> \E d \in DOMAIN stack : stack[d].phase = "poll" /\ r = <<d, stack[d].task>>
    BY DEF Running
  <1>3. \A r : r \in Running' <=> \E d \in DOMAIN stack : stack'[d].phase = "poll" /\ r = <<d, stack'[d].task>>
    BY <1>1 DEF Running
  <1>4. Top.phase = "poll" => <<n, Top.task>> \in Running
    BY <1>1, <1>2
  <1>5. ASSUME f.phase # "poll", Top.phase # "poll" PROVE Running' = Running
    <2>1. \A r : r \in Running' <=> r \in Running
      BY <1>1, <1>2, <1>3, <1>5
    <2> QED
      BY <2>1
  <1>6. ASSUME f.phase # "poll", Top.phase = "poll" PROVE Running' = Running \ {<<n, Top.task>>}
    <2>1. \A r : r \in Running' <=> r \in Running /\ r # <<n, Top.task>>
      <3>1. ASSUME NEW r \in Running' PROVE r \in Running /\ r # <<n, Top.task>>
        BY <1>1, <1>2, <1>3, <1>6
      <3>2. ASSUME NEW r \in Running, r # <<n, Top.task>> PROVE r \in Running'
        BY <1>1, <1>2, <1>3, <3>2
      <3> QED
        BY <3>1, <3>2
    <2> QED
      BY <2>1
  <1>7. ASSUME f.phase = "poll", Top.phase # "poll"
        PROVE  Running' = Running \cup {<<n, f.task>>} /\ \A r \in Running : r[1] # n
    <2>1. \A r : r \in Running' <=> r \in Running \/ r = <<n, f.task>>
      BY <1>1, <1>2, <1>3, <1>7
    <2>2. ASSUME NEW r \in Running PROVE r[1] # n
      BY <1>1, <1>2, <1>7
    <2> QED
      BY <2>1, <2>2
  <1> QED
    BY <1>1, <1>4, <1>5, <1>6, <1>7

\* A task that is out of its slot is being run, and no other task is.
LEMMA RunningPolled ==
    ASSUME NEW t
    PROVE  t \in R!Polled <=> \E d \in DOMAIN stack : Polled(d, t)
  <1>1. \A r : r \in Running <=> \E d \in DOMAIN stack : stack[d].phase = "poll" /\ r = <<d, stack[d].task>>
    BY DEF Running
  <1>2. t \in R!Polled <=> \E r \in Running : r[2] = t
    BY DEF R!Polled
  <1>3. ASSUME NEW r \in Running, r[2] = t PROVE \E d \in DOMAIN stack : Polled(d, t)
    BY <1>1, <1>3 DEF Polled
  <1>4. ASSUME NEW d \in DOMAIN stack, Polled(d, t) PROVE \E r \in Running : r[2] = t
    <2>1. <<d, t>> \in Running
      BY <1>1, <1>4 DEF Polled
    <2> QED
      BY <2>1
  <1> QED
    BY <1>2, <1>3, <1>4

\* Steps of the threads and of the event loop that RunQueue does not see.
LEMMA StillMaps ==
    ASSUME Shape, Shape', UNCHANGED <<flags, nextId, closed>>,
           \A t \in Task : Queued(t)' <=> Queued(t),
           Running' = Running
    PROVE  UNCHANGED R!runVars
  <1>1. Ready' = Ready
    BY SameReady
  <1>2. Done' = Done
    BY SameDone DEF Finished
  <1>3. Spawned' = Spawned
    BY DEF Spawned
  <1> QED
    BY <1>1, <1>2, <1>3 DEF R!runVars

\* schedule(): the task becomes ready when QUEUED is set.
LEMMA ScheduleMaps ==
    ASSUME IInv, Shape', NEW th \in Threads, Schedule(th)
    PROVE  [R!Next]_(R!runVars)
  <1>1. Shape /\ Named /\ Once /\ Marked
    BY DEF IInv, Told
  <1>2. stack' = stack /\ UNCHANGED <<nextId, closed>>
    BY DEF Schedule, CheckOpen, SetQueued, PushInbox, NotifyLoop
  <1>3. Running' = Running /\ Spawned' = Spawned
    BY <1>2 DEF Running, Spawned
  <1>4. CASE CheckOpen(th) \/ NotifyLoop(th)
    <2>1. \A t \in Task : Queued(t)' <=> Queued(t)
      BY <1>1, <1>4, ScheduleEntries, SameOnce
    <2>2. flags' = flags
      BY <1>4 DEF CheckOpen, NotifyLoop
    <2> QED
      BY <1>1, <1>2, <1>3, <2>1, <2>2, StillMaps
  <1>5. CASE PushInbox(th)
    <2>1. \A t \in Task : Queued(t)' <=> Queued(t)
      BY <1>1, <1>5, PushOnce
    <2>2. flags' = flags
      BY <1>5 DEF PushInbox
    <2> QED
      BY <1>1, <1>2, <1>3, <2>1, <2>2, StillMaps
  <1>6. CASE SetQueued(th)
    <2>0. PICK t : t = call[th].task
      OBVIOUS
    <2>1. /\ t \in Task /\ t \in Spawned
          /\ \A u \in Task : Queued(u)' <=> Queued(u) \/ (u = t /\ "QUEUED" \notin flags[t])
      BY <1>1, <1>6, <2>0, SetQueuedOnce DEF SetQueued, Named
    <2>2. \A u \in Task : Finished(u)' <=> Finished(u)
      BY <1>1, <1>6 DEF SetQueued, Finished, Shape
    <2>3. Done' = Done
      BY <2>2, SameDone
    <2>4. CASE Ready' = Ready
      BY <1>2, <1>3, <2>3, <2>4 DEF R!runVars
    <2>5. CASE Ready' # Ready
      <3>1. ~Queued(t) /\ \A u \in Task : Queued(u)' <=> Queued(u) \/ u = t
        BY <1>1, <2>1, <2>5, SameReady
      <3>2. t \notin Ready /\ Ready' = Ready \cup {t}
        BY <1>1, <2>1, <3>1, ReadyQueued, NextReadyQueued
      <3>3. R!Wake(t)
        BY <1>2, <1>3, <2>1, <2>3, <3>2 DEF R!Wake
      <3> QED
        BY <2>1, <3>3 DEF R!Next
    <2> QED
      BY <2>4, <2>5
  <1> QED
    BY <1>4, <1>5, <1>6 DEF Schedule

\* spawn and block_on add a task.
LEMMA EnterMaps ==
    ASSUME IInv, Shape', NEW t \in Task, Spawn(t) \/ BlockOn(t)
    PROVE  R!Next
  <1>1. Shape /\ Named /\ Once
    BY DEF IInv, Told
  <1>2. /\ Enter(t) /\ InCode /\ UNCHANGED <<flags, inbox, closed>>
    BY DEF Spawn, BlockOn, CanCall, CanNest
  <1>3. stack \in Seq(FrameType)
    BY <1>1 DEF Shape
  <1>4. /\ \A d \in DOMAIN stack : d \in DOMAIN stack' /\ stack'[d] = stack[d]
        /\ \A d \in DOMAIN stack' \ DOMAIN stack :
               stack'[d].batch = <<>> /\ stack'[d].phase = "next"
    <2>1. CASE Spawn(t)
      BY <2>1 DEF Spawn
    <2>2. CASE BlockOn(t)
      <3> DEFINE f == Frame("block_on", t, <<>>)
      <3>1. f \in FrameType /\ f.phase = "next" /\ f.batch = <<>> /\ stack' = Append(stack, f)
        BY <2>2, BlockOnFrame DEF BlockOn
      <3> HIDE DEF f
      <3>2. /\ DOMAIN stack' = DOMAIN stack \cup {Len(stack')}
            /\ stack'[Len(stack')] = f /\ \A d \in DOMAIN stack : stack'[d] = stack[d]
        BY <1>3, <3>1, AddLast
      <3> QED
        BY <3>1, <3>2
    <2> QED
      BY <2>1, <2>2
  <1>5. SameEntries
    BY <1>1, <1>2, <1>4, SpawnedTasks, CallEntries DEF Enter, InCode, MainFree
  <1>6. Ready' = Ready
    BY <1>1, <1>5, SameOnce, SameReady
  <1>7. Running' = Running
    BY <1>4, SameRunning
  <1>8. Done' = Done
    BY <1>2, SameDone DEF Finished
  <1>9. t \notin Spawned /\ Spawned' = Spawned \cup {t}
    BY <1>1, <1>2, EnterShape
  <1>10. ~closed /\ closed' = closed
    BY <1>1, <1>2 DEF InCode, MainFree, Shape
  <1>11. R!Spawn(t)
    BY <1>6, <1>7, <1>8, <1>9, <1>10 DEF R!Spawn
  <1> QED
    BY <1>11 DEF R!Next

\* process_tasks takes entries, block_on drains again, a call returns.
LEMMA MoveMaps ==
    ASSUME IInv, Shape', Process \/ DrainAgain \/ Return
    PROVE  UNCHANGED R!runVars
  <1>1. Shape /\ Named /\ Once /\ stack \in Seq(FrameType)
    BY DEF IInv, Told, Shape
  <1>2. UNCHANGED <<flags, nextId, closed>>
    BY DEF Process, ProcessTasks, DrainAgain, Return
  <1>3. \A t \in Task : Queued(t)' <=> Queued(t)
    BY <1>1, ProcessOnce, DrainOnce, ReturnEntries, SameOnce DEF Process
  <1>4. Running' = Running
    <2>1. ASSUME NEW n \in 1 .. Len(inbox), ProcessTasks(n) PROVE Running' = Running
      <3> DEFINE f == Frame("process_tasks", NoTask, SubSeq(inbox, 1, n))
      <3>1. f \in FrameType /\ f.phase = "next" /\ stack' = Append(stack, f)
        BY <1>1, <2>1, ProcessFrame DEF ProcessTasks
      <3> HIDE DEF f
      <3>2. /\ DOMAIN stack' = DOMAIN stack \cup {Len(stack')}
            /\ stack'[Len(stack')] = f /\ \A d \in DOMAIN stack : stack'[d] = stack[d]
        BY <1>1, <3>1, AddLast
      <3> QED
        BY <3>1, <3>2, SameRunning
    <2>2. CASE DrainAgain
      <3> DEFINE f == [Top EXCEPT !.batch = inbox]
      <3>1. stack' = Replace(f) /\ stack # <<>> /\ Top.phase = "next"
        BY <2>2 DEF DrainAgain, BatchDone, Phase
      <3>2. f \in FrameType /\ f.phase = "next"
        BY <1>1, <3>1, TopShape DEF FrameType, Shape
      <3> HIDE DEF f
      <3> QED
        BY <1>1, <3>1, <3>2, SwapRunning
    <2>3. CASE Return
      <3>1. stack' = Front(stack) /\ stack # <<>> /\ Top.phase = "next"
        BY <2>3 DEF Return, BatchDone, Phase
      <3>2. /\ Len(stack) \in DOMAIN stack /\ DOMAIN stack' = DOMAIN stack \ {Len(stack)}
            /\ \A d \in DOMAIN stack' : stack'[d] = stack[d]
        BY <1>1, <3>1, DropLast
      <3> QED
        BY <3>1, <3>2, SameRunning DEF Top
    <2> QED
      BY <2>1, <2>2, <2>3 DEF Process
  <1> QED
    BY <1>1, <1>2, <1>3, <1>4, StillMaps

\* Executor::run uses an entry up: the task is run, or it is done or runs already.
LEMMA RunMaps ==
    ASSUME IInv, Shape', Kept, Bounded, RunTask
    PROVE  R!Next
  <1>0. PICK t, n : t = Head(Top.batch) /\ n = Len(stack)
    OBVIOUS
  <1> DEFINE used == [Top EXCEPT !.batch = Tail(@)]
             polled == [Top EXCEPT !.batch = Tail(@), !.task = t, !.phase = "poll"]
  <1>1. Shape /\ Named /\ Once /\ Slots
    BY DEF IInv, Told
  <1>2. /\ RunStep /\ Top.phase = "next" /\ stack # <<>> /\ loop = "awake"
        /\ UNCHANGED <<nextId, inbox, call, closed>>
    BY DEF RunTask, SkipFinished, SkipTaken, BeginPoll, RunStep, Phase, MainFree
  <1>3. /\ t \in Task /\ t \in Held(n) /\ n \in DOMAIN stack
        /\ used \in FrameType /\ used.batch = Tail(Top.batch) /\ used.phase = "next"
        /\ polled \in FrameType /\ polled.batch = Tail(Top.batch)
        /\ polled.phase = "poll" /\ polled.task = t
    BY <1>0, <1>1, <1>2, HeadUsed, TopShape
  <1>4. t \in Spawned /\ Spawned' = Spawned /\ ~closed
    BY <1>1, <1>2, <1>3 DEF Named, Spawned, Shape
  <1>5. stack' = Replace(used) \/ stack' = Replace(polled)
    BY <1>0 DEF RunTask, SkipFinished, SkipTaken, BeginPoll
  <1>6. /\ (SkipFinished \/ SkipTaken) => stack' = Replace(used)
        /\ BeginPoll => stack' = Replace(polled)
    BY <1>0 DEF SkipFinished, SkipTaken, BeginPoll
  <1> HIDE DEF used, polled
  <1>7. Queued(t) /\ \A u \in Task : Queued(u)' <=> Queued(u) /\ u # t
    BY <1>0, <1>1, <1>2, <1>3, <1>5, HeadOnce
  <1>8. t \in Ready /\ Ready' = Ready \ {t}
    BY <1>1, <1>3, <1>7, ReadyQueued, NextReadyQueued
  <1>9. \A u \in Task : Finished(u)' <=> Finished(u)
    BY <1>1 DEF RunTask, SkipFinished, SkipTaken, BeginPoll, Finished, Shape
  <1>10. Done' = Done
    BY <1>9, SameDone
  <1>11. CASE SkipFinished \/ SkipTaken
    <2>1. Running' = Running
      BY <1>0, <1>1, <1>2, <1>3, <1>6, <1>11, SwapRunning
    <2>2. t \in R!Polled \cup Done
      <3>1. CASE Finished(t)
        BY <1>3, <3>1 DEF Done
      <3>2. CASE ~Finished(t)
        <4>1. slot[t] # "idle"
          BY <1>0, <1>11, <3>2 DEF SkipFinished, SkipTaken
        <4>2. slot[t] # "absent"
          BY <1>4, <3>2 DEF Kept
        <4>3. slot[t] = "taken"
          BY <1>1, <1>3, <4>1, <4>2 DEF Shape
        <4> QED
          BY <1>1, <1>3, <4>3, RunningPolled DEF Slots
      <3> QED
        BY <3>1, <3>2
    <2>3. R!Skip(t)
      BY <1>2, <1>4, <1>8, <1>10, <2>1, <2>2 DEF R!Skip
    <2> QED
      BY <1>3, <2>3 DEF R!Next
  <1>12. CASE BeginPoll
    <2>1. Running' = Running \cup {<<n, t>>} /\ \A r \in Running : r[1] # n
      BY <1>0, <1>1, <1>2, <1>3, <1>6, <1>12, SwapRunning
    <2>2. ~Finished(t) /\ slot[t] = "idle"
      BY <1>0, <1>12 DEF BeginPoll
    <2>3. t \notin R!Polled
      BY <1>1, <1>3, <2>2, RunningPolled DEF Slots
    <2>4. t \notin Done /\ n \notin R!Calling
      BY <2>1, <2>2 DEF Done, R!Calling
    <2>5. R!Run(n, t)
      BY <1>2, <1>4, <1>8, <1>10, <2>1, <2>3, <2>4 DEF R!Run
    <2>6. n \in 1 .. MaxDepth
      BY <1>3 DEF Bounded
    <2> QED
      BY <1>3, <2>5, <2>6 DEF R!Next
  <1> QED
    BY <1>11, <1>12 DEF RunTask

\* A poll ends: the task is pending or completed.
LEMMA EndMaps ==
    ASSUME IInv, Shape', Bounded, EndPoll
    PROVE  [R!Next]_(R!runVars)
  <1>0. PICK t, n : t = Top.task /\ n = Len(stack)
    OBVIOUS
  <1> DEFINE back == [Top EXCEPT !.task = NoTask, !.phase = "next"]
             drop == [Top EXCEPT !.phase = "drop"]
  <1>1. Shape /\ Named /\ Once
    BY DEF IInv, Told
  <1>2. /\ stack # <<>> /\ Top.phase # "next" /\ UNCHANGED <<nextId, closed>>
        /\ (PollPending \/ PollReady) => Top.phase = "poll"
        /\ EndDrop => Top.phase = "drop"
    BY DEF EndPoll, PollPending, PollReady, EndDrop, Polling, Phase
  <1>3. /\ t \in Task
        /\ back \in FrameType /\ back.phase = "next" /\ drop \in FrameType /\ drop.phase = "drop"
    BY <1>0, <1>1, <1>2, PollUsed
  <1>4. PICK f \in FrameType : f.phase # "poll" /\ stack' = Replace(f)
    <2>1. stack' = Replace(back) \/ stack' = Replace(drop)
      BY DEF EndPoll, PollPending, PollReady, EndDrop
    <2> HIDE DEF back, drop
    <2> QED
      BY <1>3, <2>1
  <1> HIDE DEF back, drop
  <1>5. n \in DOMAIN stack /\ n \in 1 .. MaxDepth
    BY <1>0, <1>1, <1>2, TopShape DEF Bounded
  <1>6. \A u \in Task : Queued(u)' <=> Queued(u)
    BY <1>1, EndEntries, SameOnce
  <1>7. Ready' = Ready /\ Spawned' = Spawned
    BY <1>1, <1>2, <1>6, SameReady DEF Spawned
  <1>8. /\ Top.phase # "poll" => Running' = Running
        /\ Top.phase = "poll" => <<n, t>> \in Running /\ Running' = Running \ {<<n, t>>}
    BY <1>0, <1>1, <1>2, <1>4, SwapRunning
  <1>9. CASE PollPending
    <2>1. Done' = Done
      BY <1>9, SameDone DEF PollPending, Finished
    <2>2. R!Pend(n, t)
      BY <1>2, <1>7, <1>8, <1>9, <2>1 DEF R!Pend
    <2> QED
      BY <1>3, <1>5, <2>2 DEF R!Next
  <1>10. CASE PollReady
    <2>1. flags' = [flags EXCEPT ![t] = @ \cup {"COMPLETED"}]
      BY <1>0, <1>10 DEF PollReady
    <2>2. Done' = Done \cup {t}
      BY <1>1, <1>3, <2>1, OneMoreDone
    <2>3. R!Complete(n, t)
      BY <1>2, <1>7, <1>8, <1>10, <2>2 DEF R!Complete
    <2> QED
      BY <1>3, <1>5, <2>3 DEF R!Next
  <1>11. CASE EndDrop
    <2>1. flags' = flags
      BY <1>11 DEF EndDrop
    <2>2. Running' = Running
      BY <1>2, <1>8, <1>11
    <2> QED
      BY <1>1, <1>2, <1>6, <2>1, <2>2, StillMaps
  <1> QED
    BY <1>9, <1>10, <1>11 DEF EndPoll

\* Handles cancel tasks; the executor is shut, forgets its entries and cancels
\* the rest.
LEMMA DropMaps ==
    ASSUME IInv, Shape', Kept,
           \/ \E t \in Task : DropHandle(t) \/ DropHandleLate(t)
           \/ CloseExecutor \/ TakeInbox \/ CancelAll
    PROVE  R!Next
  <1>1. Shape /\ Named /\ Once
    BY DEF IInv, Told
  <1>2. UNCHANGED <<stack, call, nextId>>
    BY DEF DropHandle, DropHandleLate, CloseExecutor, TakeInbox, CancelAll
  <1>3. Running' = Running /\ Spawned' = Spawned
    BY <1>2 DEF Running, Spawned
  <1>4. inbox' = inbox => Ready' = Ready
    <2> SUFFICES ASSUME inbox' = inbox PROVE Ready' = Ready
      OBVIOUS
    <2>1. SameEntries
      BY <1>2 DEF SameEntries, Pushing
    <2> QED
      BY <1>1, <2>1, SameOnce, SameReady
  <1>5. ASSUME NEW t \in Task, DropHandle(t) \/ DropHandleLate(t) PROVE R!Next
    <2>1. /\ flags' = [flags EXCEPT ![t] = @ \cup {"CANCELED"}]
          /\ t \in Spawned /\ inbox' = inbox /\ closed' = closed
      BY <1>1, <1>5 DEF DropHandle, DropHandleLate, Shape
    <2>2. Done' = Done \cup {t}
      BY <1>1, <2>1, OneMoreDone
    <2>3. R!Cancel(t)
      BY <1>3, <1>4, <2>1, <2>2 DEF R!Cancel
    <2> QED
      BY <2>3 DEF R!Next
  <1>6. CASE CloseExecutor
    <2>1. stack = <<>> /\ loop = "awake" /\ closed' = TRUE /\ UNCHANGED <<flags, inbox>>
      BY <1>6 DEF CloseExecutor, InCode, MainFree
    <2>2. ~closed /\ Running = {}
      <3>1. ~closed
        BY <1>1, <2>1 DEF Shape
      <3>2. DOMAIN stack = {}
        BY <2>1
      <3> QED
        BY <3>1, <3>2 DEF Running
    <2>3. Done' = Done
      BY <2>1, SameDone DEF Finished
    <2>4. R!Shut
      BY <1>3, <1>4, <2>1, <2>2, <2>3 DEF R!Shut
    <2> QED
      BY <2>4 DEF R!Next
  <1>7. CASE TakeInbox
    <2>1. closed /\ closed' = closed /\ flags' = flags
      BY <1>1, <1>7 DEF TakeInbox, Shape
    <2>2. Ready' \subseteq Ready
      BY <1>1, <1>7, TakeInboxOnce, ReadyQueued, NextReadyQueued
    <2>3. Done' = Done
      BY <2>1, SameDone DEF Finished
    <2>4. R!Forget
      BY <1>3, <2>1, <2>2, <2>3 DEF R!Forget
    <2> QED
      BY <2>4 DEF R!Next
  <1>8. CASE CancelAll
    <2>1. /\ closed /\ closed' = closed /\ inbox' = inbox
          /\ flags' = [t \in Task |-> IF slot[t] = "absent" THEN flags[t]
                                      ELSE flags[t] \cup {"CANCELED"}]
      BY <1>1, <1>8 DEF CancelAll, Shape
    <2>2. \A t \in Task : Finished(t)' <=> Finished(t) \/ slot[t] # "absent"
      BY <1>1, <2>1 DEF Finished, Shape
    <2>3. \A t \in Task : Finished(t)' <=> t \in Spawned
      BY <1>1, <2>2, SpawnedTasks DEF Kept, Named, Finished
    <2>4. Done' = Spawned
      BY <1>1, <2>3, SpawnedTasks DEF Done
    <2>5. R!CancelAll
      BY <1>3, <1>4, <2>1, <2>4 DEF R!CancelAll
    <2> QED
      BY <2>5 DEF R!Next
  <1> QED
    BY <1>5, <1>6, <1>7, <1>8

\* The other steps are hidden: a call of a waker, a handle that is detached, the
\* sleep of the event loop and the panic of block_on.
LEMMA HiddenMaps ==
    ASSUME IInv, Shape',
           \/ \E th \in Threads : \E t \in Task : CallWake(th, t)
           \/ \E t \in Task : Detach(t)
           \/ Sleep \/ WakeUp \/ Panic \/ UNCHANGED vars
    PROVE  UNCHANGED R!runVars
  <1>1. Shape /\ Once
    BY DEF IInv, Told
  <1>2. UNCHANGED <<flags, nextId, closed, inbox, stack>>
    BY DEF CallWake, Detach, Sleep, WakeUp, Panic, vars
  <1>3. SameEntries
    <2>1. CASE \E th \in Threads : \E t \in Task : CallWake(th, t)
      BY <1>1, <1>2, <2>1, CallEntries DEF CallWake
    <2>2. CASE call' = call
      BY <1>2, <2>2 DEF SameEntries, Pushing
    <2> QED
      BY <2>1, <2>2 DEF Detach, Sleep, WakeUp, Panic, vars
  <1>4. \A t \in Task : Queued(t)' <=> Queued(t)
    BY <1>1, <1>3, SameOnce
  <1>5. Running' = Running
    BY <1>2 DEF Running
  <1> QED
    BY <1>1, <1>2, <1>4, <1>5, StillMaps

\* The executor implements RunQueue, step by step: a poll of src/executor.rs is a
\* run of a ready task that is not running, a wake-up from any thread makes its
\* task ready until then, and the drop of the executor ends all of them.
THEOREM ExecutorRunsItsTasks == Spec => ImplementsRunQueue
  <1>1. Init => R!Init
    <2> SUFFICES ASSUME Init PROVE R!Init
      OBVIOUS
    <2>1. /\ nextId = 0 /\ stack = <<>> /\ inbox = <<>> /\ closed = FALSE
          /\ flags = [t \in Task |-> {}] /\ call = [th \in Threads |-> Idle]
      BY DEF Init
    <2>2. Spawned = {}
      BY <2>1 DEF Spawned
    <2>3. Running = {} /\ Done = {}
      BY <2>1 DEF Running, Done, Finished
    <2>4. Ready = {}
      <3>1. \A t : ~Queued(t)
        BY <2>1, NoEntries DEF Queued, Pushing, Idle
      <3> QED
        BY <3>1, InitInv, ReadyQueued DEF IInv
    <2> QED
      BY <2>1, <2>2, <2>3, <2>4 DEF R!Init
  <1>2. IInv /\ IInv' /\ Kept /\ Bounded /\ [Next]_vars => [R!Next]_(R!runVars)
    <2> SUFFICES ASSUME IInv, IInv', Kept, Bounded, [Next]_vars
                 PROVE  [R!Next]_(R!runVars)
      OBVIOUS
    <2>1. Shape'
      BY DEF IInv
    <2> QED
      BY <2>1, ScheduleMaps, EnterMaps, MoveMaps, RunMaps, EndMaps, DropMaps, HiddenMaps
      DEF Next, Finish
  <1> QED
    BY <1>1, <1>2, SpecInv, KeptInv, BoundedInv, PTL DEF Spec, ImplementsRunQueue, R!Spec
-----------------------------------------------------------------------------
(***************************************************************************)
(* The order of the queue, as long as no call is nested in another.        *)
(***************************************************************************)
\* A concatenation gets longer at its end and shorter at its front.
LEMMA ConcatAppend ==
    ASSUME NEW S, NEW s \in Seq(S), NEW u \in Seq(S), NEW x \in S
    PROVE  s \o Append(u, x) = Append(s \o u, x)
  <1>1. Append(u, x) = u \o <<x>> /\ <<x>> \in Seq(S)
    BY AppendIsConcat
  <1>2. s \o u \in Seq(S)
    BY ConcatProperties
  <1>3. Append(s \o u, x) = (s \o u) \o <<x>>
    BY <1>2, AppendIsConcat
  <1> QED
    BY <1>1, <1>3, ConcatAssociative

LEMMA ConcatTail ==
    ASSUME NEW S, NEW s \in Seq(S), NEW u \in Seq(S), s # <<>>
    PROVE  s \o u # <<>> /\ Tail(s \o u) = Tail(s) \o u
  <1> DEFINE c == s \o u
             t == Tail(s) \o u
  <1>1. /\ Len(s) \in Nat \ {0} /\ Len(u) \in Nat
        /\ Tail(s) \in Seq(S) /\ Len(Tail(s)) = Len(s) - 1
        /\ \A i \in 1 .. Len(s) - 1 : Tail(s)[i] = s[i + 1]
    BY EmptySeq, LenProperties, HeadTailProperties
  <1>2. /\ c \in Seq(S) /\ Len(c) = Len(s) + Len(u)
        /\ \A i \in 1 .. Len(s) + Len(u) : c[i] = IF i <= Len(s) THEN s[i] ELSE u[i - Len(s)]
    BY ConcatProperties
  <1>3. /\ t \in Seq(S) /\ Len(t) = Len(Tail(s)) + Len(u)
        /\ \A i \in 1 .. Len(Tail(s)) + Len(u) :
               t[i] = IF i <= Len(Tail(s)) THEN Tail(s)[i] ELSE u[i - Len(Tail(s))]
    BY <1>1, ConcatProperties
  <1> HIDE DEF c, t
  <1>4. c # <<>>
    BY <1>1, <1>2, EmptySeq
  <1>5. Tail(c) \in Seq(S) /\ Len(Tail(c)) = Len(c) - 1 /\ \A i \in 1 .. Len(c) - 1 : Tail(c)[i] = c[i + 1]
    BY <1>2, <1>4, HeadTailProperties
  <1>6. ASSUME NEW i \in 1 .. Len(c) - 1 PROVE Tail(c)[i] = t[i]
    <2>1. i \in Nat /\ i + 1 \in 1 .. Len(s) + Len(u) /\ i \in 1 .. (Len(s) - 1) + Len(u)
      BY <1>1, <1>2
    <2>2. CASE i + 1 <= Len(s)
      <3>1. i \in 1 .. Len(s) - 1 /\ i <= Len(s) - 1
        BY <1>1, <2>1, <2>2
      <3>2. Tail(c)[i] = s[i + 1]
        BY <1>2, <1>5, <2>1, <2>2
      <3>3. t[i] = s[i + 1]
        BY <1>1, <1>3, <2>1, <3>1
      <3> QED
        BY <3>2, <3>3
    <2>3. CASE ~(i + 1 <= Len(s))
      <3>1. ~(i <= Len(s) - 1) /\ i - (Len(s) - 1) = (i + 1) - Len(s)
        BY <1>1, <2>1, <2>3
      <3>2. Tail(c)[i] = u[(i + 1) - Len(s)]
        BY <1>2, <1>5, <2>1, <2>3
      <3>3. t[i] = u[i - (Len(s) - 1)]
        BY <1>1, <1>3, <2>1, <3>1
      <3> QED
        BY <3>1, <3>2, <3>3
    <2> QED
      BY <2>2, <2>3
  <1>7. Len(Tail(c)) = Len(t)
    BY <1>1, <1>2, <1>3, <1>5
  <1>8. Tail(c) = t
    BY <1>3, <1>5, <1>6, <1>7, SeqEqual
  <1> QED
    BY <1>4, <1>8 DEF c, t

\* What a step may do to the backlog.
InOrder ==
    \/ Backlog' = Backlog
    \/ \E t \in Task : Backlog' = Append(Backlog, t)
    \/ Backlog # <<>> /\ Backlog' = Tail(Backlog)
    \/ loop = "closing"

\* The innermost call is the only one.
LEMMA OnlyCall ==
    ASSUME Shape, stack # <<>>, Len(stack) <= 1
    PROVE  /\ Len(stack) = 1 /\ Top = stack[1] /\ Top.batch \in Seq(Task)
           /\ Backlog = Top.batch \o inbox
  <1>1. stack \in Seq(FrameType) /\ Len(stack) \in Nat /\ Len(stack) # 0
    BY LenProperties, EmptySeq DEF Shape
  <1>2. \A k \in Nat : k # 0 /\ k <= 1 => k = 1
    OBVIOUS
  <1>3. Len(stack) = 1
    BY <1>1, <1>2
  <1> QED
    BY <1>3, TopShape DEF Top, Backlog

\* The only frame is replaced.
LEMMA OnlySwapped ==
    ASSUME Shape, stack # <<>>, Len(stack) <= 1, NEW f \in FrameType, stack' = Replace(f)
    PROVE  Backlog' = f.batch \o inbox'
  <1>1. Len(stack) = 1
    BY OnlyCall
  <1>2. stack' \in Seq(FrameType) /\ DOMAIN stack' = DOMAIN stack /\ 1 \in DOMAIN stack /\ stack'[1] = f
    BY <1>1, ReplaceTop
  <1>3. stack' # <<>>
    BY <1>2
  <1> QED
    BY <1>2, <1>3 DEF Backlog

\* A call is entered when there is none.
LEMMA OnlyEntered ==
    ASSUME Shape, NEW f \in FrameType, stack' = Append(stack, f), Len(stack') <= 1
    PROVE  stack = <<>> /\ Backlog = inbox /\ Backlog' = f.batch \o inbox'
  <1>1. stack \in Seq(FrameType)
    BY DEF Shape
  <1>2. /\ Len(stack) \in Nat /\ Len(stack') = Len(stack) + 1 /\ stack' # <<>>
        /\ stack'[Len(stack')] = f
    BY <1>1, AddLast, LenProperties
  <1>3. Len(stack) = 0 /\ Len(stack') = 1
    BY <1>2
  <1>4. stack = <<>>
    BY <1>1, <1>3, EmptySeq
  <1> QED
    BY <1>2, <1>3, <1>4 DEF Backlog

\* A thread's push adds its task at the end.
LEMMA PushInOrder ==
    ASSUME Shape, Named, Len(stack) <= 1, NEW th \in Threads, PushInbox(th)
    PROVE  InOrder
  <1>0. PICK t : t = call[th].task
    OBVIOUS
  <1>1. /\ t \in Task /\ inbox' = Append(inbox, t) /\ stack' = stack /\ inbox \in Seq(Task)
    BY <1>0, SpawnedTasks DEF PushInbox, Named, Shape
  <1>2. CASE stack = <<>>
    BY <1>1, <1>2 DEF Backlog, InOrder
  <1>3. CASE stack # <<>>
    <2>1. Top.batch \in Seq(Task) /\ Backlog = Top.batch \o inbox /\ Top = stack[1]
      BY <1>3, OnlyCall
    <2>2. Backlog' = Top.batch \o inbox'
      BY <1>1, <1>3, <2>1 DEF Backlog
    <2>3. PICK b \in Seq(Task) : b = Top.batch
      BY <2>1
    <2>4. b \o Append(inbox, t) = Append(b \o inbox, t)
      BY <1>1, ConcatAppend
    <2>5. Backlog' = Append(Backlog, t)
      BY <1>1, <2>1, <2>2, <2>3, <2>4
    <2> QED
      BY <1>1, <2>5 DEF InOrder
  <1> QED
    BY <1>2, <1>3

\* A call takes its batch from the front, and block_on the whole inbox.
LEMMA TakeInOrder ==
    ASSUME Shape, Named, Len(stack) <= 1, Len(stack') <= 1,
           Process \/ DrainAgain \/ Return \/ \E t \in Task : BlockOn(t)
    PROVE  Backlog' = Backlog
  <1>0. inbox \in Seq(Task) /\ <<>> \o inbox = inbox /\ inbox \o <<>> = inbox
    BY ConcatEmptySeq DEF Shape
  <1>1. ASSUME NEW n \in 1 .. Len(inbox), ProcessTasks(n) PROVE Backlog' = Backlog
    <2> DEFINE f == Frame("process_tasks", NoTask, SubSeq(inbox, 1, n))
    <2>1. /\ f \in FrameType /\ f.batch = SubSeq(inbox, 1, n) /\ stack' = Append(stack, f)
          /\ inbox' = SubSeq(inbox, n + 1, Len(inbox))
      BY <1>1, ProcessFrame DEF ProcessTasks
    <2> HIDE DEF f
    <2>2. Backlog = inbox /\ Backlog' = f.batch \o inbox'
      BY <2>1, OnlyEntered
    <2>3. Len(inbox) \in Nat
      BY <1>0, LenProperties
    <2>4. 1 \in 1 .. Len(inbox) + 1 /\ n \in 1 - 1 .. Len(inbox) /\ Len(inbox) \in n .. Len(inbox)
      BY <2>3
    <2>5. SubSeq(inbox, 1, n) \o SubSeq(inbox, n + 1, Len(inbox)) = SubSeq(inbox, 1, Len(inbox))
      BY <1>0, <2>4, ConcatAdjacentSubSeq
    <2>6. SubSeq(inbox, 1, Len(inbox)) = inbox
      BY <1>0, SubSeqFull
    <2> QED
      BY <2>1, <2>2, <2>5, <2>6
  <1>2. CASE DrainAgain
    <2> DEFINE f == [Top EXCEPT !.batch = inbox]
    <2>1. stack' = Replace(f) /\ inbox' = <<>> /\ stack # <<>> /\ Top.batch = <<>>
      BY <1>2 DEF DrainAgain, BatchDone, Phase
    <2>2. f \in FrameType /\ f.batch = inbox
      BY <1>0, <2>1, TopShape DEF FrameType
    <2> HIDE DEF f
    <2>3. Backlog = <<>> \o inbox
      BY <2>1, OnlyCall
    <2>4. Backlog' = inbox \o <<>>
      BY <2>1, <2>2, OnlySwapped
    <2> QED
      BY <1>0, <2>3, <2>4
  <1>3. CASE Return
    <2>1. stack' = Front(stack) /\ inbox' = inbox /\ stack # <<>> /\ Top.batch = <<>>
      BY <1>3 DEF Return, BatchDone, Phase
    <2>2. Len(stack) = 1 /\ Backlog = <<>> \o inbox
      BY <2>1, OnlyCall
    <2>3. stack' = <<>>
      BY <2>1, <2>2, SubSeqEmpty DEF Front
    <2>4. Backlog' = inbox
      BY <2>1, <2>3 DEF Backlog
    <2> QED
      BY <1>0, <2>2, <2>4
  <1>4. ASSUME NEW t \in Task, BlockOn(t) PROVE Backlog' = Backlog
    <2> DEFINE f == Frame("block_on", t, <<>>)
    <2>1. f \in FrameType /\ f.batch = <<>> /\ stack' = Append(stack, f) /\ inbox' = inbox
      BY <1>4, BlockOnFrame DEF BlockOn
    <2> HIDE DEF f
    <2>2. Backlog = inbox /\ Backlog' = f.batch \o inbox'
      BY <2>1, OnlyEntered
    <2> QED
      BY <1>0, <2>1, <2>2
  <1> QED
    BY <1>1, <1>2, <1>3, <1>4 DEF Process

\* Executor::run uses the first entry up; the end of a poll uses none.
LEMMA RunInOrder ==
    ASSUME Shape, Named, Len(stack) <= 1, RunTask \/ EndPoll
    PROVE  InOrder
  <1>0. inbox \in Seq(Task) /\ inbox' = inbox
    BY DEF Shape, RunTask, EndPoll, SkipFinished, SkipTaken, BeginPoll, PollPending, PollReady, EndDrop
  <1>1. CASE RunTask
    <2> DEFINE used == [Top EXCEPT !.batch = Tail(@)]
               polled == [Top EXCEPT !.batch = Tail(@), !.task = Head(Top.batch), !.phase = "poll"]
    <2>1. RunStep /\ Top.batch # <<>>
      BY <1>1 DEF RunTask, SkipFinished, SkipTaken, BeginPoll, RunStep
    <2>2. /\ stack # <<>>
          /\ used \in FrameType /\ used.batch = Tail(Top.batch)
          /\ polled \in FrameType /\ polled.batch = Tail(Top.batch)
      BY <2>1, HeadUsed
    <2>3. stack' = Replace(used) \/ stack' = Replace(polled)
      BY <1>1 DEF RunTask, SkipFinished, SkipTaken, BeginPoll
    <2> HIDE DEF used, polled
    <2>4. Backlog' = Tail(Top.batch) \o inbox
      BY <1>0, <2>2, <2>3, OnlySwapped
    <2>5. Backlog = Top.batch \o inbox /\ Top.batch \in Seq(Task)
      BY <2>2, OnlyCall
    <2>6. Backlog # <<>> /\ Tail(Backlog) = Tail(Top.batch) \o inbox
      BY <1>0, <2>1, <2>5, ConcatTail
    <2> QED
      BY <2>4, <2>6 DEF InOrder
  <1>2. CASE EndPoll
    <2> DEFINE back == [Top EXCEPT !.task = NoTask, !.phase = "next"]
               drop == [Top EXCEPT !.phase = "drop"]
    <2>1. stack # <<>> /\ Top.phase # "next"
      BY <1>2 DEF EndPoll, PollPending, PollReady, EndDrop, Polling, Phase
    <2>2. /\ back \in FrameType /\ back.batch = Top.batch
          /\ drop \in FrameType /\ drop.batch = Top.batch
      BY <2>1, PollUsed
    <2>3. stack' = Replace(back) \/ stack' = Replace(drop)
      BY <1>2 DEF EndPoll, PollPending, PollReady, EndDrop
    <2> HIDE DEF back, drop
    <2>4. Backlog' = Top.batch \o inbox
      BY <1>0, <2>1, <2>2, <2>3, OnlySwapped
    <2>5. Backlog = Top.batch \o inbox
      BY <2>1, OnlyCall
    <2> QED
      BY <2>4, <2>5 DEF InOrder
  <1> QED
    BY <1>1, <1>2

\* "Run the tasks in the order they were scheduled" (process_tasks of
\* src/executor.rs): all threads and calls together add at the end of one queue
\* and take from its front, until a poll makes a nested call.
THEOREM TasksRunInOrder == Spec => RunsInOrder
  <1>1. IInv /\ [Next]_vars => [Len(stack) <= 1 /\ Len(stack') <= 1 => InOrder]_vars
    <2> SUFFICES ASSUME IInv, [Next]_vars, Len(stack) <= 1, Len(stack') <= 1
                 PROVE  InOrder
      OBVIOUS
    <2>1. Shape /\ Named
      BY DEF IInv
    <2>2. ASSUME UNCHANGED <<inbox, stack>> PROVE InOrder
      BY <2>2 DEF InOrder, Backlog
    <2>3. ASSUME NEW th \in Threads, CheckOpen(th) \/ SetQueued(th) \/ NotifyLoop(th)
                                        \/ \E t \in Task : CallWake(th, t)
          PROVE  InOrder
      BY <2>2, <2>3 DEF CheckOpen, SetQueued, NotifyLoop, CallWake
    <2>4. ASSUME NEW t \in Task, Spawn(t) \/ Detach(t) \/ DropHandle(t) \/ DropHandleLate(t)
          PROVE  InOrder
      BY <2>2, <2>4 DEF Spawn, Detach, DropHandle, DropHandleLate
    <2>5. CASE Panic \/ CloseExecutor \/ CancelAll \/ Sleep \/ WakeUp \/ UNCHANGED vars
      BY <2>2, <2>5 DEF Panic, CloseExecutor, CancelAll, Sleep, WakeUp, vars
    <2>6. CASE TakeInbox
      BY <2>6 DEF TakeInbox, InOrder
    <2>7. CASE Process \/ DrainAgain \/ Return \/ \E t \in Task : BlockOn(t)
      BY <2>1, <2>7, TakeInOrder DEF InOrder
    <2> QED
      BY <2>1, <2>3, <2>4, <2>5, <2>6, <2>7, PushInOrder, RunInOrder
      DEF Next, Schedule, Finish
  <1>2. [][Len(stack) <= 1 /\ Len(stack') <= 1 => InOrder]_vars <=> RunsInOrder
    BY DEF RunsInOrder, InOrder
  <1> QED
    BY <1>1, <1>2, SpecInv, PTL DEF Spec
=============================================================================
