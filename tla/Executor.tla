------------------------------ MODULE Executor ------------------------------
(***************************************************************************)
(* The executor of src/executor.rs: tasks whose futures live on the        *)
(* executor's thread (Main) and whose wakers may be woken from any thread. *)
(*                                                                         *)
(* A step is what no other thread can interleave with: an access to        *)
(* Header::state, Shared::closed or the inbox (a critical section of the   *)
(* SpinLock), together with the thread-local work around it.  The code of  *)
(* the futures and the event loop are external: while one of them has      *)
(* control (InCode), it may make any call of the executor, at most         *)
(* OpsPerPoll of them before it gives control back.                        *)
(***************************************************************************)
EXTENDS Integers, SequencesExt

CONSTANTS Thread,       \* the threads that may hold wakers, other than Main
          Main,         \* the executor's thread
          MaxTasks,     \* bound: tasks ever spawned
          MaxDepth,     \* bound: nested calls of process_tasks and block_on
          OpsPerPoll,   \* bound: calls of external code before it returns
          NoTask        \* no task

ASSUME BoundsAssumption == MaxTasks \in Nat \ {0} /\ MaxDepth \in Nat /\ OpsPerPoll \in Nat
ASSUME MainAssumption == Main \notin Thread

Task == 0 .. MaxTasks - 1
Flag == {"QUEUED", "CANCELED", "COMPLETED"}

VARIABLES flags,        \* Header::state of each task
          slot,         \* ExecutorState::slots: "absent", "idle" or "taken"
          nextId,       \* ExecutorState::next_id
          handles,      \* the tasks whose ExcutorTask is held
          inbox,        \* Shared::inbox
          closed,       \* Shared::closed
          stack,        \* the process_tasks and block_on calls Main is inside of
          call,         \* each thread's progress in Header::schedule
          loop,         \* the event loop: "awake", "asleep", or the executor's end
          signal,       \* EventLoopWaker::wake was called since the loop woke up
          budget,       \* calls left to the external code in control
          known,        \* the tasks polled once, whose wakers exist
          owed,         \* the tasks woken since their last poll began
          skipped       \* the tasks whose entry a nested call used up since then

vars == <<flags, slot, nextId, handles, inbox, closed, stack, call, loop, signal,
          budget, known, owed, skipped>>

Threads == Thread \cup {Main}
Idle == [pc |-> "idle", task |-> NoTask]

Spawned == 0 .. nextId - 1
Finished(t) == flags[t] \cap {"CANCELED", "COMPLETED"} # {}

Top == stack[Len(stack)]
Replace(frame) == [stack EXCEPT ![Len(stack)] = frame]
Frame(kind, target, batch) ==
    [kind |-> kind, target |-> target, batch |-> batch, task |-> NoTask, phase |-> "next"]

MainFree == loop = "awake" /\ call[Main].pc = "idle"

\* External code has control of Main: the event loop, or a future that is being
\* polled or dropped.
Phase == IF stack = <<>> THEN "loop" ELSE Top.phase
InCode == MainFree /\ Phase # "next"
CanCall == InCode /\ budget > 0
CanNest == InCode /\ Len(stack) < MaxDepth /\ (stack # <<>> => budget > 0)

Init ==
    /\ flags = [t \in Task |-> {}]
    /\ slot = [t \in Task |-> "absent"]
    /\ nextId = 0
    /\ handles = {}
    /\ inbox = <<>>
    /\ closed = FALSE
    /\ stack = <<>>
    /\ call = [th \in Threads |-> Idle]
    /\ loop = "awake"
    /\ signal = FALSE
    /\ budget = OpsPerPoll
    /\ known = {}
    /\ owed = {}
    /\ skipped = {}
-----------------------------------------------------------------------------
(***************************************************************************)
(* Header::schedule, step by step on any thread.                           *)
(***************************************************************************)
\* The call: a waker is woken.
CallWake(th, t) ==
    /\ call[th].pc = "idle"
    /\ t \in known
    /\ IF th = Main THEN CanCall /\ budget' = budget - 1 ELSE UNCHANGED budget
    /\ call' = [call EXCEPT ![th] = [pc |-> "check", task |-> t]]
    /\ owed' = owed \cup {t}
    /\ UNCHANGED <<flags, slot, nextId, handles, inbox, closed, stack, loop, signal, known, skipped>>

\* The early return of a finished task or a closed executor.  The two loads may
\* be taken together: both flags are only ever set.
CheckOpen(th) ==
    /\ call[th].pc = "check"
    /\ call' = [call EXCEPT ![th] =
                  IF Finished(call[th].task) \/ closed THEN Idle ELSE [@ EXCEPT !.pc = "mark"]]
    /\ UNCHANGED <<flags, slot, nextId, handles, inbox, closed, stack, loop, signal,
                   budget, known, owed, skipped>>

\* Broken on purpose: the previous value of QUEUED is ignored.
SetQueuedAlways(th) ==
    LET t == call[th].task IN
    /\ call[th].pc = "mark"
    /\ flags' = [flags EXCEPT ![t] = @ \cup {"QUEUED"}]
    /\ call' = [call EXCEPT ![th].pc = "push"]
    /\ UNCHANGED <<slot, nextId, handles, inbox, closed, stack, loop, signal,
                   budget, known, owed, skipped>>

\* state.fetch_or(QUEUED).
SetQueued(th) ==
    LET t == call[th].task IN
    /\ call[th].pc = "mark"
    /\ flags' = [flags EXCEPT ![t] = @ \cup {"QUEUED"}]
    /\ call' = [call EXCEPT ![th] =
                  IF "QUEUED" \in flags[t] THEN Idle ELSE [@ EXCEPT !.pc = "push"]]
    /\ UNCHANGED <<slot, nextId, handles, inbox, closed, stack, loop, signal,
                   budget, known, owed, skipped>>

\* inbox.lock().push_back(..).
PushInbox(th) ==
    /\ call[th].pc = "push"
    /\ inbox' = Append(inbox, call[th].task)
    /\ call' = [call EXCEPT ![th].pc = "notify"]
    /\ UNCHANGED <<flags, slot, nextId, handles, closed, stack, loop, signal,
                   budget, known, owed, skipped>>

\* Broken on purpose: the event loop is not woken.
NotifyLoopNever(th) ==
    /\ call[th].pc = "notify"
    /\ call' = [call EXCEPT ![th] = Idle]
    /\ UNCHANGED <<flags, slot, nextId, handles, inbox, closed, stack, loop, signal,
                   budget, known, owed, skipped>>

\* notifier.wake().
NotifyLoop(th) ==
    /\ call[th].pc = "notify"
    /\ signal' = TRUE
    /\ call' = [call EXCEPT ![th] = Idle]
    /\ UNCHANGED <<flags, slot, nextId, handles, inbox, closed, stack, loop,
                   budget, known, owed, skipped>>

\* Broken on purpose: the event loop is woken before the task is in the inbox.
ScheduleWakesFirst(th) ==
    \/ CheckOpen(th)
    \/ SetQueued(th)
    \/ /\ call[th].pc = "push"
       /\ signal' = TRUE
       /\ call' = [call EXCEPT ![th].pc = "notify"]
       /\ UNCHANGED <<flags, slot, nextId, handles, inbox, closed, stack, loop,
                      budget, known, owed, skipped>>
    \/ /\ call[th].pc = "notify"
       /\ inbox' = Append(inbox, call[th].task)
       /\ call' = [call EXCEPT ![th] = Idle]
       /\ UNCHANGED <<flags, slot, nextId, handles, closed, stack, loop, signal,
                      budget, known, owed, skipped>>

Schedule(th) == CheckOpen(th) \/ SetQueued(th) \/ PushInbox(th) \/ NotifyLoop(th)
-----------------------------------------------------------------------------
(***************************************************************************)
(* Calls on Main: spawn, block_on, process_tasks, the task handles.        *)
(***************************************************************************)
\* A fresh header and a slot; schedule() follows.
Enter(t) ==
    /\ t = nextId
    /\ t < MaxTasks
    /\ nextId' = nextId + 1
    /\ slot' = [slot EXCEPT ![t] = "idle"]
    /\ call' = [call EXCEPT ![Main] = [pc |-> "check", task |-> t]]
    /\ owed' = owed \cup {t}

Spawn(t) ==
    /\ CanCall
    /\ Enter(t)
    /\ handles' = handles \cup {t}
    /\ budget' = budget - 1
    /\ UNCHANGED <<flags, inbox, closed, stack, loop, signal, known, skipped>>

\* block_on spawns and detaches its future, then drains until it runs dry.
BlockOn(t) ==
    /\ CanNest
    /\ Enter(t)
    /\ stack' = Append(stack, Frame("block_on", t, <<>>))
    /\ UNCHANGED <<flags, handles, inbox, closed, loop, signal, budget, known, skipped>>

\* Broken on purpose: the last n entries are taken.
ProcessTasksFromBack(n) ==
    /\ CanNest
    /\ inbox # <<>>
    /\ stack' = Append(stack, Frame("process_tasks", NoTask,
                                    SubSeq(inbox, Len(inbox) - n + 1, Len(inbox))))
    /\ inbox' = SubSeq(inbox, 1, Len(inbox) - n)
    /\ UNCHANGED <<flags, slot, nextId, handles, closed, call, loop, signal,
                   budget, known, owed, skipped>>

\* process_tasks(n) takes the first n entries; tick and block_on take them all.
ProcessTasks(n) ==
    /\ CanNest
    /\ inbox # <<>>
    /\ stack' = Append(stack, Frame("process_tasks", NoTask, SubSeq(inbox, 1, n)))
    /\ inbox' = SubSeq(inbox, n + 1, Len(inbox))
    /\ UNCHANGED <<flags, slot, nextId, handles, closed, call, loop, signal,
                   budget, known, owed, skipped>>

Detach(t) ==
    /\ CanCall
    /\ t \in handles
    /\ handles' = handles \ {t}
    /\ budget' = budget - 1
    /\ UNCHANGED <<flags, slot, nextId, inbox, closed, stack, call, loop, signal, known, owed, skipped>>

\* Broken on purpose: the slot goes, but the task is not marked CANCELED.
DropHandleUnmarked(t) ==
    /\ CanCall
    /\ t \in handles
    /\ handles' = handles \ {t}
    /\ slot' = IF Finished(t) THEN slot ELSE [slot EXCEPT ![t] = "absent"]
    /\ budget' = budget - 1
    /\ UNCHANGED <<flags, nextId, inbox, closed, stack, call, loop, signal, known, owed, skipped>>

\* ExcutorTask::drop cancels an unfinished task and drops its slot, while the
\* executor exists.
DropHandle(t) ==
    /\ CanCall
    /\ t \in handles
    /\ handles' = handles \ {t}
    /\ flags' = [flags EXCEPT ![t] = @ \cup {"CANCELED"}]
    /\ slot' = IF Finished(t) THEN slot ELSE [slot EXCEPT ![t] = "absent"]
    /\ budget' = budget - 1
    /\ UNCHANGED <<nextId, inbox, closed, stack, call, loop, signal, known, owed, skipped>>

\* The same drop once the executor is gone: nothing is left to remove.
DropHandleLate(t) ==
    /\ loop = "gone"
    /\ t \in handles
    /\ handles' = handles \ {t}
    /\ flags' = [flags EXCEPT ![t] = @ \cup {"CANCELED"}]
    /\ UNCHANGED <<slot, nextId, inbox, closed, stack, call, loop, signal,
                   budget, known, owed, skipped>>
-----------------------------------------------------------------------------
(***************************************************************************)
(* Executor::run for the first entry of the innermost batch.               *)
(***************************************************************************)
RunStep == MainFree /\ Phase = "next" /\ Top.batch # <<>>

SkipFinished ==
    /\ RunStep
    /\ Finished(Head(Top.batch))
    /\ stack' = Replace([Top EXCEPT !.batch = Tail(@)])
    /\ UNCHANGED <<flags, slot, nextId, handles, inbox, closed, call, loop, signal,
                   budget, known, owed, skipped>>

\* QUEUED is cleared, but an outer call is polling the task's future.
SkipTaken ==
    LET t == Head(Top.batch) IN
    /\ RunStep
    /\ ~Finished(t)
    /\ slot[t] # "idle"
    /\ flags' = [flags EXCEPT ![t] = @ \ {"QUEUED"}]
    /\ stack' = Replace([Top EXCEPT !.batch = Tail(@)])
    /\ skipped' = skipped \cup {t}
    /\ UNCHANGED <<slot, nextId, handles, inbox, closed, call, loop, signal,
                   budget, known, owed>>

\* Broken on purpose: a task that is still in an outer poll is polled again.
BeginPollTwice ==
    LET t == Head(Top.batch) IN
    /\ RunStep
    /\ ~Finished(t)
    /\ slot[t] # "absent"
    /\ flags' = [flags EXCEPT ![t] = @ \ {"QUEUED"}]
    /\ slot' = [slot EXCEPT ![t] = "taken"]
    /\ stack' = Replace([Top EXCEPT !.batch = Tail(@), !.task = t, !.phase = "poll"])
    /\ budget' = OpsPerPoll
    /\ known' = known \cup {t}
    /\ owed' = owed \ {t}
    /\ skipped' = skipped \ {t}
    /\ UNCHANGED <<nextId, handles, inbox, closed, call, loop, signal>>

\* Broken on purpose: QUEUED is not cleared before the poll.
BeginPollKeepsQueued ==
    LET t == Head(Top.batch) IN
    /\ RunStep
    /\ ~Finished(t)
    /\ slot[t] = "idle"
    /\ slot' = [slot EXCEPT ![t] = "taken"]
    /\ stack' = Replace([Top EXCEPT !.batch = Tail(@), !.task = t, !.phase = "poll"])
    /\ budget' = OpsPerPoll
    /\ known' = known \cup {t}
    /\ owed' = owed \ {t}
    /\ skipped' = skipped \ {t}
    /\ UNCHANGED <<flags, nextId, handles, inbox, closed, call, loop, signal>>

BeginPoll ==
    LET t == Head(Top.batch) IN
    /\ RunStep
    /\ ~Finished(t)
    /\ slot[t] = "idle"
    /\ flags' = [flags EXCEPT ![t] = @ \ {"QUEUED"}]
    /\ slot' = [slot EXCEPT ![t] = "taken"]
    /\ stack' = Replace([Top EXCEPT !.batch = Tail(@), !.task = t, !.phase = "poll"])
    /\ budget' = OpsPerPoll
    /\ known' = known \cup {t}
    /\ owed' = owed \ {t}
    /\ skipped' = skipped \ {t}
    /\ UNCHANGED <<nextId, handles, inbox, closed, call, loop, signal>>

Polling == MainFree /\ Phase = "poll"

\* Pending: the future goes back into its slot, unless the task was canceled
\* while it ran; then it is dropped.
PollPending ==
    /\ Polling
    /\ IF slot[Top.task] # "absent" /\ ~Finished(Top.task)
       THEN /\ slot' = [slot EXCEPT ![Top.task] = "idle"]
            /\ stack' = Replace([Top EXCEPT !.task = NoTask, !.phase = "next"])
       ELSE /\ slot' = slot
            /\ stack' = Replace([Top EXCEPT !.phase = "drop"])
    /\ UNCHANGED <<flags, nextId, handles, inbox, closed, call, loop, signal,
                   budget, known, owed, skipped>>

\* Ready: COMPLETED, the slot goes and the future is dropped.
PollReady ==
    /\ Polling
    /\ flags' = [flags EXCEPT ![Top.task] = @ \cup {"COMPLETED"}]
    /\ slot' = [slot EXCEPT ![Top.task] = "absent"]
    /\ stack' = Replace([Top EXCEPT !.phase = "drop"])
    /\ UNCHANGED <<nextId, handles, inbox, closed, call, loop, signal,
                   budget, known, owed, skipped>>

\* The drop code of the future returns.
EndDrop ==
    /\ MainFree
    /\ Phase = "drop"
    /\ stack' = Replace([Top EXCEPT !.task = NoTask, !.phase = "next"])
    /\ UNCHANGED <<flags, slot, nextId, handles, inbox, closed, call, loop, signal,
                   budget, known, owed, skipped>>

BatchDone == MainFree /\ Phase = "next" /\ Top.batch = <<>>

\* process_tasks returns; block_on returns its output when it runs dry.
Return ==
    /\ BatchDone
    /\ Top.kind = "block_on" => inbox = <<>> /\ "COMPLETED" \in flags[Top.target]
    /\ stack' = Front(stack)
    /\ budget' = IF Len(stack) = 1 THEN OpsPerPoll ELSE 0
    /\ UNCHANGED <<flags, slot, nextId, handles, inbox, closed, call, loop, signal,
                   known, owed, skipped>>

\* block_on: while has_tasks() { process_tasks(usize::MAX) }.
DrainAgain ==
    /\ BatchDone
    /\ Top.kind = "block_on"
    /\ inbox # <<>>
    /\ stack' = Replace([Top EXCEPT !.batch = inbox])
    /\ inbox' = <<>>
    /\ UNCHANGED <<flags, slot, nextId, handles, closed, call, loop, signal,
                   budget, known, owed, skipped>>

\* block_on: the queue is dry and the future pending: expect() panics.
Panic ==
    /\ BatchDone
    /\ Top.kind = "block_on"
    /\ inbox = <<>>
    /\ "COMPLETED" \notin flags[Top.target]
    /\ loop' = "panicked"
    /\ UNCHANGED <<flags, slot, nextId, handles, inbox, closed, stack, call, signal,
                   budget, known, owed, skipped>>
-----------------------------------------------------------------------------
(***************************************************************************)
(* ExecutorState::drop, with other threads between its steps.              *)
(***************************************************************************)
\* Broken on purpose: `closed` is not set.
CloseExecutorUnmarked ==
    /\ InCode
    /\ stack = <<>>
    /\ loop' = "closing"
    /\ UNCHANGED <<flags, slot, nextId, handles, inbox, closed, stack, call, signal,
                   budget, known, owed, skipped>>

CloseExecutor ==
    /\ InCode
    /\ stack = <<>>
    /\ closed' = TRUE
    /\ loop' = "closing"
    /\ UNCHANGED <<flags, slot, nextId, handles, inbox, stack, call, signal,
                   budget, known, owed, skipped>>

TakeInbox ==
    /\ loop = "closing"
    /\ inbox' = <<>>
    /\ loop' = "canceling"
    /\ UNCHANGED <<flags, slot, nextId, handles, closed, stack, call, signal,
                   budget, known, owed, skipped>>

CancelAll ==
    /\ loop = "canceling"
    /\ flags' = [t \in Task |-> IF slot[t] = "absent" THEN flags[t]
                                ELSE flags[t] \cup {"CANCELED"}]
    /\ slot' = [t \in Task |-> "absent"]
    /\ loop' = "gone"
    /\ UNCHANGED <<nextId, handles, inbox, closed, stack, call, signal,
                   budget, known, owed, skipped>>

(***************************************************************************)
(* The event loop (external): it sleeps when has_tasks() is false, and     *)
(* EventLoopWaker::wake ends the sleep, also when it came first.           *)
(***************************************************************************)
Sleep ==
    /\ InCode
    /\ stack = <<>>
    /\ inbox = <<>>
    /\ loop' = "asleep"
    /\ UNCHANGED <<flags, slot, nextId, handles, inbox, closed, stack, call, signal,
                   budget, known, owed, skipped>>

WakeUp ==
    /\ loop = "asleep"
    /\ signal
    /\ loop' = "awake"
    /\ signal' = FALSE
    /\ UNCHANGED <<flags, slot, nextId, handles, inbox, closed, stack, call,
                   budget, known, owed, skipped>>

Process == \E n \in 1 .. Len(inbox) : ProcessTasks(n)
RunTask == SkipFinished \/ SkipTaken \/ BeginPoll
EndPoll == PollPending \/ PollReady \/ EndDrop
Finish == Return \/ DrainAgain \/ Panic

Next ==
    \/ \E th \in Threads : Schedule(th) \/ \E t \in Task : CallWake(th, t)
    \/ \E t \in Task : Spawn(t) \/ BlockOn(t) \/ Detach(t) \/ DropHandle(t) \/ DropHandleLate(t)
    \/ Process \/ RunTask \/ EndPoll \/ Finish
    \/ CloseExecutor \/ TakeInbox \/ CancelAll
    \/ Sleep \/ WakeUp

\* Threads leave schedule(), a future returns from poll and from drop, the event
\* loop processes what is queued and reacts to its waker.  Nothing obliges a
\* program to wake, spawn, cancel or drop.
Fairness ==
    /\ \A th \in Threads : WF_vars(Schedule(th))
    /\ WF_vars(stack = <<>> /\ Process)
    /\ WF_vars(RunTask \/ EndPoll \/ Finish)
    /\ WF_vars(WakeUp)

Spec == Init /\ [][Next]_vars /\ Fairness
-----------------------------------------------------------------------------
FrameType ==
    [kind : {"process_tasks", "block_on"}, target : Task \cup {NoTask}, batch : Seq(Task),
     task : Task \cup {NoTask}, phase : {"next", "poll", "drop"}]

\* The shape of the state.  Only spawned tasks have queue entries.  A future is
\* out of its slot exactly while it is polled, and a finished task has no slot: a
\* task that cancels itself in its own poll is not put back, and one that stays
\* pending is not lost.
TypeOK ==
    /\ flags \in [Task -> SUBSET Flag]
    /\ slot \in [Task -> {"absent", "idle", "taken"}]
    /\ nextId \in 0 .. MaxTasks
    /\ handles \cup known \cup owed \cup skipped \cup Range(inbox) \subseteq Spawned
    /\ inbox \in Seq(Task)
    /\ closed = (loop \in {"closing", "canceling", "gone"})
    /\ stack \in Seq(FrameType)
    /\ call \in [Threads -> [pc : {"idle", "check", "mark", "push", "notify"},
                            task : Task \cup {NoTask}]]
    /\ loop \in {"awake", "asleep", "closing", "canceling", "gone", "panicked"}
    /\ signal \in BOOLEAN
    /\ budget \in 0 .. OpsPerPoll
    /\ \A t \in Task :
        /\ slot[t] = "taken" <=>
              ~Finished(t) /\ \E d \in DOMAIN stack : stack[d].phase = "poll" /\ stack[d].task = t
        /\ Finished(t) => slot[t] = "absent"

\* The places that hold a queue entry of t: the inbox, a drained batch, or a
\* thread that has set QUEUED and not pushed yet.
Entries(t) ==
    {<<"inbox", i>> : i \in {j \in DOMAIN inbox : inbox[j] = t}}
        \cup {<<"push", th>> : th \in {x \in Threads : call[x] = [pc |-> "push", task |-> t]}}
        \cup UNION {{<<"batch", d, i>> : i \in {j \in DOMAIN stack[d].batch : stack[d].batch[j] = t}} :
                     d \in DOMAIN stack}

\* "Queue the task exactly once": however many threads wake a task at the same
\* time, before, while and after it is polled, it has at most one queue entry; and it
\* has one while QUEUED is set, so that the wake-ups which find it set are not lost.
QueuedExactlyOnce ==
    \A t \in Task :
        /\ \A e, f \in Entries(t) : e = f
        /\ ~closed /\ "QUEUED" \in flags[t] /\ ~Finished(t) => Entries(t) # {}

Waking(t) == \E th \in Threads : call[th].pc \in {"check", "mark"} /\ call[th].task = t

\* A task woken since its last poll began is queued, or a thread is about to
\* queue it, until it is polled or finished; the one exception is an entry that
\* a nested process_tasks or block_on used up while the task was being polled.
NoLostWake ==
    \A t \in owed \ skipped : ~Finished(t) /\ ~closed => Waking(t) \/ Entries(t) # {}

\* "Queue the task exactly once until it gets polled again": no entry of a woken
\* task is used up without a poll.
QueuedUntilPolled ==
    \A t \in owed : ~Finished(t) /\ ~closed => Waking(t) \/ Entries(t) # {}

\* The event loop never sleeps on work: when it is asleep with a queued task,
\* its waker was called or is about to be.
NoSleepOnWork ==
    loop = "asleep" /\ inbox # <<>> =>
        signal \/ \E th \in Threads : call[th].pc = "notify"

\* Every wake-up of a task is followed by a poll of it, unless it finishes, its
\* executor is dropped, a block_on panics, or a future makes a nested call (which
\* may use the entry up, or run for as long as other tasks keep waking).
WakeIsServed ==
    \A t \in Task :
        t \in owed ~> t \notin owed \/ Finished(t) \/ closed
                         \/ Len(stack) > 1 \/ t \in skipped \/ loop = "panicked"

\* block_on's doc: when it panics, nothing can wake its future.  A thread that
\* has set QUEUED and not pushed yet is a wake-up under way.
PanicsOnlyWhenStuck ==
    loop = "panicked" => \A th \in Threads : ~(call[th].pc = "push" /\ call[th].task = Top.target)

\* The end of the executor ends every task and its future: a task without a slot
\* has finished, however its handle, its poll and the drop of the executor met.
NothingOutlivesTheExecutor ==
    loop = "gone" => \A t \in Spawned : Finished(t) /\ slot[t] = "absent"

\* The entries in the order they are to be run in: the batch that is being
\* processed, then the inbox.
Backlog == IF stack = <<>> THEN inbox ELSE stack[1].batch \o inbox

\* "Run the tasks in the order they were scheduled": until a future makes a nested
\* call, entries are added at the end and taken from the front, one at a time, by
\* all the threads and calls together; only the executor's drop throws them away.
RunsInOrder ==
    [][Len(stack) <= 1 /\ Len(stack') <= 1 =>
         \/ Backlog' = Backlog
         \/ \E t \in Task : Backlog' = Append(Backlog, t)
         \/ Backlog # <<>> /\ Backlog' = Tail(Backlog)
         \/ loop = "closing"]_vars

\* The tasks that have finished or were canceled, those that are queued, and which
\* call polls which task.
Done == {t \in Task : Finished(t)}
Ready == {t \in Task : Entries(t) # {}}
Running == {<<d, stack[d].task>> : d \in {e \in DOMAIN stack : stack[e].phase = "poll"}}

R == INSTANCE RunQueue WITH Call <- 1 .. MaxDepth,
                            spawned <- Spawned, done <- Done, ready <- Ready,
                            running <- Running, shut <- closed

\* The executor implements RunQueue: flags, slots, the inbox, the batches and the
\* steps of schedule() keep a woken task ready until it is run, run one future once
\* at a time, and leave no task undone at the executor's end.
ImplementsRunQueue == R!Spec
=============================================================================
