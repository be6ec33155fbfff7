-------------------------------- MODULE Tests -------------------------------
(***************************************************************************)
(* The tests of the repository, run against the models: a behaviour takes  *)
(* one test of one suite and follows its script.  The models of the other  *)
(* suites stay in a state in which a test could start.                     *)
(***************************************************************************)
EXTENDS Integers, Sequences

CONSTANTS Listener, Waker, Value, UsizeMax, NoTask,      \* of Event and Oneshot
          Client, Unit,                                 \* of the locks
          Producer, Receiver, Capacity,                 \* of Mpsc
          Channel,                                      \* of Oneshot
          Poller, MaxItems,                             \* of PollMutex
          Stream, Waiter, CellValue, MaxEmits,          \* of EventTargets
          MaxHandles, MaxRefs, MaxTickets,
          Thread, Main, MaxTasks, MaxDepth, OpsPerPoll  \* of Executor

VARIABLES ev, woken, poller,                                        \* Event
          mutex_ev, mutex_locked, mutex_state, mutex_woken,         \* AsyncMutex
          rw_ev, rw_locked, rw_state, rw_woken, readers,            \* RwLock
          max_queue_size, queue, mpsc_sender, senders, send, recv,  \* Mpsc
          receiver_event, sender_event, mpsc_woken, returned,
          state, value, event, sender, receiver, closed, received,  \* Oneshot
          oneshot_poller, oneshot_woken, oneshot_returned,
          alive, slot, sent, inner, failed,                         \* PollMutex
          target_ev, stream, emitted, asleep, since, got, handed,   \* EventTargets
          strong, cell_value, guard, refs, changes, known, missed,
          tickets, kind,
          flags, task_slot, nextId, handles, inbox, shared_closed,  \* Executor
          stack, call, loop, signal, budget, task_known, owed, skipped,
          suite,        \* the source file whose test it is
          script        \* the steps that are left

E == INSTANCE EventTests WITH Task <- Waker
M == INSTANCE MutexTests WITH ev <- mutex_ev, locked <- mutex_locked,
                              state <- mutex_state, woken <- mutex_woken
P == INSTANCE PollMutexTests WITH ev <- mutex_ev, locked <- mutex_locked,
                                  state <- mutex_state, woken <- mutex_woken
R == INSTANCE RwLockTests WITH ev <- rw_ev, locked <- rw_locked,
                               state <- rw_state, woken <- rw_woken
C == INSTANCE MpscTests WITH sender <- mpsc_sender, woken <- mpsc_woken
X == INSTANCE ExecutorTests WITH slot <- task_slot, closed <- shared_closed,
                                 known <- task_known
O == INSTANCE OneshotTests WITH Task <- Waker, poller <- oneshot_poller,
                                woken <- oneshot_woken, returned <- oneshot_returned
T == INSTANCE TargetTests WITH ev <- target_ev, value <- cell_value, Value <- CellValue

eventVars == <<ev, woken, poller>>
mutexVars == <<mutex_ev, mutex_locked, mutex_state, mutex_woken>>
sinkVars == <<alive, slot, sent, inner, failed>>
rwVars == <<rw_ev, rw_locked, rw_state, rw_woken, readers>>
mpscVars == <<max_queue_size, queue, mpsc_sender, senders, send, recv, receiver_event,
              sender_event, mpsc_woken, returned>>
oneshotVars == <<state, value, event, sender, receiver, closed, received,
                 oneshot_poller, oneshot_woken, oneshot_returned>>
targetVars == <<target_ev, stream, emitted, asleep, since, got, handed, strong, cell_value,
                guard, refs, changes, known, missed, tickets, kind>>
executorVars == <<flags, task_slot, nextId, handles, inbox, shared_closed, stack, call,
                  loop, signal, budget, task_known, owed, skipped>>

vars == <<eventVars, mutexVars, sinkVars, rwVars, mpscVars, oneshotVars, targetVars,
          executorVars, suite, script>>

Script ==
    [event |-> E!Tests, executor |-> X!Tests, mutex |-> M!Tests, poll_lock |-> P!Tests,
     rwlock |-> R!Tests, mpsc |-> C!Tests, oneshot |-> O!Tests, emitter |-> T!EmitterTests,
     cell |-> T!CellTests, ref_cell |-> T!RefCellTests, wait_group |-> T!WaitGroupTests]

Targets == {"emitter", "cell", "ref_cell", "wait_group"}

\* The poll mutex contains the mutex.
Init ==
    /\ suite \in DOMAIN Script
    /\ script \in Script[suite]
    /\ E!Init /\ X!Init /\ P!PollInit /\ R!Init /\ O!Init
    /\ C!Start(IF suite = "mpsc" THEN script ELSE <<C!channel(0)>>)
    /\ kind = IF suite \in Targets THEN suite ELSE "emitter"
    /\ T!TargetInit

OthersUnchanged ==
    /\ suite # "event" => UNCHANGED eventVars
    /\ suite # "executor" => UNCHANGED executorVars
    /\ suite \notin {"mutex", "poll_lock"} => UNCHANGED mutexVars
    /\ suite # "poll_lock" => UNCHANGED sinkVars
    /\ suite # "rwlock" => UNCHANGED rwVars
    /\ suite # "mpsc" => UNCHANGED mpscVars
    /\ suite # "oneshot" => UNCHANGED oneshotVars
    /\ suite \notin Targets => UNCHANGED targetVars

\* The next step of the test, in its model.
Do(step) ==
    \/ suite = "event" /\ E!Do(step)
    \/ suite = "executor" /\ X!Do(step)
    \/ suite = "mutex" /\ M!Do(step)
    \/ suite = "poll_lock" /\ P!Do(step)
    \/ suite = "rwlock" /\ R!Do(step)
    \/ suite = "mpsc" /\ C!Do(step)
    \/ suite = "oneshot" /\ O!Do(step)
    \/ suite \in Targets /\ T!Do(step)

TakeStep ==
    /\ script # <<>>
    /\ Do(Head(script))
    /\ script' = Tail(script)

\* What the executor does on its own between two steps of a test.
GoOn == suite = "executor" /\ X!Internal /\ UNCHANGED script

Next ==
    /\ TakeStep \/ GoOn
    /\ OthersUnchanged
    /\ UNCHANGED suite

Spec == Init /\ [][Next]_vars /\ WF_vars(Next)
-----------------------------------------------------------------------------
\* The models pass the tests of the repository: every call of every test has the
\* outcome that the test asserts.
TestsPass == <>(script = <<>>)
=============================================================================
