# eneste: a verification project

TLA+ specifications of [eneste](../src), a `no_std` crate of single-threaded
asynchronous building blocks in Rust: an event, a task executor, locks, channels and
observables. The specifications are translated from `src/src/*.rs`; TLC checks them on
small instances, and TLAPS proves their safety properties for every instance.

Contents: 1 the system, 2 the modules, 3 the runs, 4 what is assumed, 5 what is proved,
6 where the code differs from its documentation, 7 what is not modelled, 8 the plan.

## 1 The system

### Components

| Component (source) | State | Operations | Built on |
|---|---|---|---|
| Event (`event.rs`) | listeners by id, each with a value, a waker or neither; the counter `notified`; `closed` | `listen`, `notify` (plain, additional, with a value), poll and drop of a listener, drop of the event, `stream` | |
| Executor (`executor.rs`) | per task the flags QUEUED, CANCELED, COMPLETED; the slots of the futures; the inbox; `closed` | `schedule` (from any thread), `spawn`, `detach`, drop of a handle, `process_tasks`, `tick`, `block_on`, drop | the event loop (external) |
| AsyncMutex (`lock/mutex.rs`) | `locked` | borrowed and `Rc` lock futures, their drops, drops of guards | one event |
| RwLock (`lock/rwlock.rs`) | `readers`, `locked` | read and write futures, borrowed and `Rc`, their drops, drops of guards | one event |
| Channel mpsc (`channel/mpsc.rs`) | a bounded queue, the counter `senders` | `send`, `try_send`, the `Send` future, clone and drop of a `Sender`, the `Receiver` stream and its drop | two events |
| Channel oneshot (`channel/oneshot.rs`) | a state word and a value | `send`, drop of the sender, `close`, `try_recv`, poll and drop of the receiver | one event |
| Emitter (`emitter.rs`) | none of its own | `subscribe`, `emit`, `EmitterStream`, `Listener`, `SubscribeOnce` | one event |
| WaitGroup (`waitgroup.rs`) | a counter of tickets | `add`, drop of a ticket, `wait` | an event and an `EventStream` |
| AsyncPollMutex, LockedSink (`poll_lock.rs`) | a lock future that is kept between polls, an item to be flushed | `poll_lock`, the `Sink` methods | an AsyncMutex |
| Observable cells (`cell.rs`, `ref_cell.rs`) | a value; for the `RefCell` its borrows and whether the guard was written to | `get`, `set`, `borrow`, `borrow_mut`, drops of guards, `subscribe`, clone, upgrade and drop of handles | an event and `EventStream` |
| Atom, helpers, spawners (`atom.rs`, `util.rs`, `upgrade.rs`, `channel/mod.rs`, `spawner.rs`) | none that changes | conversions, traits, adapters | |

### How they interact

Everything except the executor's wakers lives on one thread, behind `Rc` and `RefCell`.
There, a call or a poll runs to its end before any other code does, so *one call is one
step*; what interleaves are the calls. A component hands control on in one way only:
a poll that cannot go on stores the waker of its task in an event's listener and returns
`Pending`, and some other call notifies that listener and wakes that task. Everything
above the event therefore stands or falls with two questions: is the right listener
notified, and is the task behind it woken.

A waker of the executor may be woken from any thread. Waking it (`Header::schedule`)
runs in four steps on shared state: test the flags, set QUEUED, push into the inbox,
call the waker of the event loop. Other threads, and the executor itself, run between
them. A future may also call back into the executor while it is polled or dropped:
spawn, wake, cancel (itself too), and drain the queue with a nested `process_tasks` or
`block_on`.

### What is hard about it

* *Hand-over.* A notification belongs to a listener. If that listener is dropped before
  it is polled (a lock future that times out, a `select` that took another branch), the
  notification must go to the next one, with its waker woken, in order, and the counter
  must stay exact.
* *The counter.* `notify(n)` counts listeners that are notified already. If
  `Inner::notified` drifted upwards, `notify(1)` would reach nobody and every primitive
  would hang.
* *Migrating handles.* A listener may be polled by one task now and by another later.
* *Barging.* A newcomer may take a lock, or the last place in a queue, between the
  notification of a waiter and its poll. The waiter must queue again without losing the
  wake-up that others depend on.
* *Edge notification.* The channel notifies its receiver only when the queue was empty,
  and its senders only when the queue was full.
* *Between two listeners.* A stream has no listener from an item to its next poll; what
  happens meanwhile is announced without it.
* *Idle pollers.* `poll_lock` keeps a lock future between polls. A task that stops polling
  keeps it registered, and a notification may end there.
* *Endings.* A receiver, the last sender, an event or the executor is dropped while
  others wait on it.
* *Threads.* The executor goes to sleep while another thread is in the middle of
  `schedule`; a task is woken while it is polled; the executor is dropped meanwhile.
* *Re-entrance.* A future drains the queue that holds its own entry.

`PROJECT.json` lists these as `hazards`, each at its line, with the properties that
cover it or the reason why none does.

### What makes each component correct

* Event: the counter is exact; a notified listener's task is woken; the earliest
  unnotified listener is always next; `notify(n)` suffices; a hand-over loses nothing;
  dropping the event wakes everyone.
* Executor: a task has at most one queue entry, and has one if it was woken since its
  last poll began; the event loop does not sleep on work; wake-ups are served; a future
  is out of its slot exactly while it is polled, and tasks run in the order in which they
  were queued; the end of the executor ends every task. All together: it is a run queue.
* AsyncMutex, RwLock: both implement a lock; a free lock with waiters has one that is
  awake; a free lock is taken.
* AsyncPollMutex, LockedSink: the mutex stays a lock, and wakes somebody, whatever a poller
  does with the future it keeps; items reach the inner sink in order and once.
* mpsc: it is a bounded queue; the receiver does not sleep on data or on the end; a blocked sender learns of
  room and of the receiver's end.
* oneshot: it is a promise of one value, which is kept until it is received; the receiver learns of it, or of
  the sender's end, and sleeps on only if it took the value or closed the channel itself;
  `send` never meets the state its assertion excludes.
* Emitter: whoever sleeps can be woken; values come in order; streams end.
* Cells: a subscriber that sleeps could read the latest change, if it had a listener when
  changes were announced.
* WaitGroup: `wait` returns once the last ticket is gone, since it never waits without one.

## 2 The modules

`EventOps` holds the data of one event and its operations as operators on a record.
Every other module keeps such a record in a variable and is a state machine of its own,
so that a poll that does several things to an event (consume, drop, listen, park) is one
step, composed from those operators. `Executor` stands alone: the tasks it runs may make
any sequence of its calls.

| Module | Models | State and its source |
|---|---|---|
| `EventOps` | `Inner` and the operations on it | `order`: the walk order of the `BTreeMap` (ids only grow, so it is registration order); `value`: the notified listeners and their values; `waker`: the stored wakers; `notified`; `closed` |
| `Event` | one event, its owner, its listeners, the tasks that poll them | `ev`; the history variables `poller` (the task that last found a listener pending) and `woken` (pollers woken since) |
| `Executor` | the executor, other threads, the event loop | `flags`, `slot`, `nextId`, `inbox`, `closed` as in the code; `stack`: the nested `process_tasks` and `block_on` calls with the entries each has drained; `call`: where each thread is in `schedule`; `loop`, `signal`: the event loop; the history variables `known`, `owed`, `skipped` |
| `RunQueue` | what the executor promises of its tasks, abstractly | which tasks are spawned, done, ready, and polled by which call; whether the executor is being dropped |
| `Lock` | what a lock promises, abstractly | `holds`: the guard each client has |
| `AsyncMutex` | lock futures and guards of a mutex | `ev`, `locked`, `state` per client, `woken` |
| `PollMutex` | `AsyncPollMutex` and `LockedSink`: extends `AsyncMutex` by a poller | `alive`; `slot` of the sink; history of items: `sent`, `inner`, `failed` |
| `RwLock` | read and write futures and guards | `ev`, `readers`, `locked`, `state`, `woken` |
| `Mpsc` | senders, `Send` futures, the receiver | `queue`, `senders`, `sender_event`, `receiver_event`; which handles and futures exist; `woken`; `returned`: what the last call or poll returned |
| `Fifo` | what a bounded channel promises, abstractly | the queue, the producers with a handle, a send under way or a blocked one, the reader, `returned` |
| `Oneshot` | several one-value channels, and tasks that await their receivers | `state`, `value`, `event` per channel; how each sender ended; `returned`; history variables |
| `Promise` | what a one-value channel promises, abstractly | whose sender is gone, the fate of each value, who refuses one, who waits, `returned` |
| `Emitter` | an emitter and its subscribers | `ev`, `stream` (the `EmitterStreamState`); history of what was emitted and received |
| `Cells` | both observable cells: extends `Emitter` | `strong`, `value`, `guard`, `refs`; the history variables `changes`, `known`, `missed` |
| `WaitGroup` | a wait group and its waiter: extends `Emitter` | `tickets` |
| `EventTargets` | any one of these: an emitter, a cell of either kind, a wait group | `kind` |
| `EventTests`, `ExecutorTests`, `MutexTests`, `PollMutexTests`, `RwLockTests`, `MpscTests`, `OneshotTests`, `TargetTests` | the repository's tests as scripts | |
| `Tests` | all models side by side, with a script that one of them follows | `suite`, `script` |
| `MC*` | the instances that TLC checks | |
| `EventOpsProofs`, `EventProofs`, `ExecutorProofs`, `MutexProofs`, `RwLockProofs`, `MpscProofs`, `OneshotProofs`, `EmitterProofs` | theorems | |

Each action is one call of the source; `map` in `PROJECT.json` gives the lines of every
definition. Conventions:

* A listener is named by its owner. Its id is never reused and only its order is seen.
* Waking a task is recorded in a set (`woken`, or `asleep` in `Emitter`). When the
  executor, or whatever drives the task, polls it is left open; fairness says that it
  does. `woken` is cleared by the poll.
* A loop inside a poll is unrolled: the poll of a notified lock future is
  "consume, drop the listener, try again", in one step.
* `Rc` twins of a future have the same code and share one action.
* `EventStream` has the code of `EmitterStream`; one set of actions in `Emitter` stands for
  both. A cell's notification carries no value, so its subscribers read the cell when
  they are told of a change.
* An operator whose comment says *Broken on purpose* is part of no specification. It is
  the mutated form of the definition it stands before: each property must fail when
  that definition is replaced by it.
* Executor steps: an access to `Header::state`, to `Shared::closed` or to the inbox is
  one step, together with the thread-local work around it. The spin lock is assumed to
  exclude. Atomic accesses are sequentially consistent in the model; the code's
  orderings (AcqRel on the flags, the lock around the inbox) give the same for
  the accesses that matter, each of which is a single atomic word or lies inside the lock.

**How the poll mutex is composed.** The poller is one of the mutex's clients. Its future
is the client's state: none (`idle`), or kept (`waiting`) for as long as nobody polls it.
Its steps are the mutex's own where the code calls them so (`PollPending`, `DropFuture`),
and where one poll locks and unlocks (`PollSink`), one step that does both.

**The abstract lock.** `AsyncMutex` and `RwLock` say which client has which guard
(`Guards`) and implement `Lock` under that mapping (`ImplementsLock`). A poll that locks
and unlocks at once is a stutter there.

**The abstract run queue.** `Executor` implements `RunQueue` (`ImplementsRunQueue`): a task
is ready while it has a queue entry, wherever that is; done once COMPLETED or CANCELED is
set; and a call polls a task while it is in that phase. A step that only moves entries,
such as a drain or the push of an entry that a thread has already announced, is a stutter.
A nested call that uses up the entry of a task that is being polled is a `Skip` there.

**The abstract queue.** `Mpsc` implements `Fifo` (`ImplementsFifo`). `returned` is part of
both, so that the refinement is about outcomes: who is told "sent", "full or closed", an
item or the end, and when. What it hides is how the code decides it, by events and by a
counter of handles.

**The abstract promise.** `Oneshot` implements `Promise` (`ImplementsPromise`), again with what
the calls return. The promise knows what happened to the value and who refused it; the code
has one state word that both ends overwrite, and its `Empty` means "nothing yet" as well as
"taken".

**The tests.** A script is a test of the source, under its name: a sequence of calls,
each with the outcome the test asserts. `Tests` picks one as its initial state and lets the
model take its steps; if the model cannot take a step with the asserted outcome, the
script is stuck and `TestsPass` fails. The executor's tests also script what the futures do in
their polls, and the executor's own steps are taken in between. The scripts are an independent check of the models:
what they say was written by the authors of the code.

## 3 The runs

All passing runs are exhaustive on their instance. Sizes are distinct states.

| Run | Instance | States | What it shows |
|---|---|---|---|
| `event` | 3 listeners, 2 tasks, 2 values, `usize::MAX` = 4, with symmetry | 788 | `NoLostWake`, `NotifyReaches`, `InRegistrationOrder`, `HandoverKeepsNotification` |
| `executor` | Main and 1 thread, 2 tasks, nesting 2, 1 call per poll | 781,902 | `QueuedExactlyOnce`, `NoLostWake`, `NoSleepOnWork`, `NothingOutlivesTheExecutor`, `RunsInOrder`, `ImplementsRunQueue`, `WakeIsServed`; `TypeOK` says too that a future is out of its slot exactly while it is polled |
| `mutex` | 3 clients and the poller, 3 items | 3,630 | `NoLostWakeup`, `ItemsForwardedInOrder`, `ImplementsLock`, `FreeLockIsTakenIfDriven` |
| `rwlock` | 4 clients | 1,552 | `NoLostWakeup`, `FreeLockIsTaken`, `ImplementsLock` |
| `mpsc` | 3 producers, sizes 0, 1, 2 | 62,142 | `NoLostData`, `NoLostCapacity`, `BlockedSendsFail`, `ImplementsFifo`, `ReceiverIsServed` |
| `oneshot` | 2 channels, 2 tasks | 15,406 | `SendIsReachable`, `AwaiterIsWoken`, `ImplementsPromise`, `ReceiverResolves` |
| `emitter` | each of the four kinds, 3 subscribers, 2 notifications, 2 values | 295,691 | `SleepersHaveAWaker`, `InOrderUnlessHandedOver`, `SleepersKnowTheLatestChange`, `StreamsEnd`, `WaitReturns` |
| `tests` | 212 tests of 11 source files | 2,283 | `TestsPass` |
| `executor_nested`, `executor_block_on`, `mpsc_capacity`, `emitter_replay` | as above | | a statement of the documentation or of a test that the code does not keep (section 6) |

Each module also has a `TypeOK`, which ties the event's listeners to the futures that
own them.

### Why the bounds are enough

* `event`: with three listeners one can be passed over between two others, and a
  hand-over has a choice. Two tasks let a handle move. `usize::MAX` = 4 leaves a count
  that is larger than the number of listeners and still not "all".
  Symmetry is sound here: no liveness property is checked, and no operator depends on
  which listener, task or value it is.
* `executor`: the races are between one waker and the executor, and between two wakers
  of one task; Main can be a waker too, so one more thread gives both. Two tasks let
  one wake, cancel and outlive the other. `MaxDepth` = 2 gives a drain inside a poll.
  `OpsPerPoll` = 1 gives external code one call before it returns, and it can be any
  call; longer sequences arise over several polls. `MaxTasks`, `MaxDepth` and
  `OpsPerPoll` are bounds in the guards of `Enter`, `CanNest` and `CanCall`.
* `mutex`, `rwlock`: a holder, a notified waiter, one that is passed over, and a
  newcomer; a writer between readers and a reader between writers. In `mutex` the fourth
  is the poller. `MaxItems` = 3 (the guard of `StartSend`) lets one item be refused
  between two that arrive. There is no other bound: the locks are finite-state.
* `mpsc`: 0 is the degenerate size, 1 the one in which every pop frees a full queue, 2
  the smallest in which a second pop frees a place of a queue that was no longer full.
  Three producers: two blocked and one that fills the queue again.
* `oneshot`: channels interact only through the tasks that await them; two of each are
  a task with two receivers and a receiver with two tasks.
* `emitter`: one subscriber is dropped with an unread value while another has read its
  own and a third waits. `MaxEmits` = 2 (the guards of `Emit`, `DerefMut` and
  `DropTicket`) gives a value to be confused with another, and a change before and one
  after an item. `MaxHandles` = 2 lets one handle go while another stays; `MaxRefs` = 1
  is a shared borrow in the way of a mutable one; `MaxTickets` = 2 is a last ticket and
  one before it.
* `tests`: the constants are the names in the tests, and the bounds are those that the
  longest test needs, so no script ever meets one. Two threads stand for the eight of
  the executor's test with threads, and `MaxTasks` = 5 tasks for the thousand of another.

Deadlock is not checked where a program may simply end: the event, the channels and the
targets are dropped, the executor is gone or has panicked, a test is over. It is checked
for both locks, where some client can always take a step.

## 4 What is assumed

Fairness is weak and says what the surroundings must do, and only that:

* A task that was woken is polled (`Fairness` of `AsyncMutex`, `RwLock`, `Mpsc`,
  `Oneshot`). For tasks of this crate's executor, `WakeIsServed` in `Executor` shows it.
* `PollFairness` of `PollMutex` asks the same of the futures of `lock()` and nothing of the
  poller: a sink with an empty slot does not touch the lock when it is polled, so even a
  woken poller may leave its future notified for ever. The liveness property says so in its
  premise: a free lock is taken *if* the poller's future is, again and again, not
  notified (`FreeLockIsTakenIfDriven`).
* A subscriber that is not asleep is polled (`Fairness` of `Emitter`, `TargetFairness`):
  `Listener::poll` loops until its stream is pending, and `next().await` in a loop does
  the same. So is the task that awaits `wait()`.
* Executor: a thread inside `schedule` leaves it; a future returns from poll and from
  drop; the event loop drains a queue that is not empty and reacts to its waker. These
  are the duties of the futures and of the event loop, which are external.
* `Tests`: a test takes its next step if it can.

Nobody is obliged to lock, unlock, send, drop, wake or spawn. `FreeLockIsTaken` is about
some waiter, not about each: a waiter that is notified in vain goes to the end of
the queue, and the code promises no order.

`WakeIsServed` leaves out a task while a nested call is on the stack: a nested
`block_on` drains as long as there are tasks, and two tasks that wake one another keep it
busy for ever. It also leaves out a task whose entry such a call used up (section 6).

The constants' assumptions are the named `ASSUME`s of the modules: finite sets of
listeners, clients, producers and streams; `NoTask` is no task; `Poller` is a client and
`Waiter` a stream; bounds are natural numbers; `usize::MAX` is positive.

## 5 What is proved

TLAPS checks every theorem below down to the last leaf. They hold for every set of
threads, tasks and values, every finite set of listeners, clients, producers, channels or
streams, every size and bound, and every `usize::MAX`. Every invariant, every safety
action property and every refinement that a passing run checks is among them.

Some are proved and not given to a run, because a run's other properties fail with them:
`CountMatches` (`NotifyReaches` needs the counter), `DropWakesEveryWaiter` (`StreamsEnd`),
`SharedXorExclusive` (`ImplementsLock`), `SentIsKept` (`ImplementsPromise`), and `WakerIsCurrent`, `MutualExclusion` and
`WokenIffNotified`, parts of the inductive invariants.

**`EventOpsProofs`**: what each operation of an event preserves and returns. The
invariant of the record is `EventInv`: listeners are registered once, only they are
notified or parked, never both, and `notified` is the number of notified ones. There is one
lemma per operation (`ListenInv`, `MarkInv`, `ConsumeInv`, `UnregisterInv`, `ParkInv`,
`CloseInv`, `DropListenerInv`), and lemmas about the walk: `Before` is a strict total
order of the listeners, so a walk for `k` listeners passes nobody it could have
notified (`FirstUnnotifiedClosed`), finds `k` or all (`FirstUnnotifiedEnough`), and for
`k = 1` finds exactly one (`FirstUnnotifiedOne`). `Earliest`, that a non-empty set of
listeners has an earliest one, is proved from the well-foundedness of strict inclusion on
finite sets: an induction over the sequence is out of the prover's reach. All other
modules about events rest on these lemmas.

| Module | Theorem | What it proves |
|---|---|---|
| `EventProofs` | `EventTypeCorrect`, `CounterCorrect`, `NoWakeIsLost`, `WakersAreCurrent` | `TypeOK`, `CountMatches`, `NoLostWake`, `WakerIsCurrent` |
| | `NobodyOvertakes`, `NotifySuffices`, `HandoverLosesNothing`, `DropLeavesNobodyAsleep` | `InRegistrationOrder`, `NotifyReaches`, `HandoverKeepsNotification`, `DropWakesEveryWaiter` |
| `ExecutorProofs` | `ExecutorTypeCorrect`, `QueuedOnce`, `WakesAreKept`, `LoopIsWoken` | `TypeOK`, `QueuedExactlyOnce`, `NoLostWake`, `NoSleepOnWork` |
| | `ExecutorEndsItsTasks`, `TasksRunInOrder`, `ExecutorRunsItsTasks` | `NothingOutlivesTheExecutor`, `RunsInOrder`, `ImplementsRunQueue` |
| `MutexProofs` | `MutexTypeCorrect`, `Exclusion`, `WokenAreNotified`, `NoWakeupIsLost`, `MutexIsLock` | of the plain mutex: `TypeOK`, `MutualExclusion`, `WokenIffNotified`, `NoLostWakeup`, `ImplementsLock` |
| | `PollTypeCorrect`, `PollNoWakeupIsLost`, `ItemsInOrder`, `PollMutexIsLock` | with the poller: `TypeOK`, `NoLostWakeup`, `ItemsForwardedInOrder`, `ImplementsLock` |
| `RwLockProofs` | `RwLockTypeCorrect`, `Exclusion`, `NoWakeupIsLost`, `RwLockIsLock` | `TypeOK`, `SharedXorExclusive`, `NoLostWakeup`, `ImplementsLock` |
| `MpscProofs` | `ChannelTypeCorrect`, `DataIsAnnounced`, `CapacityIsAnnounced`, `BlockedSendsAreTold`, `ChannelIsFifo` | `TypeOK`, `NoLostData`, `NoLostCapacity`, `BlockedSendsFail`, `ImplementsFifo` |
| `OneshotProofs` | `OneshotTypeCorrect`, `SendNeverPanics`, `SentValuesAreKept`, `AwaitersAreWoken`, `OneshotIsPromise` | `TypeOK`, `SendIsReachable`, `SentIsKept`, `AwaiterIsWoken`, `ImplementsPromise` |
| `EmitterProofs` | `TargetTypeCorrect`, `SleepersAreParked`, `ValuesInOrder`, `NoChangeIsLost` | of `EventTargets`: `TypeOK`, `SleepersHaveAWaker`, `InOrderUnlessHandedOver`, `SleepersKnowTheLatestChange` |

Each module proves one inductive invariant (`EventInvariant`, `MutexInvariant`,
`PollMutexInvariant`, `RwLockInvariant`, `ChannelInvariant`, `OneshotInvariant`,
`TargetInvariant`; in `ExecutorProofs` the lemma `SpecInv`) and takes the rest from it. Why it has to be stronger than the
properties:

* **Event.** `EventInv` with `NoLostWake` and `WakerIsCurrent`. That a notified
  listener's task is woken depends on the stored waker being the one of its last poller,
  and this is kept only because a listener is never notified and parked at once. The
  action properties follow in one step.
* **Mutex and RwLock.** A part about the event, `Queue`: each registered client is
  notified or parked under its own name, and the woken clients are the notified ones.
  A lemma for each operation shows that `Queue` is kept and that someone is notified
  afterwards when someone has to be: after a `notify(1)` if anyone is registered, after a
  drop if anyone was notified and anyone is left. The clients add who holds and who
  waits. The poll mutex adds `SinkInv` about its items, and is otherwise a mutex whose
  steps are pairs of the steps above.
* **Executor.** A queue entry of a task is in the inbox, in a batch that some nested call
  has drained, or in the hands of a thread that has set QUEUED and not pushed. `Told` says
  that no task is in two of them (`Once`), that QUEUED tells which tasks are (`Marked`,
  `MarkTold`), and that a woken task is in one (`WakeTold`). Each needs the others: a
  thread makes an entry because QUEUED was clear, drops a wake-up because it was set, and
  `run` clears QUEUED for an entry that was the only one. `Slots` does the same for the
  futures: a task is polled by one call at a time, because its slot is empty meanwhile.
  Three results are built on this.
  *The end*: `Kept` says that a spawned task without a slot has finished, since whoever
  removes a slot has set CANCELED or COMPLETED before; the drop cancels all those that
  still have one.
  *The run queue*: every step is mapped to a step of `RunQueue` or to none. That a run
  begins only for a task that is not running is `Slots`; that an entry which is taken
  leaves its task no longer ready is `Once`; and `Bounded` keeps the calls in
  `1 .. MaxDepth`.
  *The order*: without nesting there is one batch in front of one inbox. Every step
  leaves their concatenation as it is, appends to it, or takes its head, because a
  drain takes from the front of the inbox and only when the batch is empty. With nesting
  the statement is false, and it does not claim it: a nested call runs the rest of the inbox
  before the outer call goes on with its batch.
* **Mpsc.** Two queues that share one set of woken tasks, each with the promise that
  somebody is notified: the receiver when there is data or no sender, a sender when a
  one-slot queue is empty, all of them when the receiver is gone. The refinement of `Fifo`
  needs of the invariant that the counter counts the handles, so that it is zero exactly
  when the last one is gone (`CountedHandles`); this holds only while the receiver lives,
  and nobody asks afterwards.
* **Oneshot.** As long as the sender exists, its event has never notified anyone and the
  awaiter is parked with the waker of the task that polled it last; so whatever ends the
  sender wakes the right task. `EndedOk` ties the state word to how the sender ended: after
  a send it is `Full` until the value is received, otherwise `SenderClosed` or
  `ReceiverClosed`. From this follows what each answer means, which is what the refinement of
  `Promise` needs; `ClosedByReceiver` adds that only the receiver closes its channel.
* **Targets.** Every notification a stream has not read is newer than what it has got, or
  was handed over; a sleeper has a listener that is parked and not notified, and so has
  nothing untold. For the cells: what was announced after the stream's last reading is
  in its listener, or it had none then. For the wait group: the last ticket's drop notifies
  one listener, and the waiter is the only one it can be (`SleepersAreParked`).

Only model-checked: the liveness properties `FreeLockIsTaken`, `FreeLockIsTakenIfDriven`,
`WakeIsServed`, `ReceiverIsServed`, `ReceiverResolves`, `StreamsEnd` and `WaitReturns`
(liveness under fairness and `ENABLED` are beyond the prover), and `TestsPass`. Induction
over data and RECURSIVE operators are out of its reach too; the models need neither.

## 6 Where the code differs from what it says

Each is a run that ends in a counterexample, and a finding in `PROJECT.json` with the
sentence it contradicts.

1. `executor_nested`: "Queue the task exactly once until it gets polled again". A task
   is woken while it is polled, and its future then drains the queue itself. The nested
   call clears QUEUED, finds the future out of its slot and skips it: the wake-up is lost.
2. `executor_block_on`: "Nothing can wake it at that point". `block_on` panics with an
   empty inbox while another thread has set QUEUED and not pushed yet.
3. `mpsc_capacity`: the event "notifies blocked senders when capacity is freed".
   Only the pop that finds the queue full notifies, and one sender. With two slots the
   receiver and a sender can end up waiting for one another.
4. `emitter_replay`: "values emitted before subscribing are not replayed". The unread
   value of a dropped subscriber is handed to the next listener, whenever it subscribed.

Not a contradiction, as nothing promises more, but worth knowing: a reader can sleep behind
a writer while only readers hold the lock, since a release notifies one waiter; and
a poller that stops polling with a notified future keeps a free poll mutex from its
waiters (though not from newcomers) until that future is polled or dropped: `notify(1)`
counts it as the one that is notified.

## 7 What is not modelled

* Wakers that run code. A waker of this crate only queues a task. Another that
  polled or dropped a listener inside `wake()` would meet a borrowed `RefCell`.
* Panics that unwind through the executor, and what is freed when.
* The `RawWaker` vtable and its reference counts, and the memory orderings: outside
  what these models talk about.
* `is_terminated` of the listeners and streams: pure readings that no other code calls.
* Values: a payload matters only to `Emitter` and `PollMutex`, where it is numbered, and
  to `ObservableCell`, which tells a changed value from an equal one.
* Clones of a cell: a clone of an `ObservableCell` or `ObservableRefCell` copies the value
  into a cell of its own, with another event; handles to one cell are `Rc`s.
* How often a task was woken, and how often the inner sink was flushed or closed.
* `Atom` (an immutable string), the traits of `upgrade.rs`, `IterStream` of `util.rs`,
  `ChannelError`, the spawner adapters and `test_util.rs`: they have no state that changes.
* Tests that are not replayed: those of the parts in the last item, and those of types,
  formatting, equality and conversions.

## 8 The plan

Done, in this order, the most important first: `EventOps` and `Event`, since everything
rests on them; `Executor`, the one concurrent part; `AsyncMutex`; `RwLock`; `Mpsc`;
`Emitter`; `Oneshot`; the proofs about events and the mutex; `PollMutex`; `Cells`,
`WaitGroup` and `EventTargets`; the abstract `Lock` and its refinements; the replay of
the tests; the proofs about the other components; `RunQueue`, `Fifo`, `Promise` and the
proofs that `Executor`, `Mpsc` and `Oneshot` implement them; the order of tasks and the executor's end.

Next:

1. A future that panics in the executor's poll: what is left of the batch it was drained
   with, and which tasks keep QUEUED without an entry.
2. Locks and channels whose tasks are run by a `RunQueue`, in place of the assumption that
   a woken task is polled.
3. Two threads besides Main in the executor's instance. For the safety properties the
   theorems already cover any number.
