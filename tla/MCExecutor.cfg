SPECIFICATION Spec
CONSTANTS
    Thread = {w}
    Main = Main
    MaxTasks = 2
    MaxDepth = 2
    OpsPerPoll = 1
    NoTask = NoTask
INVARIANTS TypeOK QueuedExactlyOnce NoLostWake NoSleepOnWork NothingOutlivesTheExecutor
CHECK_DEADLOCK FALSE
PROPERTIES WakeIsServed RunsInOrder ImplementsRunQueue
