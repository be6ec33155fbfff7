SPECIFICATION Spec
CONSTANTS
    Thread = {w}
    Main = Main
    MaxTasks = 2
    MaxDepth = 2
    OpsPerPoll = 1
    NoTask = NoTask
INVARIANT QueuedUntilPolled
CHECK_DEADLOCK FALSE
