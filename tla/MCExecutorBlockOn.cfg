SPECIFICATION Spec
CONSTANTS
    Thread = {w}
    Main = Main
    MaxTasks = 2
    MaxDepth = 1
    OpsPerPoll = 1
    NoTask = NoTask
INVARIANT PanicsOnlyWhenStuck
CHECK_DEADLOCK FALSE
