SPECIFICATION Spec
CONSTANTS
    Channel = {a, b}
    Task = {t1, t2}
    Unit = Unit
    NoTask = NoTask
INVARIANTS TypeOK SendIsReachable AwaiterIsWoken
PROPERTIES ReceiverResolves ImplementsPromise
CHECK_DEADLOCK FALSE
