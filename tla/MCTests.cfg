SPECIFICATION Spec
CONSTANTS
    Listener = {"first", "second", "third", "listener", "early", "late", "l0", "l1", "l2", "l3", "l4"}
    Waker = {"noop", "waker", "first_waker", "second_waker", "old_waker", "new_waker"}
    Value = {"()", "42", "99", "7", "one", "two"}
    UsizeMax = 99
    NoTask = NoTask
    Client = {"fut", "guard", "_guard", "second", "waiting", "_again", "rc_guard", "borrowed", "rc", "first", "third", "read", "write", "reader", "writer", "lock_future", "a", "b", "c", "rc_reader", "second_rc", "other_writer", "poller", "held", "other", "inner", "lock", "tmp"}
    Unit = "()"
    Producer = {"sender", "sender_clone", "other"}
    Receiver = "receiver"
    Capacity = {0, 1, 2, 3, 4, 10}
    Channel = {"channel"}
    Poller = "poller"
    MaxItems = 3
    Stream = {"stream", "first", "second", "late", "waiter"}
    Waiter = "waiter"
    CellValue = {0, 1, 2}
    MaxEmits = 5
    MaxHandles = 2
    MaxRefs = 3
    MaxTickets = 3
    Thread = {"w1", "w2"}
    Main = "main"
    MaxTasks = 5
    MaxDepth = 1
    OpsPerPoll = 12
PROPERTY TestsPass
CHECK_DEADLOCK FALSE
