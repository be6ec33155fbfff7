SPECIFICATION PollSpec
CONSTANTS
    Client = {c1, c2, c3, p}
    Poller = p
    Unit = Unit
    MaxItems = 3
INVARIANTS TypeOK NoLostWakeup ItemsForwardedInOrder
PROPERTIES ImplementsLock FreeLockIsTakenIfDriven
