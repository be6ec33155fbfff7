SPECIFICATION Spec
CONSTANTS
    Client = {c1, c2, c3, c4}
    Unit = Unit
INVARIANTS TypeOK NoLostWakeup
PROPERTIES FreeLockIsTaken ImplementsLock
