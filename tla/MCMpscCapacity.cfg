SPECIFICATION Spec
CONSTANTS
    Producer = {p1, p2, p3}
    Receiver = r
    Capacity = {0, 1, 2}
    Unit = Unit
INVARIANT NoMutualWait
CHECK_DEADLOCK FALSE
