SPECIFICATION Spec
CONSTANTS
    Listener = {l1, l2, l3}
    Task = {t1, t2}
    Value = {v1, v2}
    UsizeMax = 4
    NoTask = NoTask
SYMMETRY Symmetry
INVARIANTS TypeOK NoLostWake
PROPERTIES NotifyReaches InRegistrationOrder HandoverKeepsNotification
CHECK_DEADLOCK FALSE
