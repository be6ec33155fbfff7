SPECIFICATION TargetSpec
CONSTANTS
    Stream = {s1, s2, s3}
    MaxEmits = 2
    Value = {v1, v2}
    MaxHandles = 2
    MaxRefs = 1
    Waiter = s1
    MaxTickets = 2
INVARIANTS TypeOK SleepersHaveAWaker InOrderUnlessHandedOver SleepersKnowTheLatestChange
PROPERTIES StreamsEnd WaitReturns
CHECK_DEADLOCK FALSE
