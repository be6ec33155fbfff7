SPECIFICATION Spec
CONSTANTS
    Stream = {s1, s2, s3}
    MaxEmits = 2
INVARIANT NotReplayed
CHECK_DEADLOCK FALSE
