SPECIFICATION LinkSpec
CONSTANTS
    Wrap = 8
    ActionInterval = 1
    StatusInterval = 2
    BackoffMin = 1
    BackoffMax = 2
    MaxStall = 1
INVARIANTS AttemptNear
CHECK_DEADLOCK FALSE
