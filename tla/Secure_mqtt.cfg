SPECIFICATION ClientSpec
CONSTANTS
    Halves = {"session", "telemetry"}
    Span = 12
    BackoffMin = 1
    BackoffMax = 3
    MaxOutage = 2
    FastFailure = FALSE
    Records = 2
    LiveSamples = 1
    MessageIds = {1, 2}
    PubackTimeout = 1
    EarlyPuback = FALSE
    MillisZero = FALSE
INVARIANTS NotStranded ConnectedHonest DeadlineNear RemovedOnlyIfDelivered
           TimeoutHonest
PROPERTIES Reconnects QueueDrains
CHECK_DEADLOCK FALSE
