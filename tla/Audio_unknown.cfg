SPECIFICATION MicSpec
CONSTANTS
    Wrap = 6
    Sounds <- SomeSounds
    TargetFrames = 2
    MaxReadFailures = 2
    AcousticStale = 1
    MicRetry = 3
    MaxStall = 2
INVARIANTS UnknownIsReserved
CHECK_DEADLOCK FALSE
