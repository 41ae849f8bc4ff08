SPECIFICATION ModeSpec
CONSTANTS
    whole = whole
    split = split
    foreign = foreign
    Commands <- SomeCommands
    Length <- SomeLengths
    MaxPieces = 2
    MaxDeliveries = 5
    Followed <- SomeFollowed
    MicWrap = 6
    AlertWrap = 5
    Sounds <- SomeSounds
    TargetFrames = 2
    MaxReadFailures = 2
    AcousticStale = 1
    MicRetry = 3
    AlertDuration = 2
    AlertCooldown = 3
    ReadInterval <- SomeIntervals
    MaxAge <- SomeAges
    SensorRetry = 2
    ActionInterval = 1
    StatusInterval = 2
    BackoffMin = 1
    BackoffMax = 2
    LinkStall = 1
    WifiWrap = 12
    ConnectTimeout = 2
    NtpRetry = 3
    RestartDelay = 2
    MaxPosts = 2
    Pressures = {1, 2}
    MinSamples = 2
    MaxSamples = 3
    MaxSaves = 2
    Wrap = 6
    MaxStall = 2
INVARIANTS ModeTypeOK NoMixedCommand AnsweringIsReported PauseIsUpload
           ClientNeedsBearer TryNear ClockHonest SavedSurvives
           NoMixedCalibration
PROPERTIES MicHonest AlertEarned  RestartNeedsImage
           ComesOnline Reassociates
CHECK_DEADLOCK FALSE
