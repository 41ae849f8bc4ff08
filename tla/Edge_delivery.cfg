SPECIFICATION EdgeSpec
CONSTANTS
    MaxRecordId = 2
    MaxRecords = 2
    MaxBytes = 2
    MaxAge = 1
    Sizes <- OneSize
    FaultKinds = {"read", "write", "rewrite", "remove", "dir", "corrupt"}
    CounterSpan = 1
    MaxSamples = 2
    MaxBoots = 2
    MaxEpoch = 1
    NoFile = NoFile
    MaxSends = 2
    AnswerBetween = TRUE
    Nobody = Nobody
INVARIANTS ReplayFlagHonest OnceAsNew
CHECK_DEADLOCK FALSE
