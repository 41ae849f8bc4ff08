SPECIFICATION EdgeSpec
CONSTANTS
    MaxRecordId = 2
    MaxRecords = 2
    MaxBytes = 2
    MaxAge = 1
    Sizes <- OneSize
    FaultKinds = {}
    CounterSpan = 16
    MaxSamples = 2
    MaxBoots = 1
    MaxEpoch = 1
    NoFile = NoFile
    MaxSends = 2
    AnswerBetween = TRUE
    Nobody = Nobody
INVARIANTS RemovedOnlyAfterPuback
CHECK_DEADLOCK FALSE
