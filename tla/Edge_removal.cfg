SPECIFICATION EdgeSpec
CONSTANTS
    MaxRecordId = 4
    MaxRecords = 2
    MaxBytes = 2
    MaxAge = 1
    Sizes <- OneSize
    FaultKinds = {}
    CounterSpan = 16
    MaxSamples = 3
    MaxBoots = 2
    MaxEpoch = 1
    NoFile = NoFile
    MaxSends = 3
    AnswerBetween = FALSE
    Nobody = Nobody
INVARIANTS RemovedOnlyAfterPuback NothingVanishes ReplayedInOrder
CHECK_DEADLOCK FALSE
