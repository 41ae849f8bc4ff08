SPECIFICATION Spec
CONSTANTS
    MaxRecordId = 4
    MaxRecords = 2
    MaxBytes = 2
    MaxAge = 1
    Sizes <- OneSize
    FaultKinds = {"write", "rewrite", "corrupt"}
    CounterSpan = 16
    MaxSamples = 4
    MaxBoots = 2
    MaxEpoch = 1
    NoFile = NoFile
INVARIANTS IndexMatchesCard Conservation
CHECK_DEADLOCK FALSE
