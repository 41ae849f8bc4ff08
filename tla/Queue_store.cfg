SPECIFICATION Spec
CONSTANTS
    MaxRecordId = 3
    MaxRecords = 2
    MaxBytes = 3
    MaxAge = 0
    Sizes <- TwoSizes
    FaultKinds = {"write"}
    CounterSpan = 16
    MaxSamples = 4
    MaxBoots = 2
    MaxEpoch = 2
    NoFile = NoFile
INVARIANTS WithinLimits NoTornRecord
PROPERTIES ImplementsSpool
CHECK_DEADLOCK FALSE
