SPECIFICATION FairSpec
CONSTANTS
    MaxRecordId = 2
    MaxRecords = 2
    MaxBytes = 2
    MaxAge = 1
    Sizes <- OneSize
    FaultKinds = {}
    CounterSpan = 16
    MaxSamples = 2
    MaxBoots = 1
    MaxEpoch = 1
    NoFile = NoFile
PROPERTIES SpoolComesBack
CHECK_DEADLOCK FALSE
