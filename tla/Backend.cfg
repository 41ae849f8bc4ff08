SPECIFICATION BackendSpec
CONSTANTS
    Services = {"status", "ingestion", "commands", "trips"}
    Messages = {m1}
    StaleAfter = 2
    OfflineAfter = 3
    MaxDelay = 1
    Alerts = {1, 2, 3, 4, 5, 6, 7}
    first = first
    again = again
    malformed = malformed
    Packets <- SomePackets
    SampleOf <- SomeSamples
    Rejected <- SomeRejected
    PacketIds = {1, 2, 3}
    Deliveries = {1, 2}
    MaxTroubles = 1
    IdsReused = FALSE
    QuarantineFails = TRUE
    Orders = {c1}
    MaxRefusals = 1
    Points = {p1, p2}
    Rows = {1, 2, 3, 4, 5}
    StartDuration = 1
    StopDuration = 1
    MaxLag = 0
INVARIANTS BackendTypeOK AckedIsStored
PROPERTIES SilenceShown BackOnline AlertsClear  LeavesQueue TripsEnd
CHECK_DEADLOCK FALSE
