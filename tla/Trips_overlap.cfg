SPECIFICATION TripSpec
CONSTANTS
    Points = {p1, p2}
    Rows = {1, 2, 3, 4, 5}
    StartDuration = 1
    StopDuration = 1
    MaxLag = 1
PROPERTIES TripNeverRetreats
CHECK_DEADLOCK FALSE
