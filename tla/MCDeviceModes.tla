---------------------------- MODULE MCDeviceModes ----------------------------
(* Each part in one mode that runs it, the modem in both of its modes. *)
EXTENDS DeviceModes, MCSounds

CONSTANTS whole, split, foreign

SomeCommands == {whole, split, foreign}
SomeLengths == [c \in SomeCommands |->
                  CASE c = whole -> 1 [] c = split -> 2 [] c = foreign -> 0]

SomeFollowed ==
    {<<"VEHICLESENSE_WIFI", p>> :
        p \in {"microphone", "alerts", "commands", "wifi", "clock", "update",
               "accel", "light", "dht", "gps"}}
    \cup {<<"FULL_PROTOTYPE_CELLULAR", "cellular">>,
          <<"TEST_SIM800L_AT", "cellular">>,
          <<"CALIBRATE_BMP180", "calibration">>,
          <<"TEST_BMP180", "baro">>, <<"TEST_L3G4200D", "gyro">>}

SomeIntervals == [s \in SensorKinds |->
                    IF s \in {"accel", "gyro", "mag"} THEN 1 ELSE 2]
SomeAges == [s \in SensorKinds |->
               CASE s \in {"accel", "gyro", "mag"} -> 2
                 [] s = "light" -> 3
                 [] s \in {"baro", "dht", "gps"} -> 4]
=============================================================================
