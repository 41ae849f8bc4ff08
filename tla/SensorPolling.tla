---------------------------- MODULE SensorPolling ----------------------------
(***************************************************************************)
(* The polled sensors (src/src/sensors) and what the telemetry says of     *)
(* them: begin and update of the five I2C drivers, of the DHT11 and of the *)
(* GPS, then buildSnapshot and TelemetryValidator::validate at the end of  *)
(* the pass of AppController's loop, with the nowMs of that pass.          *)
(*                                                                         *)
(* The drivers share a pattern and differ in details, so one sensor of     *)
(* each kind is followed at a time.  Its condition is "good", "faulty" (it *)
(* answers, but what it says cannot be used) or "absent", and changes at   *)
(* any time.  A pass may last, or come late, by MaxStall ticks; time wraps *)
(* at Wrap, as millis() does at 2^32.                                      *)
(***************************************************************************)
EXTENDS Integers

CONSTANTS
    Wrap,            \* 2^32, in ticks
    SensorKinds,     \* the kinds of sensor followed
    ReadInterval,    \* *_READ_INTERVAL_MS by kind
    MaxAge,          \* the age TelemetryValidator accepts, by kind
    SensorRetry,     \* SENSOR_RETRY_INTERVAL_MS
    MaxStall         \* bound: ticks between two passes of the loop

I2CKinds == {"accel", "gyro", "mag", "baro", "light"}
AllKinds == I2CKinds \cup {"dht", "gps"}
Conditions == {"good", "faulty", "absent"}

VARIABLES
    sensorNow,       \* millis()
    kind,            \* the sensor followed
    condition,       \* of its hardware
    started,         \* _started
    beginMs,         \* _lastBeginAttemptMs, of use until it has started
    readMs,          \* _lastReadMs
    valid,           \* _data.valid
    updatedMs,       \* _data.updatedAtMs
    plausible,       \* the stored values are in the validator's ranges
    passMs,          \* nowMs of the last pass
    sensorReported,  \* valid in the last telemetry snapshot
    measured,        \* history: ticks since the sensor was last measured
    goodFor          \* history: ticks the sensor has been good

driver == <<started, beginMs, readMs>>
reading == <<valid, updatedMs, plausible>>
sensorVars == <<sensorNow, kind, condition, started, beginMs, readMs, valid,
                updatedMs, plausible, passMs, sensorReported, measured,
                goodFor>>

Ticks == 0..(Wrap - 1)
Since(then, at) == (at - then) % Wrap         \* uint32_t subtraction
Fresh(at) == updatedMs' # 0 /\ Since(updatedMs', at) <= MaxAge[kind]

\* A good sensor is read again after at most this long.
Recovery == SensorRetry + ReadInterval[kind] + 3 * MaxStall
OldMeasure == MaxAge[kind] + 1                \* the histories count no further
UpTo(limit, n) == IF n < limit THEN n ELSE limit

-----------------------------------------------------------------------------
\* The drivers' fields before begin, and begin at boot: the DHT11 and the GPS
\* start whatever answers.
SensorInit ==
    /\ sensorNow = 0 /\ passMs = 0
    /\ kind \in SensorKinds /\ condition \in Conditions
    /\ started = (kind \notin I2CKinds \/ condition = "good")
    /\ beginMs = 0
    /\ readMs = 0
    /\ valid = FALSE /\ updatedMs = 0 /\ plausible = FALSE
    /\ sensorReported = FALSE
    /\ measured = OldMeasure /\ goodFor = 0

\* The GPS hears a fix of its own accord, whenever it is good.
SensorTick ==
    /\ Since(passMs, sensorNow) < MaxStall
    /\ sensorNow' = (sensorNow + 1) % Wrap
    /\ measured' = IF kind = "gps" /\ condition = "good" THEN 0
                   ELSE UpTo(OldMeasure, measured + 1)
    /\ goodFor' = IF condition = "good" THEN UpTo(Recovery, goodFor + 1) ELSE 0
    /\ UNCHANGED <<kind, condition, driver, reading, passMs, sensorReported>>

ConditionChanges ==
    /\ condition' \in Conditions \ {condition}
    /\ goodFor' = 0
    /\ UNCHANGED <<sensorNow, kind, driver, reading, passMs, sensorReported,
                   measured>>

-----------------------------------------------------------------------------
Invalidate == valid' = FALSE /\ UNCHANGED <<updatedMs, plausible>>

\* begin of an I2C driver: probe, then the library's own start.  Only BH1750
\* clears valid when that fails; beginMs is dead once started.
Begin ==
    /\ started' = (condition = "good")
    /\ beginMs' = IF condition = "good" THEN 0 ELSE sensorNow
    /\ IF condition = "absent" \/ (condition = "faulty" /\ kind = "light")
       THEN Invalidate ELSE UNCHANGED reading
    /\ UNCHANGED <<readMs, measured>>

\* The probe of a started sensor fails, or the gyroscope's read times out: the
\* driver starts over after SensorRetry.
KeepsOldReading ==                                   \* mutant
    /\ UNCHANGED reading
    /\ started' = FALSE /\ beginMs' = sensorNow
    /\ UNCHANGED measured

StopsResponding ==
    /\ Invalidate
    /\ started' = FALSE /\ beginMs' = sensorNow
    /\ UNCHANGED measured

\* A reading is stored with the time of the pass.
Measure(inRange) ==
    /\ valid' = TRUE /\ updatedMs' = sensorNow /\ plausible' = inRange
    /\ measured' = 0
    /\ UNCHANGED <<started, beginMs>>

\* A reading that cannot be used: the barometer and the DHT11 keep the time of
\* the last good one, the others move it.
Unusable ==
    /\ valid' = FALSE
    /\ updatedMs' = IF kind \in {"baro", "dht"} THEN updatedMs ELSE sensorNow
    /\ UNCHANGED <<plausible, started, beginMs, measured>>

\* What a faulty sensor does when it is read: the barometer says something out
\* of range, the gyroscope nothing in time, any other something of no use.
ReadFaulty ==
    \/ kind = "baro" /\ Measure(FALSE)
    \/ kind # "gyro" /\ Unusable
    \/ kind = "gyro" /\ StopsResponding

OverflowingDue ==                                    \* mutant
    sensorNow >= readMs + ReadInterval[kind]

ReadDue == Since(readMs, sensorNow) >= ReadInterval[kind]

Idle == UNCHANGED <<driver, reading, measured>>

\* update of an I2C driver.
UpdateI2C ==
    \/ ~started /\ Since(beginMs, sensorNow) >= SensorRetry /\ Begin
    \/ ~started /\ Since(beginMs, sensorNow) < SensorRetry /\ Idle
    \/ started /\ ~ReadDue /\ Idle
    \/ /\ started /\ ReadDue
       /\ readMs' = sensorNow
       /\ \/ condition = "absent" /\ StopsResponding
          \/ condition = "faulty" /\ ReadFaulty
          \/ condition = "good" /\ Measure(TRUE)

\* DHT11Sensor::update
UpdateDht ==
    \/ ~ReadDue /\ Idle
    \/ /\ ReadDue
       /\ readMs' = sensorNow
       /\ \/ condition = "good" /\ Measure(TRUE)
          \/ condition = "faulty" /\ Measure(FALSE)
          \/ condition # "good" /\ Unusable

\* GPSNeo6M::update: the library says how old its last fix is, and the fix is
\* stored with the time it was heard.
UpdateGps ==
    /\ IF measured <= MaxAge["gps"]
       THEN /\ valid' = TRUE /\ plausible' = TRUE
            /\ updatedMs' = (sensorNow - measured) % Wrap
       ELSE Invalidate
    /\ UNCHANGED <<driver, measured>>

\* One pass: update, then validate.
SensorPass ==
    /\ \/ kind \in I2CKinds /\ UpdateI2C
       \/ kind = "dht" /\ UpdateDht
       \/ kind = "gps" /\ UpdateGps
    /\ sensorReported' = (valid' /\ Fresh(sensorNow) /\ plausible')
    /\ passMs' = sensorNow
    /\ UNCHANGED <<sensorNow, kind, condition, goodFor>>

SensorNext == SensorTick \/ ConditionChanges \/ SensorPass

SensorSpec == SensorInit /\ [][SensorNext]_sensorVars

-----------------------------------------------------------------------------
\* Type invariant.
SensorTypeOK ==
    /\ {sensorNow, passMs, beginMs, readMs, updatedMs} \subseteq Ticks
    /\ kind \in SensorKinds /\ condition \in Conditions
    /\ {started, valid, plausible, sensorReported} \subseteq BOOLEAN
    /\ measured \in 0..OldMeasure /\ goodFor \in 0..Recovery

\* A telemetry that calls a sensor valid carries a reading that was measured
\* no longer than the validator's MaxAge before the pass: not one from before
\* an outage whose age has come round with millis(), whichever driver it is.
ReportedIsMeasured ==
    [][(passMs' # passMs /\ sensorReported')
          => measured' <= MaxAge[kind]]_sensorVars

\* A sensor that answers again is back in the telemetry within one retry, one
\* interval and the passes between, and stays there as long as it answers,
\* late passes or not.  (A reading at millis() = 0 is taken for none.)
AnsweringIsReported ==
    goodFor >= Recovery => (sensorReported \/ updatedMs = 0)
=============================================================================
