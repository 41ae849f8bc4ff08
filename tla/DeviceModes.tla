------------------------------ MODULE DeviceModes ------------------------------
(***************************************************************************)
(* The build modes of the firmware (src/include/config.h) and the parts    *)
(* each one begins and updates: AppController::begin and update            *)
(* (src/src/app/AppController.cpp) for the three products,                 *)
(* ModuleTestRunner::begin and update                                      *)
(* (src/src/diagnostics/ModuleTestRunner.cpp) for the others.              *)
(*                                                                         *)
(* The parts modelled in modules of their own are put together here: the   *)
(* mode decides which parts run, which sensors are polled and how the      *)
(* modem is used.  The parts of a mode share the loop and hardly any       *)
(* state, so a behaviour follows one of them, with a clock of its own, and *)
(* the others rest.  The spool and the MQTT path, which do interact, are   *)
(* composed in EdgeDelivery; the command buffer is extended here, and its  *)
(* variables have no prefix.                                               *)
(***************************************************************************)
EXTENDS CommandInbox, Integers

CONSTANTS
    Followed,        \* the pairs <<mode, part>> that are followed
    \* Microphone and AcousticAlerts
    MicWrap, AlertWrap, Sounds, TargetFrames, MaxReadFailures, AcousticStale,
    MicRetry, AlertDuration, AlertCooldown,
    \* SensorPolling
    ReadInterval, MaxAge, SensorRetry,
    \* CellularLink, WiFiManager, DeviceClock and LocalUpdate
    ActionInterval, StatusInterval, BackoffMin, BackoffMax, LinkStall,
    WifiWrap, ConnectTimeout, NtpRetry, RestartDelay, MaxPosts,
    \* BarometerCalibration
    Pressures, MinSamples, MaxSamples, MaxSaves,
    Wrap, MaxStall   \* of every part that has none of its own

\* An attempt to join an access point lasts some time, and half a turn of
\* millis() is longer than any pass.
ASSUME WifiAssumption ==
    /\ {WifiWrap, ConnectTimeout, BackoffMin, BackoffMax, MaxStall} \subseteq Nat
    /\ ConnectTimeout > 0
    /\ BackoffMin <= BackoffMax /\ BackoffMax < WifiWrap
    /\ MaxStall < WifiWrap \div 2

Products == {"FULL_PROTOTYPE", "FULL_PROTOTYPE_CELLULAR", "VEHICLESENSE_WIFI"}

\* The mode that tests one sensor, and nothing else but print it.
TestOf == [dht |-> "TEST_DHT11", gps |-> "TEST_GPS", accel |-> "TEST_ADXL345",
           gyro |-> "TEST_L3G4200D", mag |-> "TEST_HMC5883L",
           baro |-> "TEST_BMP180", light |-> "TEST_BH1750"]
SensorKinds == DOMAIN TestOf

\* The modes that begin and update a part.
SensorModes(sensor) ==
    {TestOf[sensor]}
    \cup (IF sensor = "light" THEN Products \ {"FULL_PROTOTYPE"} ELSE Products)
    \cup (IF sensor \in {"accel", "gyro", "mag", "baro"} THEN {"TEST_GY801"}
          ELSE {})
    \cup (IF sensor \in {"gps", "baro"} THEN {"CALIBRATE_BMP180"} ELSE {})

PartModes ==
    [microphone  |-> {"VEHICLESENSE_WIFI", "TEST_INMP441",
                      "COLLECT_ACOUSTIC_FEATURES"},
     alerts      |-> {"VEHICLESENSE_WIFI"},
     update      |-> {"VEHICLESENSE_WIFI", "FULL_PROTOTYPE_CELLULAR",
                      "TEST_LOCAL_WEB", "TEST_LOCAL_OTA"},
     cellular    |-> {"FULL_PROTOTYPE_CELLULAR", "TEST_SIM800L_AT",
                      "TEST_SIM800L_GPRS", "TEST_SIM800L_MQTT",
                      "TEST_SIM800L_MQTT_TLS"},
     wifi        |-> {"VEHICLESENSE_WIFI", "FULL_PROTOTYPE", "TEST_WIFI",
                      "TEST_MQTT_WIFI"},
     clock       |-> {"VEHICLESENSE_WIFI"},
     calibration |-> {"CALIBRATE_BMP180"},
     commands    |-> {"VEHICLESENSE_WIFI"}]

Parts == SensorKinds \cup DOMAIN PartModes
ModesOf(p) == IF p \in SensorKinds THEN SensorModes(p) ELSE PartModes[p]

\* A retry and an interval are shorter than a turn of millis(), and the
\* validator accepts a reading until the next one is due.
ASSUME SensorAssumption ==
    /\ {Wrap, SensorRetry, MaxStall} \subseteq Nat
    /\ SensorRetry > 0 /\ SensorRetry + MaxStall <= Wrap
    /\ \A k \in SensorKinds :
          /\ ReadInterval[k] \in Nat /\ MaxAge[k] \in Nat
          /\ ReadInterval[k] > 0 /\ ReadInterval[k] + MaxStall <= Wrap
          /\ k # "gps" => ReadInterval[k] <= MaxAge[k]

\* An alert takes some time, and its times are shorter than a turn of
\* millis().
ASSUME AlertAssumption ==
    /\ {AlertWrap, AlertDuration, AlertCooldown} \subseteq Nat
    /\ AlertDuration > 0
    /\ AlertDuration <= AlertWrap /\ AlertCooldown <= AlertWrap

\* What is stale and two passes are shorter than a turn of millis().
ASSUME MicrophoneAssumption ==
    /\ {MicWrap, AcousticStale, MaxStall} \subseteq Nat
    /\ AcousticStale + 2 * MaxStall < MicWrap

\* Delays and bounds are numbers.
ASSUME DelayAssumption ==
    {ActionInterval, StatusInterval, RestartDelay, MaxPosts} \subseteq Nat

\* A candidate takes a sample, and no pressure exceeds the top of the
\* barometer's range.
ASSUME CalibrationAssumption ==
    /\ {MinSamples, MaxSamples, MaxSaves} \subseteq Nat /\ MinSamples > 0
    /\ Pressures \subseteq Nat
    /\ \E top \in Pressures : \A p \in Pressures : p <= top

VARIABLES
    mode, part,      \* the mode the firmware is built for, the part followed
    micNow, micStarted, micBeginMs, readFailures, window, data, loopAt,
    loopMs, micReported, stored, age,
    alertNow, latest, processedMs, alert, candidate, lastEventMs, eventOut,
    heard, quiet,
    sensorNow, kind, condition, started, beginMs, readMs, valid, updatedMs,
    plausible, passMs, sensorReported, measured, goodFor,
    updateNow, uploading, updateRunning, bootSlot, inProgress, authorized,
    uploadError, finishedOk, restartPending, restartAtMs, servedMs, posts,
    confirmed, booted,
    linkNow, line, hasPin, simLocked, atOnly, apnConfigured, state,
    nextActionMs, modemBackoff, simReady, registered, gprs, clientUp, wasUp,
    nextAttemptMs, clientBackoff, linkPassMs,
    wifiNow, apUp, radioOn, associated, wasConnected, connecting, attemptMs,
    nextTryMs, wifiBackoff, wifiPassMs,
    clockNow, online, clock, answered, ntpStarted, ntpStartMs, source,
    clockPassMs, kept, ntpHeard,
    run, durationOver, resultsReady, offered, flash,
    applied, saving, toSave, allWritten, saves, clearFailed, reported

Mic == INSTANCE Microphone WITH Wrap <- MicWrap
Alerts == INSTANCE AcousticAlerts WITH Wrap <- AlertWrap
Sensors == INSTANCE SensorPolling
Update == INSTANCE LocalUpdate
Link == INSTANCE CellularLink WITH MaxStall <- LinkStall
Wifi == INSTANCE WiFiManager WITH Wrap <- WifiWrap
Clock == INSTANCE DeviceClock
Calibration == INSTANCE BarometerCalibration

\* A window of sound has features and takes a frame; a read may fail.
ASSUME WindowAssumption ==
    /\ Sounds \subseteq Mic!Features
    /\ {TargetFrames, MaxReadFailures} \subseteq Nat \ {0}

\* The variables of each part, in the order of its module.
micVars == <<micNow, micStarted, micBeginMs, readFailures, window, data,
             loopAt, loopMs, micReported, stored, age>>
alertVars == <<alertNow, latest, processedMs, alert, candidate, lastEventMs,
               eventOut, heard, quiet>>
sensorVars == <<sensorNow, kind, condition, started, beginMs, readMs, valid,
                updatedMs, plausible, passMs, sensorReported, measured,
                goodFor>>
updateVars == <<updateNow, uploading, updateRunning, bootSlot, inProgress,
                authorized, uploadError, finishedOk, restartPending,
                restartAtMs, servedMs, posts, confirmed, booted>>
linkVars == <<linkNow, line, hasPin, simLocked, atOnly, apnConfigured, state,
              nextActionMs, modemBackoff, simReady, registered, gprs,
              clientUp, wasUp, nextAttemptMs, clientBackoff, linkPassMs>>
wifiVars == <<wifiNow, apUp, radioOn, associated, wasConnected, connecting,
              attemptMs, nextTryMs, wifiBackoff, wifiPassMs>>
clockVars == <<clockNow, online, clock, answered, ntpStarted, ntpStartMs,
               source, clockPassMs, kept, ntpHeard>>
calVars == <<run, durationOver, resultsReady,
             offered, flash, applied, saving, toSave, allWritten, saves,
             clearFailed, reported>>

deviceVars == <<mode, part, vars, micVars, alertVars, sensorVars, updateVars,
                linkVars, wifiVars, clockVars, calVars>>

-----------------------------------------------------------------------------
\* begin of the mode.  A part that rests is in one of its first states.
ModeInit ==
    /\ \E f \in Followed : mode = f[1] /\ part = f[2] /\ f[1] \in ModesOf(f[2])
    /\ Init
    /\ Mic!MicInit /\ (part # "microphone" => ~micStarted)
    /\ Alerts!AlertInit
    /\ Sensors!SensorInit
    /\ kind = IF part \in SensorKinds THEN part ELSE "dht"
    /\ part \notin SensorKinds => condition = "absent"
    /\ Update!UpdateInit
    /\ Link!LinkInit /\ (atOnly <=> mode = "TEST_SIM800L_AT")
    /\ part # "cellular" => line = 0 /\ ~hasPin /\ apnConfigured
    /\ Wifi!WifiInit /\ (part # "wifi" => apUp)
    /\ Clock!ClockInit /\ (part # "clock" => online)
    /\ Calibration!CalInit

\* What rests while a part is followed.
RestBut(p) ==
    /\ UNCHANGED <<mode, part>>
    /\ p # "commands" => UNCHANGED vars
    /\ p # "microphone" => UNCHANGED micVars
    /\ p # "alerts" => UNCHANGED alertVars
    /\ p \notin SensorKinds => UNCHANGED sensorVars
    /\ p # "update" => UNCHANGED updateVars
    /\ p # "cellular" => UNCHANGED linkVars
    /\ p # "wifi" => UNCHANGED wifiVars
    /\ p # "clock" => UNCHANGED clockVars
    /\ p # "calibration" => UNCHANGED calVars

PartNext(p) ==
    \/ p = "commands" /\ Next
    \/ p = "microphone" /\ Mic!MicNext
    \/ p = "alerts" /\ Alerts!AlertNext
    \/ p \in SensorKinds /\ Sensors!SensorNext
    \/ p = "update" /\ Update!UpdateNext
    \/ p = "cellular" /\ Link!LinkNext
    \/ p = "wifi" /\ Wifi!WifiNext
    \/ p = "clock" /\ Clock!ClockNext
    \/ p = "calibration" /\ Calibration!CalNext

\* update of the mode, as the part followed sees it.
ModeNext == PartNext(part) /\ RestBut(part)

\* The fairness of the parts that have some, in the modes that run them.
Runs(p, step) == part = p /\ step /\ RestBut(p)

ModeFairness ==
    /\ WF_deviceVars(Runs("cellular", Link!LinkPass))
    /\ WF_deviceVars(Runs("cellular", Link!LinkTick))
    /\ WF_deviceVars(Runs("wifi", Wifi!WifiPass))
    /\ WF_deviceVars(Runs("wifi", Wifi!WifiTick))
    /\ SF_deviceVars(Runs("wifi", Wifi!Associates))

ModeSpec == ModeInit /\ [][ModeNext]_deviceVars /\ ModeFairness

-----------------------------------------------------------------------------
\* Type invariant, the parts' together.
ModeTypeOK ==
    /\ mode \in ModesOf(part)
    /\ TypeOK /\ Mic!MicTypeOK /\ Alerts!AlertTypeOK /\ Sensors!SensorTypeOK
    /\ Update!UpdateTypeOK /\ Link!LinkTypeOK /\ Wifi!WifiTypeOK
    /\ Clock!ClockTypeOK /\ Calibration!CalTypeOK

\* Microphone: telemetry calls the microphone valid only over a valid window
\* that is recent.
MicHonest == Mic!MicHonest

\* AcousticAlerts: an alert takes its whole duration and the cooldown of the
\* one before.
AlertEarned == Alerts!AlertEarned

\* SensorPolling: what telemetry reports was measured.
ReportedIsMeasured == Sensors!ReportedIsMeasured

\* SensorPolling: a sensor that answers again is reported again.
AnsweringIsReported == Sensors!AnsweringIsReported

\* LocalUpdate: storage and telemetry are paused during an upload only.
PauseIsUpload == Update!PauseIsUpload

\* LocalUpdate: no restart without an image that was accepted.
RestartNeedsImage == Update!RestartNeedsImage

\* CellularLink: MQTT is connected over a bearer only.
ClientNeedsBearer == Link!ClientNeedsBearer

\* CellularLink: a good line brings the modem online.
ComesOnline == part = "cellular" => Link!ComesOnline

\* WiFiManager: the next attempt is never out of reach.
TryNear == Wifi!TryNear

\* WiFiManager: an access point that stays is joined for good.
Reassociates == part = "wifi" => Wifi!Reassociates

\* DeviceClock: the source named for the time is the one that set it.
ClockHonest == Clock!ClockHonest

\* BarometerCalibration: a calibration reported saved is the one used from
\* then on.
SavedSurvives == Calibration!SavedSurvives

\* BarometerCalibration: no calibration is put together from two.
NoMixedCalibration == Calibration!NoMixedCalibration
=============================================================================
