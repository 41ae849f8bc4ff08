---------------------------- MODULE AcousticAlerts ----------------------------
(***************************************************************************)
(* From windows of sound to alerts: AppController::processAcoustic, the    *)
(* AcousticAlertEvaluator it feeds and the event it publishes              *)
(* (src/src/app/AppController.cpp, src/src/acoustic).  The loop looks at   *)
(* the last window the microphone stored, so windows stored while a pass   *)
(* of the loop is stalled are overwritten and never seen; the microphone   *)
(* itself is the module Microphone, here it stores any reading it can.     *)
(***************************************************************************)
EXTENDS AcousticRules

CONSTANTS
    Wrap,            \* 2^32, in ticks
    Sounds,          \* the windows of sound the microphone hears
    AlertDuration,   \* ACOUSTIC_ALERT_REQUIRED_DURATION_MS
    AlertCooldown    \* ACOUSTIC_ALERT_COOLDOWN_MS

VARIABLES
    alertNow,        \* millis(), the nowMs of the next pass
    latest,          \* what getData() returns
    processedMs,     \* _lastAcousticProcessedMs
    alert,           \* _acousticAlert
    candidate,       \* _candidateActive, _candidateType, _candidateStartedMs
    lastEventMs,     \* _lastEventMs
    eventOut,        \* what became of the event of the last window
    heard,           \* history: the unbroken run of windows that count
    quiet            \* history: ticks since the last alert, at most AlertCooldown

evaluator == <<processedMs, alert, candidate, lastEventMs, eventOut>>
alertVars == <<alertNow, latest, processedMs, alert, candidate, lastEventMs,
               eventOut, heard, quiet>>

Ticks == 0..(Wrap - 1)
Since(then, at) == (at - then) % Wrap         \* uint32_t subtraction

NoCandidate == [active |-> FALSE, type |-> "", startedMs |-> 0]
NoRun == [type |-> "", ticks |-> 0]

-----------------------------------------------------------------------------
AlertInit ==
    /\ alertNow = 0
    /\ latest = NoReading(0)
    /\ processedMs = 0
    /\ alert = [active |-> FALSE, triggered |-> FALSE, eventType |-> ""]
    /\ candidate = NoCandidate /\ lastEventMs = 0
    /\ eventOut = "none"
    /\ heard = NoRun /\ quiet = AlertCooldown

AlertTick ==
    /\ alertNow' = (alertNow + 1) % Wrap
    /\ heard' = IF heard.type = "" THEN heard
                ELSE [heard EXCEPT !.ticks = Least(@ + 1, AlertDuration)]
    /\ quiet' = Least(quiet + 1, AlertCooldown)
    /\ UNCHANGED <<latest, evaluator>>

\* The audio task stores a window, or that there is none.
WindowStored(record) ==
    /\ latest' = record
    /\ UNCHANGED <<alertNow, evaluator, heard, quiet>>

\* INMP441Microphone::update voids what it takes for stale.
WindowVoided ==
    /\ latest.updatedAtMs # 0 /\ latest' = Voided(latest)
    /\ UNCHANGED <<alertNow, evaluator, heard, quiet>>

-----------------------------------------------------------------------------
\* AcousticAlertEvaluator::update.
NextCandidate(data) ==
    IF ~Eligible(data) THEN NoCandidate
    ELSE IF candidate.active /\ candidate.type = EventFor(data.category)
         THEN candidate
         ELSE [active |-> TRUE, type |-> EventFor(data.category),
               startedMs |-> alertNow]

CooldownElapsed ==
    lastEventMs = 0 \/ Since(lastEventMs, alertNow) >= AlertCooldown

Triggers(data) ==
    /\ Eligible(data)
    /\ Since(NextCandidate(data).startedMs, alertNow) >= AlertDuration
    /\ CooldownElapsed

KeepsCandidate(data) ==                              \* mutant
    /\ candidate' = IF Eligible(data) THEN NextCandidate(data) ELSE candidate
    /\ alert' = [active |-> Eligible(data), triggered |-> Triggers(data),
                 eventType |-> IF Eligible(data)
                               THEN EventFor(data.category)
                               ELSE alert.eventType]
    /\ lastEventMs' = IF Triggers(data) THEN alertNow ELSE lastEventMs

Evaluate(data) ==
    /\ candidate' = NextCandidate(data)
    /\ alert' = [active |-> Eligible(data), triggered |-> Triggers(data),
                 eventType |-> IF Eligible(data)
                               THEN EventFor(data.category)
                               ELSE alert.eventType]
    /\ lastEventMs' = IF Triggers(data) THEN alertNow ELSE lastEventMs

\* History: for how long every window looked at was of one type that counts.
Hear(data) ==
    /\ heard' = IF ~Eligible(data) THEN NoRun
                ELSE IF heard.type = EventFor(data.category) THEN heard
                     ELSE [type |-> EventFor(data.category), ticks |-> 0]
    /\ quiet' = IF Triggers(data) THEN 0 ELSE quiet

\* processAcoustic.  A window it has not seen is evaluated; messages are made
\* only with a valid identity and no update of the firmware under way, so an
\* alert triggered meanwhile is dropped although its cooldown has begun.
\* The aggregate message, which changes no state, is left out.
ProcessAcoustic(mayPublish) ==
    /\ latest.updatedAtMs # 0 /\ latest.updatedAtMs # processedMs
    /\ processedMs' = latest.updatedAtMs
    /\ Evaluate(latest) /\ Hear(latest)
    /\ eventOut' = IF ~Triggers(latest) THEN "none"
                   ELSE IF mayPublish /\ ValidAnalysis(latest) THEN "published"
                   ELSE "dropped"
    /\ UNCHANGED <<alertNow, latest>>

AlertNext ==
    \/ AlertTick
    \/ \E sound \in Sounds : WindowStored(Published(sound, alertNow))
    \/ WindowStored(NoReading(alertNow))
    \/ WindowVoided
    \/ \E mayPublish \in BOOLEAN : ProcessAcoustic(mayPublish)

AlertSpec == AlertInit /\ [][AlertNext]_alertVars

-----------------------------------------------------------------------------
EventTypes == {"", "acoustic_traffic", "acoustic_horn", "acoustic_siren"}

\* Type invariant.
AlertTypeOK ==
    /\ alertNow \in Ticks
    /\ latest \in Readings /\ latest.updatedAtMs \in Ticks
    /\ processedMs \in Ticks /\ lastEventMs \in Ticks
    /\ alert \in [active : BOOLEAN, triggered : BOOLEAN,
                  eventType : EventTypes]
    /\ candidate \in [active : BOOLEAN, type : EventTypes, startedMs : Ticks]
    /\ eventOut \in {"none", "published", "dropped"}
    /\ heard \in [type : EventTypes, ticks : 0..AlertDuration]
    /\ quiet \in 0..AlertCooldown

\* An alert is triggered only after AlertDuration in which every window the
\* loop looked at was of its type, loud, sure and not clipped, and at least
\* AlertCooldown after the alert before it, whatever windows came in between.
\* (An alert at millis() = 0 is taken for none and starts no cooldown.)
AlertEarned ==
    [][(processedMs' # processedMs /\ alert'.triggered) =>
          /\ heard.type = alert'.eventType /\ heard.ticks >= AlertDuration
          /\ quiet >= AlertCooldown \/ lastEventMs = 0]_alertVars
=============================================================================
