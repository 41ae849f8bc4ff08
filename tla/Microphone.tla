------------------------------ MODULE Microphone ------------------------------
(***************************************************************************)
(* INMP441Microphone (src/src/sensors/INMP441Microphone.cpp).  Its audio   *)
(* task gathers frames into windows and stores the last window under a     *)
(* lock; AppController's loop reads millis() once per pass and gives that  *)
(* time to INMP441Microphone::update and to the validation of the next     *)
(* telemetry.  The task runs on the other core, between any two of those   *)
(* steps, and stamps what it stores with a millis() of its own.            *)
(*                                                                         *)
(* Time is counted in ticks and wraps at Wrap, as millis() does at 2^32.   *)
(* What a window sounds like is one of Sounds; which frames answered       *)
(* decides whether it is valid.                                            *)
(***************************************************************************)
EXTENDS AcousticRules

CONSTANTS
    Wrap,            \* 2^32, in ticks
    Sounds,          \* the windows of sound the microphone hears
    TargetFrames,    \* ACOUSTIC_AGGREGATE_FRAMES
    MaxReadFailures, \* failed reads in a row that void the data
    AcousticStale,   \* ACOUSTIC_STALE_MS
    MicRetry,        \* SENSOR_RETRY_INTERVAL_MS
    MaxStall         \* bound: ticks one pass of the loop may last

VARIABLES
    micNow,          \* millis()
    micStarted,      \* _started: the driver and its task run
    micBeginMs,      \* _lastBeginAttemptMs, of use until it has started
    readFailures,    \* consecutiveReadFailures
    window,          \* _accumulator
    data,            \* _data, what the task last stored
    loopAt,          \* where AppController::update stands
    loopMs,          \* nowMs of this pass
    micReported,     \* mic_valid of the last telemetry snapshot
    stored,          \* history: the window the task last stored
    age              \* history: ticks since then, at most OldAge

driver == <<micStarted, micBeginMs>>
loop == <<loopAt, loopMs>>
micVars == <<micNow, micStarted, micBeginMs, readFailures, window, data, loopAt,
             loopMs, micReported, stored, age>>

Ticks == 0..(Wrap - 1)
Since(then, at) == (at - then) % Wrap         \* uint32_t subtraction
OldAge == AcousticStale + MaxStall + 1        \* the history counts no further

-----------------------------------------------------------------------------
MicInit ==
    /\ micNow = 0
    /\ micStarted \in BOOLEAN /\ micBeginMs = 0
    /\ readFailures = 0 /\ window = EmptyWindow
    /\ data = NoReading(0)
    /\ loopAt = "start" /\ loopMs = micNow
    /\ micReported = FALSE
    /\ stored = NoReading(0) /\ age = OldAge

MicTick ==
    /\ Since(loopMs, micNow) < MaxStall
    /\ micNow' = (micNow + 1) % Wrap
    /\ age' = Least(age + 1, OldAge)
    /\ UNCHANGED <<driver, readFailures, window, data, loop, micReported,
                   stored>>

\* The critical section of publishAggregate and publishInvalid, stamped with
\* the millis() the task read just before it.
Store(record) ==
    /\ data' = record
    /\ stored' = record /\ age' = 0

\* The audio task, INMP441Microphone::run.  A read that fails: the fourth in a
\* row voids the data, but not the frames gathered so far.
ReadFails ==
    /\ micStarted
    /\ IF readFailures + 1 >= MaxReadFailures
       THEN readFailures' = 0 /\ Store(NoReading(micNow))
       ELSE readFailures' = readFailures + 1 /\ UNCHANGED <<data, stored, age>>
    /\ UNCHANGED <<micNow, driver, window, loop, micReported>>

\* A read that completes no frame.
PartialRead ==
    /\ micStarted /\ readFailures # 0
    /\ readFailures' = 0
    /\ UNCHANGED <<micNow, driver, window, data, loop, micReported, stored, age>>

\* A read that completes a frame the extractor cannot analyse.
FrameRejected ==
    /\ micStarted
    /\ readFailures' = 0
    /\ Store(NoReading(micNow))
    /\ UNCHANGED <<micNow, driver, window, loop, micReported>>

\* A read that completes a frame; the last frame of a window completes it, and
\* add returns the aggregate and resets.
FrameAdded(responsive, sound) ==
    LET next == AddFrame(window, TRUE, responsive)
        aggregate ==
            [sound EXCEPT !.valid = AggregateValid(next, TargetFrames),
                          !.signalResponsive =
                              AggregateResponsive(next, TargetFrames)]
    IN
    /\ micStarted
    /\ readFailures' = 0
    /\ IF next.frames < TargetFrames
       THEN window' = next /\ UNCHANGED <<data, stored, age>>
       ELSE window' = EmptyWindow /\ Store(Published(aggregate, micNow))
    /\ UNCHANGED <<micNow, driver, loop, micReported>>

-----------------------------------------------------------------------------
\* AppController::update starts a pass: nowMs is read here, once.
MicPassStarts ==
    /\ loopAt = "start"
    /\ loopAt' = "mic" /\ loopMs' = micNow
    /\ UNCHANGED <<micNow, driver, readFailures, window, data, micReported,
                   stored, age>>

\* INMP441Microphone::update before the driver runs: begin again from time to
\* time; it may fail at any of its steps.
MicRetries(started) ==
    /\ loopAt = "mic" /\ ~micStarted
    /\ loopAt' = "report"
    /\ IF Since(micBeginMs, loopMs) >= MicRetry
       THEN /\ micStarted' = started
            /\ micBeginMs' = IF started THEN 0 ELSE micNow
       ELSE UNCHANGED driver
    /\ UNCHANGED <<micNow, readFailures, window, data, loopMs, micReported,
                   stored, age>>

IsStale(record, at) ==
    record.updatedAtMs # 0 /\ Since(record.updatedAtMs, at) > AcousticStale

\* INMP441Microphone::update: data that is too old is void.
NeverVoids ==                                        \* mutant
    /\ loopAt = "mic" /\ micStarted
    /\ loopAt' = "report"
    /\ UNCHANGED <<micNow, driver, readFailures, window, data, loopMs,
                   micReported, stored, age>>

MicUpdate ==
    /\ loopAt = "mic" /\ micStarted
    /\ loopAt' = "report"
    /\ data' = IF IsStale(data, loopMs) THEN Voided(data) ELSE data
    /\ UNCHANGED <<micNow, driver, readFailures, window, loopMs, micReported,
                   stored, age>>

\* buildSnapshot and TelemetryValidator::validate, the end of the pass: what
\* the next telemetry says of the microphone.
MicSnapshot ==
    /\ loopAt = "report"
    /\ loopAt' = "start"
    /\ micReported' = /\ data.microphoneValid
                      /\ data.updatedAtMs # 0
                      /\ Since(data.updatedAtMs, loopMs) <= AcousticStale
    /\ UNCHANGED <<micNow, driver, readFailures, window, data, loopMs, stored,
                   age>>

MicNext ==
    \/ MicTick
    \/ ReadFails
    \/ PartialRead
    \/ FrameRejected
    \/ \E responsive \in BOOLEAN, sound \in Sounds :
          FrameAdded(responsive, sound)
    \/ MicPassStarts
    \/ \E started \in BOOLEAN : MicRetries(started)
    \/ MicUpdate
    \/ MicSnapshot

MicSpec == MicInit /\ [][MicNext]_micVars

-----------------------------------------------------------------------------
\* Type invariant.
MicTypeOK ==
    /\ micNow \in Ticks /\ micStarted \in BOOLEAN /\ micBeginMs \in Ticks
    /\ readFailures \in 0..(MaxReadFailures - 1)
    /\ window \in [frames : 0..(TargetFrames - 1),
                   valid : 0..(TargetFrames - 1),
                   responsive : 0..(TargetFrames - 1)]
    /\ data \in Readings /\ data.updatedAtMs \in Ticks
    /\ stored \in Readings /\ stored.updatedAtMs \in Ticks
    /\ loopAt \in {"start", "mic", "report"} /\ loopMs \in Ticks
    /\ micReported \in BOOLEAN
    /\ age \in 0..OldAge

\* The telemetry calls the microphone valid only if the last window the audio
\* task stored was valid, and no older than AcousticStale when the pass began,
\* however often millis() came round since: the flag is cleared before the
\* unsigned age can become small again.
MicHonest ==
    [][(loopAt = "report" /\ loopAt' = "start" /\ micReported') =>
          /\ stored.microphoneValid
          /\ age <= AcousticStale + Since(loopMs, micNow)]_micVars

\* docs/acoustic_monitoring.md: "unknown" is kept for input that is invalid,
\* does not respond, is not finite or clips.  Here the window last stored was
\* none of those, it is not older than AcousticStale, and it is still called
\* unknown.
UnknownIsReserved ==
    (age <= AcousticStale /\ stored.category # "unknown") =>
        data.category # "unknown"
=============================================================================
