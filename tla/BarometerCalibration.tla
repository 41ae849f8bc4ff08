------------------------- MODULE BarometerCalibration -------------------------
(***************************************************************************)
(* The barometer's calibration: BarometerCalibrationRunner                 *)
(* (src/src/diagnostics/BarometerCalibrationRunner.cpp) collects samples,  *)
(* computes two candidates and saves one on a serial command;              *)
(* BarometerCalibrationStore (src/src/calibration) keeps it in flash, key  *)
(* by key, and gives it back at the next start.                            *)
(*                                                                         *)
(* The flash is external: any of its calls may fail, a clear that fails or *)
(* is cut short may have erased any of the keys, and the power may go      *)
(* between two calls.  A calibration is known by the origin that load      *)
(* names and by the candidate its pressure was computed as; of the         *)
(* pressures only their order matters, and medians are doubled to stay     *)
(* whole.                                                                  *)
(***************************************************************************)
EXTENDS Integers, Sequences, FiniteSets

CONSTANTS
    Pressures,       \* the pressures the barometer may measure
    MinSamples,      \* BARO_CALIBRATION_MIN_SAMPLES
    MaxSamples,      \* kMaxSamples
    MaxSaves         \* bound: saves and clears

Keys == {"version", "pressure", "source"}
Origins == {"known", "gps"}
Default == [origin |-> "default"]
Candidates == [origin : Origins, median : {p + q : p, q \in Pressures}]

VARIABLES
    run,             \* what has been sampled, of use until the results are ready
    durationOver,    \* BARO_CALIBRATION_DURATION_MS since the first sample
    resultsReady,    \* _resultsReady
    offered,         \* the candidates that may be saved
    flash,           \* the keys of the namespace and what they hold
    applied,         \* what setCalibration was last given
    saving,          \* the calls save has still to make, <<>> outside of it
    toSave,          \* what it saves, of use meanwhile
    allWritten,      \* cleared && versionSaved && ..., so far
    saves,           \* saves and clears so far
    clearFailed,     \* history: the last clear of the flash failed
    reported         \* history: the last save or clear was reported done

sampling == <<run, durationOver, resultsReady, offered>>
store == <<flash, applied, saving, toSave, allWritten, saves, clearFailed,
           reported>>
calVars == <<run, durationOver, resultsReady, offered, flash, applied, saving,
             toSave, allWritten, saves, clearFailed, reported>>

\* The k-th of some values in ascending order.
Ranked(k, values) ==
    CHOOSE v \in {values[i] : i \in DOMAIN values} :
        /\ Cardinality({i \in DOMAIN values : values[i] < v}) < k
        /\ k <= Cardinality({i \in DOMAIN values : values[i] <= v})

\* median, doubled: the middle sample twice, or the sum of the middle two.
Median(values) ==
    LET middle == Len(values) \div 2
    IN  IF Len(values) % 2 = 0
        THEN Ranked(middle, values) + Ranked(middle + 1, values)
        ELSE 2 * Ranked(middle + 1, values)

\* load: all three keys, of this version and with a valid value, or the default.
Load == IF DOMAIN flash = Keys
        THEN [origin |-> flash["source"], pressure |-> flash["pressure"]]
        ELSE Default

-----------------------------------------------------------------------------
\* _pressureSamples, how many of the GPS altitudes beside them counted, and
\* whether their spread is within its limit.
NoRun == [samples |-> <<>>, gps |-> 0, steady |-> TRUE]

\* begin, on a device that was never calibrated.
CalInit ==
    /\ run = NoRun
    /\ durationOver = FALSE /\ resultsReady = FALSE /\ offered = {}
    /\ flash = <<>> /\ applied = Default
    /\ saving = <<>> /\ toSave = Default /\ allWritten = TRUE
    /\ saves = 0 /\ clearFailed = FALSE /\ reported = TRUE

DurationPasses ==
    /\ run.samples # <<>> /\ ~durationOver /\ durationOver' = TRUE
    /\ UNCHANGED <<run, resultsReady, offered, store>>

\* collectSample: a new reading, and a GPS fix that meets the requirements or
\* not, within the spread of the others or not.
Collected(pressure, gpsGood, near) ==
    IF Len(run.samples) = MaxSamples THEN run
    ELSE [samples |-> Append(run.samples, pressure),
          gps |-> run.gps + (IF gpsGood THEN 1 ELSE 0),
          steady |-> run.steady /\ (gpsGood => near)]

\* finishSampling: a candidate out of BarometerMath's range is not offered.
Offer(sampled, valid) ==
    {[origin |-> o, median |-> Median(sampled.samples)] :
        o \in {v \in valid :
                 v = "gps" => sampled.gps >= MinSamples /\ sampled.steady}}

Enough(sampled) == durationOver /\ Len(sampled.samples) >= MinSamples

\* One pass of update while it samples, with a new reading or without.
SamplingPass(sampled) ==
    /\ saving = <<>> /\ ~resultsReady
    /\ IF Enough(sampled)
       THEN /\ run' = NoRun /\ resultsReady' = TRUE
            /\ \E valid \in SUBSET Origins : offered' = Offer(sampled, valid)
       ELSE /\ run' = sampled
            /\ UNCHANGED <<resultsReady, offered>>
    /\ UNCHANGED <<durationOver, store>>

-----------------------------------------------------------------------------
\* handleSerialCommands, "k" and "g": saveCandidate, where save starts.
SaveCommand(c) ==
    /\ saving = <<>> /\ saves < MaxSaves
    /\ resultsReady /\ c \in offered
    /\ saving' = <<"clear", "version", "pressure", "source">>
    /\ toSave' = c
    /\ allWritten' = TRUE
    /\ reported' = FALSE
    /\ saves' = saves + 1
    /\ UNCHANGED <<sampling, flash, applied, clearFailed>>

Without(keys) == [k \in DOMAIN flash \ keys |-> flash[k]]

\* preferences.clear()
SaveOverwrites(ok, erased) ==                        \* mutant
    /\ saving # <<>> /\ Head(saving) = "clear"
    /\ erased = {}
    /\ clearFailed' = FALSE
    /\ allWritten' = TRUE
    /\ saving' = Tail(saving)
    /\ UNCHANGED <<sampling, flash, applied, toSave, saves, reported>>

SaveClears(ok, erased) ==
    /\ saving # <<>> /\ Head(saving) = "clear"
    /\ ok => erased = DOMAIN flash
    /\ flash' = Without(erased)
    /\ clearFailed' = ~ok
    /\ allWritten' = ok
    /\ saving' = Tail(saving)
    /\ UNCHANGED <<sampling, applied, toSave, saves, reported>>

\* A put: the key holds the new value, or what it held before.
Put(key, ok) ==
    LET value == CASE key = "version" -> 1
                   [] key = "pressure" -> toSave
                   [] key = "source" -> toSave.origin
    IN  flash' = IF ok THEN [k \in DOMAIN flash \cup {key} |->
                               IF k = key THEN value ELSE flash[k]]
                       ELSE flash

\* The rest of save, put by put, and of saveCandidate after the last.
LastPutCounts(ok) ==                                 \* mutant
    /\ saving # <<>> /\ Head(saving) # "clear"
    /\ Put(Head(saving), ok)
    /\ allWritten' = ok
    /\ saving' = Tail(saving)
    /\ IF saving' = <<>> /\ allWritten'
       THEN applied' = [origin |-> toSave.origin, pressure |-> toSave]
            /\ reported' = TRUE
       ELSE UNCHANGED <<applied, reported>>
    /\ UNCHANGED <<sampling, toSave, saves, clearFailed>>

SavePuts(ok) ==
    /\ saving # <<>> /\ Head(saving) # "clear"
    /\ Put(Head(saving), ok)
    /\ allWritten' = (allWritten /\ ok)
    /\ saving' = Tail(saving)
    /\ IF saving' = <<>> /\ allWritten'
       THEN applied' = [origin |-> toSave.origin, pressure |-> toSave]
            /\ reported' = TRUE
       ELSE UNCHANGED <<applied, reported>>
    /\ UNCHANGED <<sampling, toSave, saves, clearFailed>>

\* "r": clear, and the default if it succeeds.
ClearCommand(ok, erased) ==
    /\ saving = <<>> /\ saves < MaxSaves
    /\ ok => erased = DOMAIN flash
    /\ flash' = Without(erased)
    /\ clearFailed' = ~ok
    /\ reported' = ok
    /\ applied' = IF ok THEN Default ELSE applied
    /\ saves' = saves + 1
    /\ UNCHANGED <<sampling, saving, toSave, allWritten>>

\* The power goes, also in the middle of a save or of its clear, and the next
\* start loads what is there.
PowerFails(erased) ==
    /\ erased = {} \/ (saving # <<>> /\ Head(saving) = "clear")
    /\ flash' = Without(erased)
    /\ run' = NoRun
    /\ durationOver' = FALSE /\ resultsReady' = FALSE /\ offered' = {}
    /\ saving' = <<>> /\ toSave' = Default /\ allWritten' = TRUE
    /\ applied' = Load'
    /\ UNCHANGED <<saves, clearFailed, reported>>

CalNext ==
    \/ DurationPasses
    \/ SamplingPass(run)
    \/ \E p \in Pressures, gpsGood, near \in BOOLEAN :
          SamplingPass(Collected(p, gpsGood, near))
    \/ \E c \in Candidates : SaveCommand(c)
    \/ \E ok \in BOOLEAN, erased \in SUBSET DOMAIN flash :
          SaveClears(ok, erased)
    \/ \E ok \in BOOLEAN : SavePuts(ok)
    \/ \E ok \in BOOLEAN, erased \in SUBSET DOMAIN flash :
          ClearCommand(ok, erased)
    \/ \E erased \in SUBSET DOMAIN flash : PowerFails(erased)

CalSpec == CalInit /\ [][CalNext]_calVars

-----------------------------------------------------------------------------
\* Type invariant.
CalTypeOK ==
    /\ run.samples \in Seq(Pressures) /\ Len(run.samples) <= MaxSamples
    /\ run.gps \in 0..Len(run.samples) /\ run.steady \in BOOLEAN
    /\ {durationOver, resultsReady, allWritten, clearFailed,
        reported} \subseteq BOOLEAN
    /\ offered \subseteq Candidates
    /\ DOMAIN flash \subseteq Keys
    /\ toSave \in Candidates \cup {Default}
    /\ Len(saving) <= 4 /\ saves \in 0..MaxSaves

\* What a save or a clear was reported to have done is what the barometer uses
\* and what every later start gives back, until the next command.
SavedSurvives == (reported /\ saving = <<>>) => applied = Load

\* No start ever combines the pressure of one candidate with the origin of
\* another, wherever the power failed in a save and whichever of its calls
\* failed, unless the clear before it failed too.
NoMixedCalibration ==
    (Load # Default /\ ~clearFailed) => Load.origin = Load.pressure.origin
=============================================================================
