---------------------------- MODULE AcousticRules ----------------------------
(***************************************************************************)
(* The pure part of the acoustic pipeline (src/src/acoustic): what one     *)
(* window of sound is called and how sure the device is                    *)
(* (AcousticClassifier), how frames are gathered into a window             *)
(* (AcousticFeatureAccumulator), which windows may raise an alert          *)
(* (AcousticAlertEvaluator) and which the messages accept                  *)
(* (AcousticMessageBuilder).                                               *)
(*                                                                         *)
(* Numbers are integers: ratios and confidences in thousandths, the crest  *)
(* factor in tenths, levels in dBFS and frequencies in Hz.                 *)
(***************************************************************************)
EXTENDS Integers

Bands == {"hz80To250", "hz250To800", "hz800To2000", "hz2000To4000",
          "hz4000To8000"}

Features ==
    [valid : BOOLEAN, signalResponsive : BOOLEAN,
     level : Int, clippingRatio : Int, crestFactor : Int,
     zeroCrossingRate : Int, spectralCentroid : Int, spectralFlatness : Int,
     bands : [Bands -> Int]]

Categories == {"traffic", "music", "speech", "engine", "horn", "siren", "wind",
               "quiet", "noise", "unknown"}

Readings ==
    [microphoneValid : BOOLEAN, analysisValid : BOOLEAN, level : Int,
     clippingRatio : Int, category : Categories, confidence : 0..850,
     updatedAtMs : Nat]

AlertMinConfidence == 680       \* ACOUSTIC_ALERT_MIN_CONFIDENCE
AlertMinLevel == -40            \* ACOUSTIC_ALERT_MIN_LEVEL_DBFS
ClippingThreshold == 1          \* ACOUSTIC_CLIPPING_RATIO_THRESHOLD

-----------------------------------------------------------------------------
Least(a, b) == IF a < b THEN a ELSE b
Greatest(a, b) == IF a > b THEN a ELSE b
Within(value, low, high) == low <= value /\ value <= high

\* result: confidence never leaves 0..0.85.
Result(category, confidence) ==
    [category |-> category,
     confidence |-> Greatest(0, Least(850, confidence))]

Low(f) == f.bands["hz80To250"] + f.bands["hz250To800"]
Middle(f) == f.bands["hz250To800"] + f.bands["hz800To2000"]
Presence(f) == f.bands["hz800To2000"] + f.bands["hz2000To4000"]
High(f) == f.bands["hz2000To4000"] + f.bands["hz4000To8000"]

LowRumble(f) == Low(f) > 780 /\ f.spectralCentroid < 650

StrictHorn(f) ==
    /\ f.level > -84 /\ Presence(f) > 720
    /\ f.spectralFlatness < 120 /\ f.crestFactor < 40

\* The two provisional horns, heard from behind and from the own car.
ExternalHorn(f) ==
    /\ f.level > -88 /\ Presence(f) > 500 /\ f.bands["hz2000To4000"] > 400
    /\ Within(f.spectralFlatness, 150, 320)
    /\ Within(f.zeroCrossingRate, 300, 450)
    /\ Within(f.spectralCentroid, 2500, 3800)

OwnHorn(f) ==
    /\ f.level > -78 /\ Low(f) > 550 /\ f.bands["hz250To800"] > 350
    /\ Within(f.spectralFlatness, 150, 320)
    /\ Within(f.zeroCrossingRate, 150, 300)
    /\ Within(f.spectralCentroid, 1000, 2500)

Siren(f) ==
    /\ f.level > -36 /\ Middle(f) > 700 /\ f.zeroCrossingRate > 80
    /\ 120 <= f.spectralFlatness /\ f.spectralFlatness < 300

Speech(f) ==
    /\ Middle(f) >= 340 /\ Presence(f) >= 400
    /\ 80 <= f.spectralFlatness /\ f.spectralFlatness < 360
    /\ 25 <= f.zeroCrossingRate /\ f.zeroCrossingRate < 320
    /\ Within(f.spectralCentroid, 300, 3200)

Traffic(f) ==
    /\ f.level > -45 /\ Within(f.spectralCentroid, 550, 7000)
    /\ High(f) >= 120
    /\ \/ f.spectralFlatness >= 280
       \/ f.zeroCrossingRate >= 300
       \/ High(f) >= 320

Music(f) ==
    /\ Within(f.spectralFlatness, 80, 380) /\ Presence(f) > 300
    /\ High(f) > 80 /\ f.crestFactor < 60

\* AcousticClassifier::classify, a cascade: the first rule that fits decides.
\* Numbers that are not finite cannot be told apart from a window that is not
\* valid here.
Classify(f) ==
    IF ~f.valid \/ ~f.signalResponsive \/ f.clippingRatio >= 10
    THEN Result("unknown", 0)
    ELSE IF f.level <= -88 THEN Result("quiet", 800)
    ELSE IF LowRumble(f) /\ (f.spectralFlatness > 350
                               \/ f.zeroCrossingRate > 120)
    THEN Result("wind", 500 + (Low(f) - 780))
    ELSE IF LowRumble(f) /\ f.crestFactor < 45 /\ f.zeroCrossingRate < 120
    THEN Result("engine", 550 + (Low(f) - 780))
    ELSE IF StrictHorn(f)
    THEN Result("horn", 660 + (2 * (Presence(f) - 720)) \div 5)
    ELSE IF ExternalHorn(f) THEN Result("horn", 620)
    ELSE IF OwnHorn(f) THEN Result("horn", 640)
    ELSE IF Siren(f) THEN Result("siren", 550)
    ELSE IF Speech(f)
    THEN Result("speech",
                480 + Least(100, (3 * (Middle(f) - 340)) \div 10))
    ELSE IF Traffic(f)
    THEN Result("traffic",
                460 + Least(80, (7 * Greatest(0, f.spectralFlatness - 280))
                                  \div 20)
                    + Least(60, (3 * High(f)) \div 25))
    ELSE IF Music(f)
    THEN Result("music", 450 + Least(120, (3 * Presence(f)) \div 20))
    ELSE IF Middle(f) >= 280 /\ f.spectralCentroid <= 3600
    THEN Result("speech", 360)
    ELSE Result("noise", 400)

-----------------------------------------------------------------------------
\* AcousticFeatureAccumulator: the frames of the window being gathered.
EmptyWindow == [frames |-> 0, valid |-> 0, responsive |-> 0]

AddFrame(window, valid, responsive) ==
    [frames |-> window.frames + 1,
     valid |-> IF valid THEN window.valid + 1 ELSE window.valid,
     responsive |-> IF valid /\ responsive
                    THEN window.responsive + 1 ELSE window.responsive]

\* The flags of the aggregate of a full window.
AggregateValid(window, target) ==
    window.valid >= (3 * target) \div 4 /\ window.valid > 0
AggregateResponsive(window, target) ==
    window.responsive >= (target + 1) \div 2

-----------------------------------------------------------------------------
\* eventForCategory
AlertCategories == {"traffic", "horn", "siren"}
EventFor(category) ==
    CASE category = "traffic" -> "acoustic_traffic"
      [] category = "horn" -> "acoustic_horn"
      [] category = "siren" -> "acoustic_siren"
      [] OTHER -> ""

\* The windows AcousticAlertEvaluator::update counts towards an alert.
Eligible(data) ==
    /\ data.microphoneValid /\ data.analysisValid
    /\ data.clippingRatio < ClippingThreshold
    /\ data.level >= AlertMinLevel
    /\ data.confidence >= AlertMinConfidence
    /\ EventFor(data.category) # ""

\* validAnalysis of the message builder: the data an event may be built from.
ValidAnalysis(data) ==
    /\ data.microphoneValid /\ data.analysisValid
    /\ Within(data.level, -160, 0)
    /\ Within(data.clippingRatio, 0, 1000)
    /\ Within(data.confidence, 0, 1000)

\* AcousticData: a fresh one, and what update makes of one that is too old.
NoReading(at) ==
    [microphoneValid |-> FALSE, analysisValid |-> FALSE, level |-> -160,
     clippingRatio |-> 0, category |-> "unknown", confidence |-> 0,
     updatedAtMs |-> at]

Voided(data) ==
    [data EXCEPT !.microphoneValid = FALSE, !.analysisValid = FALSE,
                 !.category = "unknown", !.confidence = 0]

\* INMP441Microphone::publishAggregate: what the audio task stores.
Published(f, at) ==
    [microphoneValid |-> f.valid /\ f.signalResponsive,
     analysisValid |-> f.valid /\ f.signalResponsive,
     level |-> f.level, clippingRatio |-> f.clippingRatio,
     category |-> Classify(f).category,
     confidence |-> Classify(f).confidence,
     updatedAtMs |-> at]
=============================================================================
