------------------------- MODULE AcousticRules_proofs -------------------------
(***************************************************************************)
(* What the classifier may say, for every window of sound: no bound on its *)
(* numbers, and none of the sounds the runs choose from.                   *)
(***************************************************************************)
EXTENDS AcousticRules, TLAPS

\* A result keeps its category; its confidence is capped, and no low one raised.
LEMMA ResultOf ==
    ASSUME NEW category, NEW confidence \in Int
    PROVE  /\ Result(category, confidence).category = category
           /\ Result(category, confidence).confidence \in 0..850
           /\ confidence < 680 => Result(category, confidence).confidence < 680
BY DEF Result, Greatest, Least

\* The shares of a window are numbers.
LEMMA SharesAreNumbers ==
    ASSUME NEW f \in Features
    PROVE  /\ Low(f) \in Int /\ Middle(f) \in Int
           /\ Presence(f) \in Int /\ High(f) \in Int
BY DEF Features, Bands, Low, Middle, Presence, High

\* The smaller and the larger of two numbers are numbers.
LEMMA LeastAndGreatest ==
    ASSUME NEW a \in Int, NEW b \in Int
    PROVE  /\ Least(a, b) \in Int /\ Least(a, b) <= a
           /\ Greatest(a, b) \in Int
BY DEF Least, Greatest

\* The confidences of Classify that depend on the window.
LEMMA Confidences ==
    ASSUME NEW f \in Features
    PROVE  /\ 500 + (Low(f) - 780) \in Int
           /\ 550 + (Low(f) - 780) \in Int
           /\ 660 + (2 * (Presence(f) - 720)) \div 5 \in Int
           /\ 480 + Least(100, (3 * (Middle(f) - 340)) \div 10) \in Int
           /\ 450 + Least(120, (3 * Presence(f)) \div 20) \in Int
           /\ 460 + Least(80, (7 * Greatest(0, f.spectralFlatness - 280))
                                \div 20)
                + Least(60, (3 * High(f)) \div 25) \in Int
           /\ 460 + Least(80, (7 * Greatest(0, f.spectralFlatness - 280))
                                \div 20)
                + Least(60, (3 * High(f)) \div 25) < 680
<1> DEFINE flat == (7 * Greatest(0, f.spectralFlatness - 280)) \div 20
           high == (3 * High(f)) \div 25
           middle == (3 * (Middle(f) - 340)) \div 10
           presence == (3 * Presence(f)) \div 20
<1>1. Low(f) \in Int /\ Middle(f) \in Int /\ Presence(f) \in Int
        /\ High(f) \in Int
  BY SharesAreNumbers
<1>2. f.spectralFlatness - 280 \in Int
  BY DEF Features
<1>3. 7 * Greatest(0, f.spectralFlatness - 280) \in Int
  <2>1. ASSUME NEW x \in Int
        PROVE  7 * Greatest(0, x) \in Int
    BY <2>1 DEF Greatest
  <2> QED
    BY <1>2, <2>1
<1>4. flat \in Int
  BY <1>3
<1>5. high \in Int /\ middle \in Int /\ presence \in Int
  <2>1. ASSUME NEW x \in Int, NEW d \in Int, d > 0
        PROVE  x \div d \in Int
    BY <2>1
  <2>2. 3 * High(f) \in Int /\ 3 * (Middle(f) - 340) \in Int
          /\ 3 * Presence(f) \in Int
    BY <1>1
  <2> QED
    BY <2>1, <2>2
<1>6. (2 * (Presence(f) - 720)) \div 5 \in Int
  BY <1>1
<1> HIDE DEF flat, high, middle, presence
<1>7. /\ Least(80, flat) \in Int /\ Least(80, flat) <= 80
      /\ Least(60, high) \in Int /\ Least(60, high) <= 60
      /\ Least(100, middle) \in Int /\ Least(120, presence) \in Int
  BY <1>4, <1>5, LeastAndGreatest
<1>8. /\ 460 + Least(80, flat) + Least(60, high) \in Int
      /\ 460 + Least(80, flat) + Least(60, high) < 680
      /\ 480 + Least(100, middle) \in Int
      /\ 450 + Least(120, presence) \in Int
  BY <1>7
<1> QED
  BY <1>1, <1>6, <1>8 DEF flat, high, middle, presence

\* Whatever the rule, what it says is one of the categories, and a confidence.
LEMMA ClassifyType ==
    ASSUME NEW f \in Features
    PROVE  /\ Classify(f).category \in Categories
           /\ Classify(f).confidence \in 0..850
<1> DEFINE Said(r) == r.category \in Categories /\ r.confidence \in 0..850
<1>1. ASSUME NEW category \in Categories, NEW confidence \in Int
      PROVE  Said(Result(category, confidence))
  BY <1>1, ResultOf
<1> HIDE DEF Said
<1>2. {"unknown", "quiet", "wind", "engine", "horn", "siren", "speech",
       "traffic", "music", "noise"} \subseteq Categories
  BY DEF Categories
<1>3. Said(Classify(f))
  BY <1>1, <1>2, Confidences DEF Classify
<1> QED
  BY <1>3 DEF Said

\* AcousticClassifier.cpp keeps the confidence of its provisional signatures
\* below what an alert takes.  Of the three categories an alert may be of, only
\* a horn by the strict rule is ever sure enough.
LEMMA OnlyStrictHornIsSure ==
    ASSUME NEW f \in Features,
           Classify(f).confidence >= AlertMinConfidence,
           Classify(f).category \in AlertCategories
    PROVE  Classify(f).category = "horn" /\ StrictHorn(f)
<1> DEFINE Sure(r) == r.confidence >= 680
                        /\ r.category \in {"traffic", "horn", "siren"}
<1>1. ASSUME NEW category, category \notin {"traffic", "horn", "siren"},
             NEW confidence \in Int
      PROVE  ~Sure(Result(category, confidence))
  BY <1>1, ResultOf
<1>2. ASSUME NEW category, NEW confidence \in Int, confidence < 680
      PROVE  ~Sure(Result(category, confidence))
  BY <1>2, ResultOf
<1>3. ASSUME NEW confidence \in Int
      PROVE  Result("horn", confidence).category = "horn"
  BY ResultOf
<1>4. Sure(Classify(f))
  BY DEF AlertMinConfidence, AlertCategories
<1> HIDE DEF Sure
<1>5. StrictHorn(f) /\ Classify(f) = Result("horn",
                         660 + (2 * (Presence(f) - 720)) \div 5)
  BY <1>1, <1>2, <1>4, Confidences DEF Classify
<1> QED
  BY <1>3, <1>5, Confidences

\* AcousticClassifier::classify promises that its provisional horns and the
\* siren stay below the alert threshold.  So does the traffic: any window that
\* AcousticAlertEvaluator::update counts was called a horn by the strict rule,
\* whatever its numbers.
THEOREM AlertIsStrictHorn ==
    ASSUME NEW f \in Features, NEW at \in Nat, Eligible(Published(f, at))
    PROVE  StrictHorn(f) /\ EventFor(Published(f, at).category) = "acoustic_horn"
<1>1. /\ Classify(f).confidence >= AlertMinConfidence
      /\ EventFor(Classify(f).category) # ""
  BY DEF Eligible, Published
<1>2. Classify(f).category \in AlertCategories
  BY <1>1 DEF EventFor, AlertCategories
<1>3. Classify(f).category = "horn" /\ StrictHorn(f)
  BY <1>1, <1>2, OnlyStrictHornIsSure
<1> QED
  BY <1>3 DEF Published, EventFor
=============================================================================
