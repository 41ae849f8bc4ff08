-------------------------- MODULE DeviceModes_proofs --------------------------
(***************************************************************************)
(* Proofs about the parts of DeviceModes, in whichever mode and with       *)
(* whichever part followed.  Each part has a lemma that a step of the      *)
(* device is a step of its own or leaves its variables alone, an inductive *)
(* invariant, and the theorems that follow from it.                        *)
(***************************************************************************)
EXTENDS DeviceModes, CommandInbox_proofs, AcousticRules_proofs,
        FiniteSetTheorems, WellFoundedInduction, TLAPS

-----------------------------------------------------------------------------
(* Times that go round, as millis() does. *)

\* A number that has gone round at most once.
LEMMA Round ==
    ASSUME NEW C \in Nat, C > 0, NEW n \in Nat, n < 2 * C
    PROVE  (n % C) = IF n < C THEN n ELSE n - C
OBVIOUS

\* The unsigned difference of two times, without the remainder.
LEMMA Difference ==
    ASSUME NEW C \in Nat, C > 0, NEW a \in 0..(C - 1), NEW b \in 0..(C - 1)
    PROVE  ((b - a) % C) = IF a <= b THEN b - a ELSE b + C - a
OBVIOUS

\* An unsigned difference is a number below the span.
LEMMA DifferenceIsNat ==
    ASSUME NEW C \in Nat, C > 0, NEW a \in 0..(C - 1), NEW b \in 0..(C - 1)
    PROVE  ((b - a) % C) \in Nat
OBVIOUS

\* What is below half a span is below the span.
LEMMA HalfTurn ==
    ASSUME NEW C \in Nat, NEW n \in Nat, n < C \div 2
    PROVE  C > 0 /\ n < C
OBVIOUS

\* One tick more, and the sum of two spans that follow each other, while
\* neither goes round.
LEMMA OneLater ==
    ASSUME NEW C \in Nat, C > 0, NEW past \in 0..(C - 1), NEW at \in 0..(C - 1),
           NEW next, next = ((at + 1) % C), ((at - past) % C) + 1 < C
    PROVE  next \in 0..(C - 1) /\ ((next - past) % C) = ((at - past) % C) + 1
<1>1. next = IF at + 1 < C THEN at + 1 ELSE at + 1 - C
  BY Round
<1>2. next \in 0..(C - 1)
  BY <1>1
<1>3. /\ ((at - past) % C) = IF past <= at THEN at - past ELSE at + C - past
      /\ ((next - past) % C) = IF past <= next THEN next - past
                               ELSE next + C - past
  BY <1>2, Difference
<1> QED
  BY <1>1, <1>2, <1>3

\* Two differences that do not come round together add up.
LEMMA SpansAdd ==
    ASSUME NEW C \in Nat, C > 0, NEW a \in 0..(C - 1), NEW b \in 0..(C - 1),
           NEW c \in 0..(C - 1), ((b - a) % C) + ((c - b) % C) < C
    PROVE  ((c - a) % C) = ((b - a) % C) + ((c - b) % C)
<1>1. /\ ((b - a) % C) = IF a <= b THEN b - a ELSE b + C - a
      /\ ((c - b) % C) = IF b <= c THEN c - b ELSE c + C - b
      /\ ((c - a) % C) = IF a <= c THEN c - a ELSE c + C - a
  BY Difference
<1> QED
  BY <1>1

\* A time differs from itself by nothing.
LEMMA NoSpan ==
    ASSUME NEW C \in Nat, C > 0, NEW a \in 0..(C - 1)
    PROVE  ((a - a) % C) = 0
BY Difference

\* A time that lies behind moves away by what elapses, no more; one that lies
\* ahead comes nearer, or is passed within what elapses.
LEMMA Elapses ==
    ASSUME NEW C \in Nat, C > 0, NEW past \in 0..(C - 1), NEW at \in 0..(C - 1),
           NEW a \in 0..(C - 1), NEW d \in 0..(C - 1),
           NEW elapsed \in Nat, ((at - past) % C) <= elapsed,
           NEW B \in Nat
    PROVE  /\ ((past - a) % C) < B => ((at - a) % C) < B + elapsed
           /\ (0 < ((d - past) % C) /\ ((d - past) % C) <= B)
                => \/ ((at - d) % C) <= elapsed
                   \/ 0 < ((d - at) % C) /\ ((d - at) % C) <= B
<1>1. ((at - past) % C) = IF past <= at THEN at - past ELSE at + C - past
  BY Difference
<1>2. /\ ((past - a) % C) = IF a <= past THEN past - a ELSE past + C - a
      /\ ((at - a) % C) = IF a <= at THEN at - a ELSE at + C - a
  BY Difference
<1>3. /\ ((d - past) % C) = IF past <= d THEN d - past ELSE d + C - past
      /\ ((d - at) % C) = IF at <= d THEN d - at ELSE d + C - at
      /\ ((at - d) % C) = IF d <= at THEN at - d ELSE at + C - d
  BY Difference
<1>4. ((past - a) % C) < B => ((at - a) % C) < B + elapsed
  BY <1>1, <1>2
<1>5. (0 < ((d - past) % C) /\ ((d - past) % C) <= B)
        => \/ ((at - d) % C) <= elapsed
           \/ 0 < ((d - at) % C) /\ ((d - at) % C) <= B
  BY <1>1, <1>3
<1> QED
  BY <1>4, <1>5

-----------------------------------------------------------------------------
(* Microphone. *)

\* A step of the device is a step of the microphone or leaves it alone.
LEMMA MicStep ==
    ASSUME [ModeNext]_deviceVars
    PROVE  [Mic!MicNext]_micVars
<1>1. CASE UNCHANGED deviceVars
  BY <1>1 DEF deviceVars, micVars
<1>2. CASE ModeNext
  <2>1. CASE part = "microphone"
    BY <1>2, <2>1 DEF ModeNext, PartNext, SensorKinds, TestOf
  <2>2. CASE part # "microphone"
    BY <1>2, <2>2 DEF ModeNext, RestBut
  <2> QED
    BY <2>1, <2>2
<1> QED
  BY <1>1, <1>2

InPass == Mic!Since(loopMs, micNow)
Stored == Mic!Since(data.updatedAtMs, micNow)

MicTimes ==
    /\ micNow \in 0..(MicWrap - 1) /\ loopMs \in 0..(MicWrap - 1)
    /\ data.updatedAtMs \in 0..(MicWrap - 1)
    /\ {"microphoneValid", "updatedAtMs"} \subseteq DOMAIN data
    /\ age \in Nat
    /\ InPass <= MaxStall

\* Data whose flag is set is what the task last stored, and the pass that
\* would find it stale has come in time: the unsigned difference still tells
\* how old it is.  (Data stored at millis() = 0 is never found stale, nor is it
\* reported.)
Recent(slack) == age <= Stored /\ Stored <= AcousticStale + slack + InPass

MicInv ==
    /\ MicTimes
    /\ data.microphoneValid =>
          /\ micStarted = TRUE /\ stored.microphoneValid
          /\ data.updatedAtMs # 0 =>
                Recent(IF loopAt = "mic" THEN MaxStall ELSE 0)

\* What the constants of the microphone allow.
LEMMA MicConstants ==
    /\ MicWrap \in Nat /\ MicWrap > 0 /\ MaxStall \in Nat /\ MaxStall < MicWrap
    /\ AcousticStale \in Nat /\ AcousticStale + 2 * MaxStall < MicWrap
BY MicrophoneAssumption

\* The times the invariant speaks of are numbers.
LEMMA MicNumbers ==
    ASSUME MicTimes
    PROVE  InPass \in Nat /\ Stored \in Nat /\ age \in Nat
BY MicConstants, DifferenceIsNat DEF MicTimes, InPass, Stored, Mic!Since

\* Voiding clears the flag and keeps the time.
LEMMA VoidedData ==
    ASSUME MicTimes
    PROVE  /\ Mic!Voided(data).microphoneValid = FALSE
           /\ Mic!Voided(data).updatedAtMs = data.updatedAtMs
           /\ DOMAIN Mic!Voided(data) = DOMAIN data
BY DEF MicTimes, Mic!Voided

\* Time passes.
LEMMA MicTickStep ==
    ASSUME MicInv, Mic!MicTick
    PROVE  MicInv'
<1>1. /\ InPass < MaxStall /\ micNow' = ((micNow + 1) % MicWrap)
      /\ age' = Mic!Least(age + 1, Mic!OldAge)
      /\ UNCHANGED <<micStarted, data, loopAt, loopMs, stored>>
  BY DEF Mic!MicTick, Mic!driver, Mic!loop, InPass
<1>2. MicTimes
  BY DEF MicInv
<1>3. micNow' \in 0..(MicWrap - 1) /\ InPass' = InPass + 1
  <2>1. ((micNow - loopMs) % MicWrap) + 1 < MicWrap
    BY <1>1, <1>2, MicNumbers, MicConstants DEF InPass, Mic!Since
  <2> QED
    BY <1>1, <1>2, <2>1, MicConstants, OneLater DEF MicTimes, InPass, Mic!Since
<1>4. age' \in Nat /\ age' <= age + 1
  BY <1>1, <1>2, MicConstants DEF MicTimes, Mic!Least, Mic!OldAge
<1>5. InPass' <= MaxStall
  BY <1>1, <1>2, <1>3, MicNumbers, MicConstants
<1>6. MicTimes'
  BY <1>1, <1>2, <1>3, <1>4, <1>5 DEF MicTimes
<1>7. ASSUME NEW slack \in 0..MaxStall, Recent(slack)
      PROVE  Recent(slack)'
  <2>1. ((micNow - data.updatedAtMs) % MicWrap) + 1 < MicWrap
    BY <1>1, <1>2, <1>7, MicNumbers, MicConstants
       DEF Recent, Stored, Mic!Since
  <2>2. Stored' = Stored + 1
    BY <1>1, <1>2, <2>1, MicConstants, OneLater DEF MicTimes, Stored, Mic!Since
  <2>3. age' <= Stored' /\ Stored' <= AcousticStale + slack + InPass'
    BY <1>2, <1>3, <1>4, <1>7, <2>2, MicNumbers, MicConstants DEF Recent
  <2> QED
    BY <2>3 DEF Recent
<1>8. 0 \in 0..MaxStall /\ MaxStall \in 0..MaxStall
  BY MicConstants
<1> QED
  BY <1>1, <1>6, <1>7, <1>8 DEF MicInv

\* What the task stores is stored now.
LEMMA MicStores ==
    ASSUME MicInv, NEW record, Mic!Store(record), record.updatedAtMs = micNow,
           {"microphoneValid", "updatedAtMs"} \subseteq DOMAIN record,
           micStarted = TRUE, UNCHANGED <<micNow, micStarted, loopAt, loopMs>>
    PROVE  MicInv'
<1>1. MicTimes
  BY DEF MicInv
<1>2. data' = record /\ stored' = record /\ age' = 0
  BY DEF Mic!Store
<1>3. Stored' = 0
  BY <1>1, <1>2, MicConstants, NoSpan DEF MicTimes, Stored, Mic!Since
<1>4. InPass' = InPass /\ InPass \in Nat
  BY <1>1, MicNumbers DEF InPass, Mic!Since
<1>5. MicTimes'
  BY <1>1, <1>2, <1>4 DEF MicTimes
<1>6. ASSUME NEW slack \in 0..MaxStall PROVE Recent(slack)'
  <2>1. age' <= Stored' /\ Stored' <= AcousticStale + slack + InPass'
    BY <1>2, <1>3, <1>4, MicConstants
  <2> QED
    BY <2>1 DEF Recent
<1>7. 0 \in 0..MaxStall /\ MaxStall \in 0..MaxStall
  BY MicConstants
<1> QED
  BY <1>2, <1>5, <1>6, <1>7 DEF MicInv

\* The audio task reads a frame, well or badly.
LEMMA MicTaskStep ==
    ASSUME MicInv,
           \/ Mic!ReadFails \/ Mic!PartialRead \/ Mic!FrameRejected
           \/ \E responsive \in BOOLEAN, sound \in Sounds :
                 Mic!FrameAdded(responsive, sound)
    PROVE  MicInv'
<1>1. ASSUME UNCHANGED <<micNow, micStarted, loopAt, loopMs, data, stored, age>>
      PROVE  MicInv'
  BY <1>1 DEF MicInv, MicTimes, InPass, Stored, Recent, Mic!Since
<1>2. ASSUME micStarted, Mic!Store(Mic!NoReading(micNow)),
             UNCHANGED <<micNow, micStarted, loopAt, loopMs>>
      PROVE  MicInv'
  <2>1. /\ Mic!NoReading(micNow).updatedAtMs = micNow
        /\ {"microphoneValid", "updatedAtMs"}
              \subseteq DOMAIN Mic!NoReading(micNow)
        /\ ~Mic!NoReading(micNow).microphoneValid
    BY DEF Mic!NoReading
  <2> QED
    BY <1>2, <2>1, MicStores
<1>3. CASE Mic!ReadFails
  BY <1>1, <1>2, <1>3 DEF Mic!ReadFails, Mic!driver, Mic!loop
<1>4. CASE Mic!PartialRead
  BY <1>1, <1>4 DEF Mic!PartialRead, Mic!driver, Mic!loop
<1>5. CASE Mic!FrameRejected
  BY <1>2, <1>5 DEF Mic!FrameRejected, Mic!driver, Mic!loop
<1>6. ASSUME NEW responsive \in BOOLEAN, NEW sound \in Sounds,
             Mic!FrameAdded(responsive, sound)
      PROVE  MicInv'
  <2>1. /\ micStarted /\ UNCHANGED <<micNow, micStarted, loopAt, loopMs>>
        /\ \/ UNCHANGED <<data, stored, age>>
           \/ \E aggregate : Mic!Store(Mic!Published(aggregate, micNow))
    BY <1>6 DEF Mic!FrameAdded, Mic!driver, Mic!loop
  <2>2. ASSUME NEW aggregate
        PROVE  /\ Mic!Published(aggregate, micNow).updatedAtMs = micNow
               /\ {"microphoneValid", "updatedAtMs"}
                     \subseteq DOMAIN Mic!Published(aggregate, micNow)
    BY DEF Mic!Published
  <2> QED
    BY <1>1, <2>1, <2>2, MicStores
<1> QED
  BY <1>3, <1>4, <1>5, <1>6

\* The loop reads the clock, updates and reports.
LEMMA MicLoopStep ==
    ASSUME MicInv,
           \/ Mic!MicPassStarts \/ Mic!MicUpdate \/ Mic!MicSnapshot
           \/ \E begun \in BOOLEAN : Mic!MicRetries(begun)
    PROVE  MicInv'
<1>1. MicTimes /\ InPass <= MaxStall
  BY DEF MicInv, MicTimes
<1>2. CASE Mic!MicPassStarts
  <2>1. /\ loopAt = "start" /\ loopAt' = "mic" /\ loopMs' = micNow
        /\ UNCHANGED <<micNow, micStarted, data, stored, age>>
    BY <1>2 DEF Mic!MicPassStarts, Mic!driver
  <2>2. InPass' = 0 /\ Stored' = Stored
    BY <1>1, <2>1, MicConstants, NoSpan DEF MicTimes, InPass, Stored, Mic!Since
  <2>3. InPass' <= MaxStall
    BY <2>2, MicConstants
  <2>4. MicTimes'
    BY <1>1, <2>1, <2>3 DEF MicTimes
  <2>5. Recent(0) => Recent(MaxStall)'
    <3>1. ASSUME Recent(0)
          PROVE  age' <= Stored'
                   /\ Stored' <= AcousticStale + MaxStall + InPass'
      BY <1>1, <2>1, <2>2, <3>1, MicNumbers, MicConstants DEF Recent
    <3> QED
      BY <3>1 DEF Recent
  <2> QED
    BY <2>1, <2>4, <2>5 DEF MicInv
<1>3. CASE Mic!MicUpdate
  <2>1. /\ loopAt = "mic" /\ loopAt' = "report"
        /\ data' = IF Mic!IsStale(data, loopMs) THEN Mic!Voided(data) ELSE data
        /\ UNCHANGED <<micNow, micStarted, loopMs, stored, age>>
    BY <1>3 DEF Mic!MicUpdate, Mic!driver
  <2>2. data'.updatedAtMs = data.updatedAtMs /\ DOMAIN data' = DOMAIN data
    BY <1>1, <2>1, VoidedData
  <2>3. InPass' = InPass /\ Stored' = Stored
    BY <2>1, <2>2 DEF InPass, Stored, Mic!Since
  <2>4. MicTimes'
    BY <1>1, <2>1, <2>2, <2>3 DEF MicTimes
  <2>5. CASE Mic!IsStale(data, loopMs)
    BY <1>1, <2>1, <2>4, <2>5, VoidedData DEF MicInv
  <2>6. CASE ~Mic!IsStale(data, loopMs)
    <3> SUFFICES ASSUME data.microphoneValid, data.updatedAtMs # 0
                 PROVE  Recent(0)'
      BY <2>1, <2>2, <2>4, <2>6 DEF MicInv
    <3>1. ((loopMs - data.updatedAtMs) % MicWrap) <= AcousticStale
      <4>1. ((loopMs - data.updatedAtMs) % MicWrap) \in Nat
        BY <1>1, MicConstants, DifferenceIsNat DEF MicTimes
      <4> QED
        BY <2>6, <4>1, MicConstants DEF Mic!IsStale, Mic!Since
    <3>2. ((loopMs - data.updatedAtMs) % MicWrap)
            + ((micNow - loopMs) % MicWrap) < MicWrap
      <4>1. ((loopMs - data.updatedAtMs) % MicWrap) \in Nat
        BY <1>1, MicConstants, DifferenceIsNat DEF MicTimes
      <4>2. InPass \in Nat /\ ((micNow - loopMs) % MicWrap) = InPass
        BY <1>1, MicNumbers DEF InPass, Mic!Since
      <4> QED
        BY <1>1, <3>1, <4>1, <4>2, MicConstants
    <3>3. Stored = ((loopMs - data.updatedAtMs) % MicWrap) + InPass
      BY <1>1, <3>2, MicConstants, SpansAdd
         DEF MicTimes, Stored, InPass, Mic!Since
    <3>4. age <= Stored
      BY <2>1 DEF MicInv, Recent
    <3>5. Stored <= AcousticStale + 0 + InPass
      <4>1. ((loopMs - data.updatedAtMs) % MicWrap) \in Nat
        BY <1>1, MicConstants, DifferenceIsNat DEF MicTimes
      <4> QED
        BY <1>1, <3>1, <3>3, <4>1, MicNumbers, MicConstants
    <3> QED
      BY <2>1, <2>3, <3>4, <3>5 DEF Recent
  <2> QED
    BY <2>5, <2>6
<1>4. ASSUME UNCHANGED <<micNow, data, loopMs, stored, age>>,
             loopAt # "mic", loopAt' # "mic", micStarted' = micStarted
      PROVE  MicInv'
  BY <1>4 DEF MicInv, MicTimes, InPass, Stored, Recent, Mic!Since
<1>5. CASE Mic!MicSnapshot
  BY <1>4, <1>5 DEF Mic!MicSnapshot, Mic!driver
<1>6. ASSUME NEW begun \in BOOLEAN, Mic!MicRetries(begun)
      PROVE  MicInv'
  <2>1. ~micStarted /\ UNCHANGED <<micNow, data, loopMs, stored, age>>
    BY <1>6 DEF Mic!MicRetries
  <2>2. ~data.microphoneValid
    BY <2>1 DEF MicInv
  <2>3. MicTimes'
    BY <1>1, <2>1 DEF MicTimes, InPass, Mic!Since
  <2> QED
    BY <2>1, <2>2, <2>3 DEF MicInv
<1> QED
  BY <1>2, <1>3, <1>5, <1>6

\* Every step keeps the invariant of the microphone.
LEMMA MicInvStep ==
    ASSUME MicInv, [Mic!MicNext]_micVars
    PROVE  MicInv'
<1>1. CASE UNCHANGED micVars
  BY <1>1 DEF micVars, MicInv, MicTimes, InPass, Stored, Recent, Mic!Since
<1> QED
  BY <1>1, MicTickStep, MicTaskStep, MicLoopStep DEF Mic!MicNext

\* It holds at the start.
LEMMA MicInvInit ==
    ASSUME ModeInit
    PROVE  MicInv
<1>1. Mic!MicInit
  BY DEF ModeInit
<1>2. /\ micNow = 0 /\ loopMs = 0 /\ data = Mic!NoReading(0)
      /\ age = AcousticStale + MaxStall + 1
  BY <1>1 DEF Mic!MicInit, Mic!OldAge
<1>3. 0 \in 0..(MicWrap - 1)
  BY MicConstants
<1>4. InPass = 0
  BY <1>2, <1>3, MicConstants, NoSpan DEF InPass, Mic!Since
<1>5. /\ data.updatedAtMs = 0 /\ ~data.microphoneValid
      /\ {"microphoneValid", "updatedAtMs"} \subseteq DOMAIN data
  BY <1>2 DEF Mic!NoReading
<1>6. age \in Nat /\ InPass <= MaxStall
  BY <1>2, <1>4, MicConstants
<1> QED
  BY <1>2, <1>3, <1>5, <1>6 DEF MicInv, MicTimes

\* Wherever the audio task runs between the steps of the loop: a microphone is
\* called valid only over the window last stored, if that one was valid and
\* was not stale when the pass began.
THEOREM MicIsHonest == ModeSpec => MicHonest
<1>1. MicInv /\ [ModeNext]_deviceVars => MicInv'
  BY MicStep, MicInvStep
<1>2. MicInv /\ [ModeNext]_deviceVars
        => [(loopAt = "report" /\ loopAt' = "start" /\ micReported') =>
              /\ stored.microphoneValid
              /\ age <= AcousticStale + Mic!Since(loopMs, micNow)]_(Mic!micVars)
  <2> SUFFICES ASSUME MicInv, Mic!MicNext, loopAt = "report",
                      loopAt' = "start", micReported'
               PROVE  /\ stored.microphoneValid
                      /\ age <= AcousticStale + Mic!Since(loopMs, micNow)
    BY MicStep DEF micVars, Mic!micVars
  <2>1. Mic!MicSnapshot
    BY DEF Mic!MicNext, Mic!MicTick, Mic!ReadFails, Mic!PartialRead,
           Mic!FrameRejected, Mic!FrameAdded, Mic!MicPassStarts,
           Mic!MicRetries, Mic!MicUpdate, Mic!loop
  <2>2. data.microphoneValid /\ data.updatedAtMs # 0
    BY <2>1 DEF Mic!MicSnapshot
  <2>3. stored.microphoneValid /\ Recent(0)
    BY <2>2 DEF MicInv
  <2>4. MicTimes
    BY DEF MicInv
  <2>5. age <= AcousticStale + InPass
    BY <2>3, <2>4, MicNumbers, MicConstants DEF Recent
  <2> QED
    BY <2>3, <2>5 DEF InPass
<1> QED
  BY <1>1, <1>2, MicInvInit, PTL DEF ModeSpec, MicHonest, Mic!MicHonest

-----------------------------------------------------------------------------
(* AcousticAlerts. *)

\* A step of the device is a step of the evaluator or leaves it alone.
LEMMA AlertStep ==
    ASSUME [ModeNext]_deviceVars
    PROVE  [Alerts!AlertNext]_alertVars
<1>1. CASE UNCHANGED deviceVars
  BY <1>1 DEF deviceVars, alertVars
<1>2. CASE ModeNext
  <2>1. CASE part = "alerts"
    BY <1>2, <2>1 DEF ModeNext, PartNext, SensorKinds, TestOf
  <2>2. CASE part # "alerts"
    BY <1>2, <2>2 DEF ModeNext, RestBut
  <2> QED
    BY <2>1, <2>2
<1> QED
  BY <1>1, <1>2

\* A history that counts a span up to a limit has counted it exactly, or has
\* reached the limit: from then on the unsigned difference may come round.
Counts(ticks, limit, then, at) ==
    /\ ticks \in Nat
    /\ ticks < limit => ticks = ((at - then) % AlertWrap)

\* A count that keeps up with the clock keeps up one tick later.
LEMMA CountsOn ==
    ASSUME NEW ticks, NEW limit \in Nat, limit <= AlertWrap,
           NEW then \in 0..(AlertWrap - 1), NEW at \in 0..(AlertWrap - 1),
           NEW next, next = ((at + 1) % AlertWrap),
           Counts(ticks, limit, then, at)
    PROVE  Counts(Alerts!Least(ticks + 1, limit), limit, then, next)
<1>1. AlertWrap \in Nat /\ AlertWrap > 0
  BY AlertAssumption
<1>2. ticks \in Nat
  BY DEF Counts
<1>3. Alerts!Least(ticks + 1, limit) = IF ticks + 1 < limit THEN ticks + 1 ELSE limit
  BY DEF Alerts!Least
<1>4. CASE ticks + 1 < limit
  <2>1. ticks = ((at - then) % AlertWrap)
    BY <1>2, <1>4 DEF Counts
  <2>2. ((at - then) % AlertWrap) + 1 < AlertWrap
    BY <1>1, <1>2, <1>4, <2>1
  <2>3. ((next - then) % AlertWrap) = ((at - then) % AlertWrap) + 1
    BY <1>1, <2>2, OneLater
  <2> QED
    BY <1>2, <1>3, <1>4, <2>1, <2>3 DEF Counts
<1>5. CASE ~(ticks + 1 < limit)
  <2>1. ~(limit < limit)
    OBVIOUS
  <2> QED
    BY <1>3, <1>5, <2>1 DEF Counts
<1> QED
  BY <1>4, <1>5

\* The candidate is the run the history hears, and both started together; the
\* cooldown began with the last alert.
AlertTimes ==
    /\ alertNow \in 0..(AlertWrap - 1) /\ lastEventMs \in 0..(AlertWrap - 1)
    /\ candidate \in [active : BOOLEAN, type : Alerts!EventTypes,
                      startedMs : 0..(AlertWrap - 1)]
    /\ heard \in [type : Alerts!EventTypes, ticks : Nat]
    /\ quiet \in Nat

RunHeard ==
    /\ candidate.active = TRUE =>
          /\ heard.type = candidate.type /\ heard.type # ""
          /\ Counts(heard.ticks, AlertDuration, candidate.startedMs, alertNow)
    /\ candidate.active = FALSE => heard.type = ""

CooldownHeard ==
    lastEventMs # 0 => Counts(quiet, AlertCooldown, lastEventMs, alertNow)

AlertInv == AlertTimes /\ RunHeard /\ CooldownHeard

\* What the constants of the evaluator allow.
LEMMA AlertConstants ==
    /\ AlertWrap \in Nat /\ AlertWrap > 0
    /\ AlertDuration \in Nat /\ AlertDuration > 0 /\ AlertCooldown \in Nat
    /\ AlertDuration <= AlertWrap /\ AlertCooldown <= AlertWrap
BY AlertAssumption

\* The counts stay numbers.
LEMMA AlertNumbers ==
    ASSUME NEW at \in 0..(AlertWrap - 1), NEW a \in Nat, NEW b \in Nat
    PROVE  /\ ((at + 1) % AlertWrap) \in 0..(AlertWrap - 1)
           /\ Alerts!Least(a + 1, b) \in Nat
BY AlertConstants DEF Alerts!Least

\* Time passes, for the evaluator and for what was heard.
LEMMA AlertTickStep ==
    ASSUME AlertInv, Alerts!AlertTick
    PROVE  AlertInv'
<1>1. /\ alertNow' = ((alertNow + 1) % AlertWrap)
      /\ heard' = IF heard.type = "" THEN heard
                  ELSE [heard EXCEPT !.ticks =
                          Alerts!Least(heard.ticks + 1, AlertDuration)]
      /\ quiet' = Alerts!Least(quiet + 1, AlertCooldown)
      /\ lastEventMs' = lastEventMs /\ candidate' = candidate
  BY DEF Alerts!AlertTick, Alerts!evaluator
<1>2. /\ alertNow \in 0..(AlertWrap - 1) /\ lastEventMs \in 0..(AlertWrap - 1)
      /\ candidate \in [active : BOOLEAN, type : Alerts!EventTypes,
                        startedMs : 0..(AlertWrap - 1)]
      /\ candidate.startedMs \in 0..(AlertWrap - 1)
      /\ heard \in [type : Alerts!EventTypes, ticks : Nat]
      /\ quiet \in Nat
  BY DEF AlertInv, AlertTimes
<1>3. alertNow' \in 0..(AlertWrap - 1)
  BY <1>1, <1>2, AlertNumbers
<1>4. quiet' \in Nat
  BY <1>1, <1>2, AlertConstants, AlertNumbers
<1>5. Alerts!Least(heard.ticks + 1, AlertDuration) \in Nat
  BY <1>2, AlertConstants, AlertNumbers
<1>6. /\ heard' \in [type : Alerts!EventTypes, ticks : Nat]
      /\ heard'.type = heard.type
      /\ heard.type # "" =>
            heard'.ticks = Alerts!Least(heard.ticks + 1, AlertDuration)
  BY <1>1, <1>2, <1>5
<1>7. AlertTimes'
  BY <1>1, <1>2, <1>3, <1>4, <1>6 DEF AlertTimes
<1>8. ASSUME candidate.active = TRUE
      PROVE  Counts(heard'.ticks, AlertDuration, candidate.startedMs, alertNow')
  <2>1. /\ heard.type # ""
        /\ Counts(heard.ticks, AlertDuration, candidate.startedMs, alertNow)
    BY <1>8 DEF AlertInv, RunHeard
  <2> QED
    BY <1>1, <1>2, <1>6, <2>1, AlertConstants, CountsOn
<1>9. RunHeard'
  BY <1>1, <1>6, <1>8 DEF AlertInv, RunHeard
<1>10. CooldownHeard'
  BY <1>1, <1>2, AlertConstants, CountsOn DEF AlertInv, CooldownHeard
<1> QED
  BY <1>7, <1>9, <1>10 DEF AlertInv

\* A span that starts now.
LEMMA CountsFromNow ==
    ASSUME NEW limit, NEW at \in 0..(AlertWrap - 1)
    PROVE  Counts(0, limit, at, at)
<1>1. ((at - at) % AlertWrap) = 0
  BY AlertConstants, NoSpan
<1> QED
  BY <1>1 DEF Counts

\* Every category leads to one of the events, or to none.
LEMMA EventForType ==
    ASSUME NEW category
    PROVE  Alerts!EventFor(category) \in Alerts!EventTypes
BY DEF Alerts!EventFor, Alerts!EventTypes

\* The loop evaluates a window.
LEMMA AlertProcessStep ==
    ASSUME AlertInv, NEW mayPublish \in BOOLEAN,
           Alerts!ProcessAcoustic(mayPublish)
    PROVE  AlertInv'
<1> DEFINE type == Alerts!EventFor(latest.category)
           same == candidate.active /\ candidate.type = type
<1>1. /\ candidate' = Alerts!NextCandidate(latest)
      /\ lastEventMs' = IF Alerts!Triggers(latest) THEN alertNow ELSE lastEventMs
      /\ heard' = IF ~Alerts!Eligible(latest) THEN Alerts!NoRun
                  ELSE IF heard.type = type THEN heard
                       ELSE [type |-> type, ticks |-> 0]
      /\ quiet' = IF Alerts!Triggers(latest) THEN 0 ELSE quiet
      /\ alertNow' = alertNow
  BY DEF Alerts!ProcessAcoustic, Alerts!Evaluate, Alerts!Hear
<1>2. /\ alertNow \in 0..(AlertWrap - 1) /\ lastEventMs \in 0..(AlertWrap - 1)
      /\ candidate \in [active : BOOLEAN, type : Alerts!EventTypes,
                        startedMs : 0..(AlertWrap - 1)]
      /\ heard \in [type : Alerts!EventTypes, ticks : Nat]
      /\ quiet \in Nat
  BY DEF AlertInv, AlertTimes
<1>3. type \in Alerts!EventTypes
  BY EventForType
<1>4. CooldownHeard'
  <2>1. CASE Alerts!Triggers(latest)
    BY <1>1, <1>2, <2>1, CountsFromNow DEF CooldownHeard
  <2>2. CASE ~Alerts!Triggers(latest)
    BY <1>1, <2>2 DEF AlertInv, CooldownHeard
  <2> QED
    BY <2>1, <2>2
<1>5. lastEventMs' \in 0..(AlertWrap - 1) /\ quiet' \in Nat
        /\ alertNow' \in 0..(AlertWrap - 1)
  BY <1>1, <1>2
<1>6. CASE ~Alerts!Eligible(latest)
  <2>1. candidate' = Alerts!NoCandidate /\ heard' = Alerts!NoRun
    BY <1>1, <1>6 DEF Alerts!NextCandidate
  <2>2. 0 \in 0..(AlertWrap - 1)
    BY AlertConstants
  <2>3. AlertTimes'
    BY <1>5, <2>1, <2>2 DEF AlertTimes, Alerts!NoCandidate, Alerts!NoRun,
                            Alerts!EventTypes
  <2>4. RunHeard'
    BY <2>1 DEF RunHeard, Alerts!NoCandidate, Alerts!NoRun
  <2> QED
    BY <1>4, <2>3, <2>4 DEF AlertInv
<1>7. CASE Alerts!Eligible(latest)
  <2>1. type # ""
    BY <1>7 DEF Alerts!Eligible
  <2>2. CASE same
    <3>1. candidate' = candidate /\ heard.type = type
      BY <1>1, <1>2, <1>7, <2>2 DEF Alerts!NextCandidate, AlertInv, RunHeard
    <3>2. heard' = heard
      BY <1>1, <1>7, <3>1
    <3>3. AlertTimes'
      BY <1>2, <1>5, <3>1, <3>2 DEF AlertTimes
    <3>4. RunHeard'
      BY <1>1, <3>1, <3>2 DEF AlertInv, RunHeard
    <3> QED
      BY <1>4, <3>3, <3>4 DEF AlertInv
  <2>3. CASE ~same
    <3>1. candidate' = [active |-> TRUE, type |-> type, startedMs |-> alertNow]
      BY <1>1, <1>7, <2>3 DEF Alerts!NextCandidate
    <3>2. heard.type # type
      <4>1. CASE candidate.active = TRUE
        BY <2>3, <4>1 DEF AlertInv, RunHeard
      <4>2. CASE candidate.active = FALSE
        BY <2>1, <4>2 DEF AlertInv, RunHeard
      <4> QED
        BY <1>2, <4>1, <4>2
    <3>3. heard' = [type |-> type, ticks |-> 0]
      BY <1>1, <1>7, <3>2
    <3>4. AlertTimes'
      BY <1>2, <1>3, <1>5, <3>1, <3>3 DEF AlertTimes
    <3>5. Counts(0, AlertDuration, alertNow, alertNow)
      BY <1>2, CountsFromNow
    <3>6. RunHeard'
      <4>1. /\ candidate'.active = TRUE /\ candidate'.type = type
            /\ candidate'.startedMs = alertNow
        BY <3>1
      <4>2. heard'.type = type /\ heard'.ticks = 0
        BY <3>3
      <4> QED
        BY <1>1, <2>1, <3>5, <4>1, <4>2 DEF RunHeard
    <3> QED
      BY <1>4, <3>4, <3>6 DEF AlertInv
  <2> QED
    BY <2>2, <2>3
<1> QED
  BY <1>6, <1>7

\* Every step keeps the invariant of the evaluator.
LEMMA AlertInvStep ==
    ASSUME AlertInv, [Alerts!AlertNext]_alertVars
    PROVE  AlertInv'
<1>1. ASSUME UNCHANGED <<alertNow, lastEventMs, candidate, heard, quiet>>
      PROVE  AlertInv'
  BY <1>1 DEF AlertInv, AlertTimes, RunHeard, CooldownHeard, Counts
<1>2. CASE UNCHANGED alertVars \/ Alerts!WindowVoided
           \/ \E record : Alerts!WindowStored(record)
  BY <1>1, <1>2 DEF alertVars, Alerts!WindowVoided, Alerts!WindowStored,
                    Alerts!evaluator
<1> QED
  BY <1>2, AlertTickStep, AlertProcessStep DEF Alerts!AlertNext

\* It holds at the start.
LEMMA AlertInvInit ==
    ASSUME ModeInit
    PROVE  AlertInv
<1>1. Alerts!AlertInit
  BY DEF ModeInit
<1>2. 0 \in 0..(AlertWrap - 1) /\ AlertCooldown \in Nat
  BY AlertConstants
<1>3. AlertTimes
  BY <1>1, <1>2 DEF Alerts!AlertInit, AlertTimes, Alerts!NoCandidate,
                    Alerts!NoRun, Alerts!EventTypes
<1>4. RunHeard /\ CooldownHeard
  BY <1>1 DEF Alerts!AlertInit, RunHeard, CooldownHeard, Alerts!NoCandidate,
              Alerts!NoRun
<1> QED
  BY <1>3, <1>4 DEF AlertInv

\* Whatever windows the loop saw, and however often millis() came round: no
\* alert before its whole duration, and none in the cooldown of another.
THEOREM AlertIsEarned == ModeSpec => AlertEarned
<1>1. AlertInv /\ [ModeNext]_deviceVars => AlertInv'
  BY AlertStep, AlertInvStep
<1>2. AlertInv /\ [ModeNext]_deviceVars
        => [(processedMs' # processedMs /\ alert'.triggered) =>
              /\ heard.type = alert'.eventType /\ heard.ticks >= AlertDuration
              /\ quiet >= AlertCooldown \/ lastEventMs = 0]_(Alerts!alertVars)
  <2> SUFFICES ASSUME AlertInv, Alerts!AlertNext, processedMs' # processedMs,
                      alert'.triggered
               PROVE  /\ heard.type = alert'.eventType
                      /\ heard.ticks >= AlertDuration
                      /\ quiet >= AlertCooldown \/ lastEventMs = 0
    BY AlertStep DEF alertVars, Alerts!alertVars
  <2>1. PICK mayPublish \in BOOLEAN : Alerts!ProcessAcoustic(mayPublish)
    BY DEF Alerts!AlertNext, Alerts!AlertTick, Alerts!WindowStored,
           Alerts!WindowVoided, Alerts!evaluator
  <2>2. /\ Alerts!Triggers(latest)
        /\ Alerts!Eligible(latest) =>
              alert'.eventType = Alerts!EventFor(latest.category)
    BY <2>1 DEF Alerts!ProcessAcoustic, Alerts!Evaluate
  <2>3. /\ Alerts!Eligible(latest) /\ Alerts!CooldownElapsed
        /\ Alerts!Since(Alerts!NextCandidate(latest).startedMs, alertNow)
              >= AlertDuration
    BY <2>2 DEF Alerts!Triggers
  <2>4. /\ alertNow \in 0..(AlertWrap - 1) /\ lastEventMs \in 0..(AlertWrap - 1)
        /\ candidate \in [active : BOOLEAN, type : Alerts!EventTypes,
                          startedMs : 0..(AlertWrap - 1)]
        /\ heard \in [type : Alerts!EventTypes, ticks : Nat]
        /\ quiet \in Nat
    BY DEF AlertInv, AlertTimes
  <2>5. candidate.active /\ candidate.type = Alerts!EventFor(latest.category)
    <3>1. Alerts!Since(alertNow, alertNow) = 0
      BY <2>4, AlertConstants, NoSpan DEF Alerts!Since
    <3> QED
      BY <2>3, <3>1, AlertConstants DEF Alerts!NextCandidate
  <2>6. /\ heard.type = candidate.type
        /\ Counts(heard.ticks, AlertDuration, candidate.startedMs, alertNow)
    BY <2>4, <2>5 DEF AlertInv, RunHeard
  <2>7. Alerts!NextCandidate(latest) = candidate
    BY <2>3, <2>5 DEF Alerts!NextCandidate
  <2>8. heard.ticks >= AlertDuration
    BY <2>3, <2>4, <2>6, <2>7, AlertConstants DEF Counts, Alerts!Since
  <2>9. quiet >= AlertCooldown \/ lastEventMs = 0
    BY <2>3, <2>4, AlertConstants
       DEF Alerts!CooldownElapsed, Alerts!Since, AlertInv, CooldownHeard, Counts
  <2> QED
    BY <2>2, <2>3, <2>5, <2>6, <2>8, <2>9
<1> QED
  BY <1>1, <1>2, AlertInvInit, PTL
     DEF ModeSpec, AlertEarned, Alerts!AlertEarned

-----------------------------------------------------------------------------
(* SensorPolling. *)

\* A step of the device is a step of the sensor or leaves it alone.
LEMMA SensorStep ==
    ASSUME [ModeNext]_deviceVars
    PROVE  [Sensors!SensorNext]_sensorVars
<1>1. CASE UNCHANGED deviceVars
  BY <1>1 DEF deviceVars, sensorVars
<1>2. CASE ModeNext
  <2>1. CASE part \in SensorKinds
    <3>1. part # "commands" /\ part # "microphone" /\ part # "alerts"
            /\ part # "update" /\ part # "cellular" /\ part # "wifi"
            /\ part # "clock" /\ part # "calibration"
      BY <2>1 DEF SensorKinds, TestOf
    <3> QED
      BY <1>2, <3>1 DEF ModeNext, PartNext
  <2>2. CASE part \notin SensorKinds
    BY <1>2, <2>2 DEF ModeNext, RestBut
  <2> QED
    BY <2>1, <2>2
<1> QED
  BY <1>1, <1>2

Elapsed == Sensors!Since(passMs, sensorNow)
TriedAgo == Sensors!Since(beginMs, passMs)
ReadAgo == Sensors!Since(readMs, passMs)

\* The driver waits to be begun again, and the sensor has been good no longer
\* than that.
Waiting ==
    /\ TriedAgo < SensorRetry
    /\ goodFor <= TriedAgo + Elapsed

\* It was begun in the last pass, which did not look at the time of the last
\* reading.
JustBegun == goodFor <= SensorRetry + MaxStall + Elapsed

\* It waits to read again, for the first time since the sensor is good, or
\* what it read is in the telemetry.
Current ==
    /\ condition = "good" /\ valid = TRUE /\ plausible = TRUE
    /\ updatedMs = readMs
    /\ sensorReported = TRUE \/ updatedMs = 0

Polling ==
    /\ ReadAgo < ReadInterval[kind]
    /\ \/ goodFor <= SensorRetry + 2 * MaxStall + ReadAgo + Elapsed
       \/ Current

\* The GPS needs no more than a pass.
Hearing ==
    /\ goodFor > 0 => measured = 0
    /\ goodFor <= Elapsed \/ sensorReported = TRUE \/ updatedMs = 0

SensorTimes ==
    /\ {sensorNow, passMs, beginMs, readMs, updatedMs} \subseteq 0..(Wrap - 1)
    /\ kind \in SensorKinds
    /\ goodFor \in Nat /\ measured \in Nat
    /\ {started, sensorReported} \subseteq BOOLEAN

SensorInv ==
    /\ SensorTimes
    /\ Elapsed <= MaxStall
    /\ condition # "good" => goodFor = 0
    /\ kind = "gps" => Hearing
    /\ kind = "dht" => started = TRUE
    /\ kind # "gps" /\ started = FALSE => Waiting
    /\ kind # "gps" /\ started = TRUE => JustBegun \/ Polling

\* What the assumption says of the kind that is followed.
LEMMA SensorTyping ==
    ASSUME SensorTimes
    PROVE  /\ Wrap \in Nat /\ Wrap > 0 /\ MaxStall \in Nat /\ MaxStall < Wrap
           /\ SensorRetry \in Nat /\ SensorRetry > 0
           /\ SensorRetry + MaxStall <= Wrap
           /\ ReadInterval[kind] \in Nat /\ ReadInterval[kind] > 0
           /\ ReadInterval[kind] + MaxStall <= Wrap
           /\ MaxAge[kind] \in Nat
           /\ kind # "gps" => ReadInterval[kind] <= MaxAge[kind]
           /\ kind \in Sensors!I2CKinds \/ kind = "dht" \/ kind = "gps"
           /\ {sensorNow, passMs, beginMs, readMs, updatedMs}
                 \subseteq 0..(Wrap - 1)
           /\ goodFor \in Nat /\ measured \in Nat
           /\ Elapsed \in Nat /\ TriedAgo \in Nat /\ ReadAgo \in Nat
<1>1. kind \in SensorKinds
  BY DEF SensorTimes
<1>2. kind \in Sensors!I2CKinds \/ kind = "dht" \/ kind = "gps"
  BY <1>1 DEF SensorKinds, TestOf, Sensors!I2CKinds
<1>3. /\ Wrap \in Nat /\ Wrap > 0 /\ MaxStall \in Nat /\ MaxStall < Wrap
      /\ SensorRetry \in Nat /\ SensorRetry > 0
      /\ SensorRetry + MaxStall <= Wrap
  BY SensorAssumption
<1>4. /\ ReadInterval[kind] \in Nat /\ ReadInterval[kind] > 0
      /\ ReadInterval[kind] + MaxStall <= Wrap
      /\ MaxAge[kind] \in Nat
      /\ kind # "gps" => ReadInterval[kind] <= MaxAge[kind]
  BY <1>1, SensorAssumption
<1>5. /\ {sensorNow, passMs, beginMs, readMs, updatedMs} \subseteq 0..(Wrap - 1)
      /\ goodFor \in Nat /\ measured \in Nat
  BY DEF SensorTimes
<1>6. Elapsed \in Nat /\ TriedAgo \in Nat /\ ReadAgo \in Nat
  BY <1>3, <1>5 DEF Elapsed, TriedAgo, ReadAgo, Sensors!Since
<1> QED
  BY <1>2, <1>3, <1>4, <1>5, <1>6

\* Time passes before the next pass.
LEMMA SensorTickStep ==
    ASSUME SensorInv, Sensors!SensorTick
    PROVE  SensorInv'
<1>0. SensorTimes
  BY DEF SensorInv
<1>1. /\ Elapsed < MaxStall /\ sensorNow' = ((sensorNow + 1) % Wrap)
      /\ UNCHANGED <<kind, condition, started, beginMs, readMs, valid,
                     updatedMs, plausible, passMs, sensorReported>>
      /\ measured' = IF kind = "gps" /\ condition = "good" THEN 0
                     ELSE Sensors!UpTo(Sensors!OldMeasure, measured + 1)
      /\ goodFor' = IF condition = "good"
                    THEN Sensors!UpTo(Sensors!Recovery, goodFor + 1) ELSE 0
  BY DEF Sensors!SensorTick, Sensors!driver, Sensors!reading, Elapsed
<1>2. sensorNow' \in 0..(Wrap - 1) /\ Elapsed' = Elapsed + 1
  <2>1. ((sensorNow - passMs) % Wrap) + 1 < Wrap
    BY <1>0, <1>1, SensorTyping DEF Elapsed, Sensors!Since
  <2> QED
    BY <1>0, <1>1, <2>1, SensorTyping, OneLater DEF Elapsed, Sensors!Since
<1>3. goodFor' \in Nat /\ goodFor' <= goodFor + 1
        /\ (condition # "good" => goodFor' = 0)
  BY <1>0, <1>1, SensorTyping DEF Sensors!UpTo, Sensors!Recovery
<1>4. measured' \in Nat
  BY <1>0, <1>1, SensorTyping DEF Sensors!UpTo, Sensors!OldMeasure
<1>5. SensorTimes'
  BY <1>0, <1>1, <1>2, <1>3, <1>4 DEF SensorTimes
<1>6. TriedAgo' = TriedAgo /\ ReadAgo' = ReadAgo
  BY <1>1 DEF TriedAgo, ReadAgo, Sensors!Since
<1>7. ASSUME kind = "gps" PROVE Hearing'
  <2>1. goodFor' > 0 => measured' = 0
    BY <1>1, <1>3, <1>7
  <2>2. goodFor <= Elapsed => goodFor' <= Elapsed'
    BY <1>0, <1>2, <1>3, SensorTyping
  <2> QED
    BY <1>1, <1>7, <2>1, <2>2 DEF SensorInv, Hearing
<1>8. ASSUME Waiting PROVE Waiting'
  BY <1>0, <1>1, <1>2, <1>3, <1>6, <1>8, SensorTyping DEF Waiting
<1>9. ASSUME JustBegun PROVE JustBegun'
  BY <1>0, <1>1, <1>2, <1>3, <1>9, SensorTyping DEF JustBegun
<1>10. ASSUME Polling PROVE Polling'
  <2>1. ReadAgo' < ReadInterval[kind]'
    BY <1>1, <1>6, <1>10 DEF Polling
  <2>2. CASE Current
    BY <1>1, <2>1, <2>2 DEF Polling, Current
  <2>3. CASE goodFor <= SensorRetry + 2 * MaxStall + ReadAgo + Elapsed
    <3>1. goodFor' <= SensorRetry + 2 * MaxStall + ReadAgo' + Elapsed'
      BY <1>0, <1>2, <1>3, <1>6, <2>3, SensorTyping
    <3> QED
      BY <2>1, <3>1 DEF Polling
  <2> QED
    BY <1>10, <2>2, <2>3 DEF Polling
<1>11. Elapsed' <= MaxStall
  BY <1>0, <1>1, <1>2, SensorTyping
<1> QED
  BY <1>1, <1>3, <1>5, <1>7, <1>8, <1>9, <1>10, <1>11 DEF SensorInv

\* The sensor's condition changes.
LEMMA SensorChangeStep ==
    ASSUME SensorInv, Sensors!ConditionChanges
    PROVE  SensorInv'
<1>1. /\ goodFor' = 0
      /\ UNCHANGED <<sensorNow, kind, started, beginMs, readMs, valid,
                     updatedMs, plausible, passMs, sensorReported, measured>>
  BY DEF Sensors!ConditionChanges, Sensors!driver, Sensors!reading
<1>2. SensorTimes
  BY DEF SensorInv
<1>3. SensorTimes'
  BY <1>1, <1>2 DEF SensorTimes
<1>4. Elapsed' = Elapsed /\ TriedAgo' = TriedAgo /\ ReadAgo' = ReadAgo
  BY <1>1 DEF Elapsed, TriedAgo, ReadAgo, Sensors!Since
<1>5. Hearing'
  BY <1>1, <1>2, <1>4, SensorTyping DEF Hearing
<1>6. ASSUME Waiting PROVE Waiting'
  BY <1>1, <1>2, <1>4, <1>6, SensorTyping DEF Waiting
<1>7. JustBegun'
  BY <1>1, <1>2, <1>4, SensorTyping DEF JustBegun
<1> QED
  BY <1>1, <1>3, <1>4, <1>5, <1>6, <1>7 DEF SensorInv

\* What a pass finds: how long ago the last attempt and the last reading were,
\* now.
LEMMA SensorSpans ==
    ASSUME SensorInv
    PROVE  /\ TriedAgo < SensorRetry =>
                Sensors!Since(beginMs, sensorNow) = TriedAgo + Elapsed
           /\ ReadAgo < ReadInterval[kind] =>
                Sensors!Since(readMs, sensorNow) = ReadAgo + Elapsed
<1>1. SensorTimes /\ Elapsed <= MaxStall
  BY DEF SensorInv
<1>2. ASSUME TriedAgo < SensorRetry
      PROVE  Sensors!Since(beginMs, sensorNow) = TriedAgo + Elapsed
  <2>1. ((passMs - beginMs) % Wrap) + ((sensorNow - passMs) % Wrap) < Wrap
    BY <1>1, <1>2, SensorTyping DEF TriedAgo, Elapsed, Sensors!Since
  <2> QED
    BY <1>1, <2>1, SensorTyping, SpansAdd DEF TriedAgo, Elapsed, Sensors!Since
<1>3. ASSUME ReadAgo < ReadInterval[kind]
      PROVE  Sensors!Since(readMs, sensorNow) = ReadAgo + Elapsed
  <2>1. ((passMs - readMs) % Wrap) + ((sensorNow - passMs) % Wrap) < Wrap
    BY <1>1, <1>3, SensorTyping DEF ReadAgo, Elapsed, Sensors!Since
  <2> QED
    BY <1>1, <2>1, SensorTyping, SpansAdd DEF ReadAgo, Elapsed, Sensors!Since
<1> QED
  BY <1>2, <1>3

\* The times a pass leaves behind, whatever it does with the driver.
LEMMA SensorPassTimes ==
    ASSUME SensorInv, Sensors!SensorPass
    PROVE  /\ sensorNow' = sensorNow /\ passMs' = sensorNow
           /\ kind' = kind /\ condition' = condition /\ goodFor' = goodFor
           /\ sensorReported' =
                (valid' /\ Sensors!Fresh(sensorNow) /\ plausible')
           /\ Elapsed' = 0
           /\ TriedAgo' = Sensors!Since(beginMs', sensorNow)
           /\ ReadAgo' = Sensors!Since(readMs', sensorNow)
           /\ Sensors!Since(sensorNow, sensorNow) = 0
<1>1. /\ sensorNow' = sensorNow /\ passMs' = sensorNow
      /\ kind' = kind /\ condition' = condition /\ goodFor' = goodFor
      /\ sensorReported' = (valid' /\ Sensors!Fresh(sensorNow) /\ plausible')
  BY DEF Sensors!SensorPass
<1>2. Sensors!Since(sensorNow, sensorNow) = 0
  BY SensorTyping, NoSpan DEF SensorInv, Sensors!Since
<1>3. Elapsed' = 0
  BY <1>1, <1>2 DEF Elapsed, Sensors!Since
<1> QED
  BY <1>1, <1>2, <1>3 DEF TriedAgo, ReadAgo, Sensors!Since

\* A driver that reads a good sensor has it in the telemetry with that pass,
\* and one that reads another starts to wait.
LEMMA SensorReads ==
    ASSUME SensorInv, Sensors!SensorPass, kind # "gps", readMs' = sensorNow,
           \/ condition = "good" /\ Sensors!Measure(TRUE)
           \/ /\ condition # "good" /\ updatedMs' \in {updatedMs, sensorNow}
              /\ \/ started' = FALSE /\ beginMs' = sensorNow
                 \/ started' = started /\ beginMs' = beginMs
              /\ measured' \in {measured, 0},
           started = TRUE
    PROVE  /\ SensorTimes'
           /\ started' = TRUE => Polling'
           /\ started' = FALSE => Waiting'
<1>1. SensorTimes
  BY DEF SensorInv
<1>2. /\ updatedMs' \in 0..(Wrap - 1) /\ beginMs' \in 0..(Wrap - 1)
      /\ started' \in BOOLEAN /\ measured' \in Nat
  <2>1. CASE condition = "good" /\ Sensors!Measure(TRUE)
    BY <1>1, <2>1, SensorTyping DEF Sensors!Measure
  <2>2. CASE /\ updatedMs' \in {updatedMs, sensorNow}
             /\ \/ started' = FALSE /\ beginMs' = sensorNow
                \/ started' = started /\ beginMs' = beginMs
             /\ measured' \in {measured, 0}
    <3>1. beginMs' \in {beginMs, sensorNow} /\ started' \in BOOLEAN
      BY <2>2
    <3> QED
      BY <1>1, <2>2, <3>1, SensorTyping
  <2> QED
    BY <2>1, <2>2
<1>3. sensorReported' \in BOOLEAN
  BY SensorPassTimes, <1>2 DEF Sensors!Fresh
<1>4. SensorTimes'
  BY <1>1, <1>2, <1>3, SensorTyping, SensorPassTimes DEF SensorTimes
<1>5. ReadAgo' = 0 /\ ReadAgo' < ReadInterval[kind]'
  BY <1>1, SensorTyping, SensorPassTimes
<1>6. CASE condition = "good" /\ Sensors!Measure(TRUE)
  <2>1. /\ valid' = TRUE /\ plausible' = TRUE /\ updatedMs' = sensorNow
        /\ started' = started
    BY <1>6 DEF Sensors!Measure
  <2>2. updatedMs' # 0 => Sensors!Fresh(sensorNow)
    BY <1>1, <2>1, SensorPassTimes, SensorTyping DEF Sensors!Fresh
  <2>3. Current'
    BY <1>6, <2>1, <2>2, SensorPassTimes DEF Current
  <2> QED
    BY <1>4, <1>5, <2>1, <2>3 DEF Polling
<1>7. CASE /\ condition # "good"
           /\ \/ started' = FALSE /\ beginMs' = sensorNow
              \/ started' = started /\ beginMs' = beginMs
  <2>1. goodFor' = 0
    BY <1>7, SensorPassTimes DEF SensorInv
  <2>2. ASSUME started' = TRUE PROVE Polling'
    BY <1>1, <1>5, <2>1, SensorTyping, SensorPassTimes DEF Polling
  <2>3. ASSUME started' = FALSE PROVE Waiting'
    <3>1. TriedAgo' = 0
      BY <1>7, <2>3, SensorPassTimes
    <3> QED
      BY <1>1, <2>1, <3>1, SensorTyping, SensorPassTimes DEF Waiting
  <2> QED
    BY <1>4, <2>2, <2>3
<1> QED
  BY <1>6, <1>7

\* A driver whose reading is not due yet goes on.
LEMMA SensorWaitsToRead ==
    ASSUME SensorInv, Sensors!SensorPass, kind # "gps", started = TRUE,
           ~Sensors!ReadDue, Sensors!Idle
    PROVE  SensorTimes' /\ started' = TRUE /\ Polling'
<1>1. SensorTimes
  BY DEF SensorInv
<1>2. /\ UNCHANGED <<started, beginMs, readMs, valid, updatedMs, plausible,
                     measured>>
      /\ ~(Sensors!Since(readMs, sensorNow) >= ReadInterval[kind])
  BY DEF Sensors!Idle, Sensors!driver, Sensors!reading, Sensors!ReadDue
<1>3. valid = TRUE /\ plausible = TRUE => sensorReported' \in BOOLEAN
  BY SensorPassTimes, <1>2 DEF Sensors!Fresh
<1>4. SensorTimes'
  BY <1>1, <1>2, <1>3, SensorTyping, SensorPassTimes
     DEF SensorTimes, Sensors!Fresh
<1>5. /\ ReadAgo' = Sensors!Since(readMs, sensorNow)
      /\ ReadAgo' < ReadInterval[kind]' /\ ReadAgo' \in Nat
  <2>1. Sensors!Since(readMs, sensorNow) \in Nat
    BY <1>1, SensorTyping DEF Sensors!Since
  <2> QED
    BY <1>1, <1>2, <2>1, SensorTyping, SensorPassTimes
<1>6. CASE JustBegun
  <2>1. Elapsed <= MaxStall
    BY DEF SensorInv
  <2>2. goodFor' <= SensorRetry + 2 * MaxStall + ReadAgo' + Elapsed'
    BY <1>1, <1>5, <1>6, <2>1, SensorTyping, SensorPassTimes DEF JustBegun
  <2> QED
    BY <1>2, <1>4, <1>5, <2>2 DEF Polling
<1>7. CASE Polling
  <2>1. ReadAgo' = ReadAgo + Elapsed
    BY <1>5, <1>7, SensorSpans DEF Polling
  <2>2. CASE goodFor <= SensorRetry + 2 * MaxStall + ReadAgo + Elapsed
    <3>1. goodFor' <= SensorRetry + 2 * MaxStall + ReadAgo' + Elapsed'
      BY <1>1, <2>1, <2>2, SensorTyping, SensorPassTimes
    <3> QED
      BY <1>2, <1>4, <1>5, <3>1 DEF Polling
  <2>3. CASE Current
    <3>1. updatedMs' # 0 => Sensors!Fresh(sensorNow)
      BY <1>1, <1>2, <1>5, <2>3, SensorTyping, SensorPassTimes
         DEF Current, Sensors!Fresh
    <3>2. Current'
      BY <1>2, <2>3, <3>1, SensorPassTimes DEF Current
    <3> QED
      BY <1>2, <1>4, <1>5, <3>2 DEF Polling
  <2> QED
    BY <1>7, <2>2, <2>3 DEF Polling
<1> QED
  BY <1>6, <1>7 DEF SensorInv

\* A driver that is not started waits for its retry, or begins.
LEMMA SensorBegins ==
    ASSUME SensorInv, Sensors!SensorPass, kind # "gps", started = FALSE,
           \/ Sensors!Since(beginMs, sensorNow) >= SensorRetry /\ Sensors!Begin
           \/ Sensors!Since(beginMs, sensorNow) < SensorRetry /\ Sensors!Idle
    PROVE  /\ SensorTimes'
           /\ started' = TRUE => JustBegun'
           /\ started' = FALSE => Waiting'
<1>1. SensorTimes /\ Waiting /\ Elapsed <= MaxStall
  BY DEF SensorInv
<1>2. Sensors!Since(beginMs, sensorNow) = TriedAgo + Elapsed
  BY <1>1, SensorSpans DEF Waiting
<1>3. CASE Sensors!Since(beginMs, sensorNow) >= SensorRetry /\ Sensors!Begin
  <2>1. /\ started' = (condition = "good")
        /\ beginMs' = IF condition = "good" THEN 0 ELSE sensorNow
        /\ updatedMs' = updatedMs /\ readMs' = readMs /\ measured' = measured
    BY <1>3 DEF Sensors!Begin, Sensors!Invalidate, Sensors!reading
  <2>2. sensorReported' \in BOOLEAN
    BY <1>3, SensorPassTimes DEF Sensors!Fresh, Sensors!Begin
  <2>3. SensorTimes'
    BY <1>1, <2>1, <2>2, SensorTyping, SensorPassTimes DEF SensorTimes
  <2>4. ASSUME condition = "good" PROVE JustBegun'
    BY <1>1, SensorTyping, SensorPassTimes DEF Waiting, JustBegun
  <2>5. ASSUME condition # "good" PROVE Waiting'
    <3>1. goodFor' = 0 /\ TriedAgo' = 0
      BY <2>1, <2>5, SensorPassTimes DEF SensorInv
    <3> QED
      BY <1>1, <3>1, SensorTyping, SensorPassTimes DEF Waiting
  <2> QED
    BY <2>1, <2>3, <2>4, <2>5
<1>4. CASE Sensors!Since(beginMs, sensorNow) < SensorRetry /\ Sensors!Idle
  <2>1. UNCHANGED <<started, beginMs, readMs, valid, updatedMs, plausible,
                    measured>>
    BY <1>4 DEF Sensors!Idle, Sensors!driver, Sensors!reading
  <2>2. sensorReported' \in BOOLEAN
    BY SensorPassTimes DEF Sensors!Fresh
  <2>3. SensorTimes'
    BY <1>1, <2>1, <2>2, SensorTyping, SensorPassTimes DEF SensorTimes
  <2>4. TriedAgo' = TriedAgo + Elapsed
    BY <1>2, <2>1, SensorPassTimes
  <2>5. Waiting'
    BY <1>1, <1>2, <1>4, <2>4, SensorTyping, SensorPassTimes DEF Waiting
  <2> QED
    BY <2>1, <2>3, <2>5
<1> QED
  BY <1>3, <1>4

\* The GPS is heard whenever it is good.
LEMMA SensorHears ==
    ASSUME SensorInv, Sensors!SensorPass, kind = "gps"
    PROVE  SensorTimes' /\ Hearing'
<1>1. SensorTimes /\ Hearing
  BY DEF SensorInv
<1>2. Sensors!UpdateGps
  BY DEF Sensors!SensorPass, Sensors!I2CKinds
<1>3. UNCHANGED <<started, beginMs, readMs, measured>>
  BY <1>2 DEF Sensors!UpdateGps, Sensors!driver
<1>4. updatedMs' \in 0..(Wrap - 1)
  <2>1. ((sensorNow - measured) % Wrap) \in 0..(Wrap - 1)
    BY <1>1, SensorTyping
  <2> QED
    BY <1>1, <1>2, <2>1, SensorTyping
       DEF Sensors!UpdateGps, Sensors!Invalidate
<1>5. sensorReported' \in BOOLEAN
  BY <1>2, SensorPassTimes
     DEF Sensors!Fresh, Sensors!UpdateGps, Sensors!Invalidate
<1>6. SensorTimes'
  BY <1>1, <1>3, <1>4, <1>5, SensorTyping, SensorPassTimes DEF SensorTimes
<1>7. CASE goodFor > 0
  <2>1. measured = 0 /\ MaxAge["gps"] \in Nat
    BY <1>1, <1>7, SensorTyping DEF Hearing
  <2>2. /\ valid' = TRUE /\ plausible' = TRUE
        /\ updatedMs' = ((sensorNow - 0) % Wrap)
    BY <1>2, <2>1 DEF Sensors!UpdateGps
  <2>3. updatedMs' = sensorNow
    <3>1. (sensorNow % Wrap) = sensorNow /\ sensorNow - 0 = sensorNow
      BY <1>1, SensorTyping, Round
    <3> QED
      BY <2>2, <3>1
  <2>4. updatedMs' # 0 => Sensors!Fresh(sensorNow)
    BY <2>1, <2>3, SensorPassTimes DEF Sensors!Fresh
  <2>5. sensorReported' = TRUE \/ updatedMs' = 0
    BY <2>2, <2>4, SensorPassTimes
  <2> QED
    BY <1>3, <1>6, <2>1, <2>5 DEF Hearing
<1>8. CASE ~(goodFor > 0)
  <2>1. goodFor' = 0 /\ Elapsed' = 0
    BY <1>1, <1>8, SensorTyping, SensorPassTimes
  <2> QED
    BY <1>6, <2>1 DEF Hearing
<1> QED
  BY <1>7, <1>8

\* A pass of the loop asks the driver and reports.
LEMMA SensorPassStep ==
    ASSUME SensorInv, Sensors!SensorPass
    PROVE  SensorInv'
<1>1. SensorTimes
  BY DEF SensorInv
<1>2. Elapsed' <= MaxStall /\ (condition' # "good" => goodFor' = 0)
        /\ kind' = kind
  <2>1. Elapsed' = 0 /\ MaxStall \in Nat
    BY <1>1, SensorPassTimes, SensorTyping
  <2>2. condition' = condition /\ goodFor' = goodFor /\ kind' = kind
    BY SensorPassTimes
  <2>3. Elapsed' <= MaxStall
    BY <2>1
  <2> QED
    BY <2>2, <2>3 DEF SensorInv
<1>3. CASE kind = "gps"
  BY <1>2, <1>3, SensorHears DEF SensorInv
<1>4. CASE kind = "dht"
  <2>1. started = TRUE /\ Sensors!UpdateDht
    BY <1>4 DEF SensorInv, Sensors!SensorPass, Sensors!I2CKinds
  <2>2. CASE ~Sensors!ReadDue /\ Sensors!Idle
    BY <1>2, <1>4, <2>1, <2>2, SensorWaitsToRead DEF SensorInv
  <2>3. CASE /\ readMs' = sensorNow
             /\ \/ condition = "good" /\ Sensors!Measure(TRUE)
                \/ condition = "faulty" /\ Sensors!Measure(FALSE)
                \/ condition # "good" /\ Sensors!Unusable
    <3>1. started' = TRUE
      BY <2>1, <2>3 DEF Sensors!Measure, Sensors!Unusable
    <3>2. SensorTimes' /\ Polling'
      BY <1>4, <2>1, <2>3, <3>1, SensorReads
         DEF Sensors!Measure, Sensors!Unusable
    <3> QED
      BY <1>2, <1>4, <3>1, <3>2 DEF SensorInv
  <2> QED
    BY <2>1, <2>2, <2>3 DEF Sensors!UpdateDht
<1>5. CASE kind \in Sensors!I2CKinds
  <2>1. kind # "gps" /\ kind # "dht" /\ Sensors!UpdateI2C
    BY <1>5 DEF Sensors!SensorPass, Sensors!I2CKinds
  <2>2. CASE started = FALSE
    <3>1. /\ SensorTimes'
          /\ started' = TRUE => JustBegun'
          /\ started' = FALSE => Waiting'
      BY <2>1, <2>2, SensorBegins DEF Sensors!UpdateI2C
    <3> QED
      BY <1>2, <2>1, <3>1 DEF SensorInv
  <2>3. CASE started = TRUE
    <3>1. CASE ~Sensors!ReadDue /\ Sensors!Idle
      BY <1>2, <2>1, <2>3, <3>1, SensorWaitsToRead DEF SensorInv
    <3>2. CASE /\ readMs' = sensorNow
               /\ \/ condition = "absent" /\ Sensors!StopsResponding
                  \/ condition = "faulty" /\ Sensors!ReadFaulty
                  \/ condition = "good" /\ Sensors!Measure(TRUE)
      <4>1. \/ condition = "good" /\ Sensors!Measure(TRUE)
            \/ /\ condition # "good" /\ updatedMs' \in {updatedMs, sensorNow}
               /\ \/ started' = FALSE /\ beginMs' = sensorNow
                  \/ started' = started /\ beginMs' = beginMs
               /\ measured' \in {measured, 0}
        BY <3>2 DEF Sensors!Measure, Sensors!Unusable, Sensors!ReadFaulty,
                    Sensors!StopsResponding, Sensors!Invalidate
      <4>2. /\ SensorTimes'
            /\ started' = TRUE => Polling'
            /\ started' = FALSE => Waiting'
        BY <2>1, <2>3, <3>2, <4>1, SensorReads
      <4> QED
        BY <1>2, <2>1, <4>2 DEF SensorInv
    <3> QED
      BY <2>1, <2>3, <3>1, <3>2 DEF Sensors!UpdateI2C
  <2> QED
    BY <1>1, <2>2, <2>3 DEF SensorTimes
<1> QED
  BY <1>1, <1>3, <1>4, <1>5, SensorTyping

\* Every step keeps the invariant of the sensors.
LEMMA SensorInvStep ==
    ASSUME SensorInv, [Sensors!SensorNext]_sensorVars
    PROVE  SensorInv'
<1>1. CASE UNCHANGED sensorVars
  BY <1>1 DEF sensorVars, SensorInv, SensorTimes, Elapsed, TriedAgo, ReadAgo,
              Waiting, JustBegun, Current, Polling, Hearing
<1> QED
  BY <1>1, SensorTickStep, SensorChangeStep, SensorPassStep
     DEF Sensors!SensorNext

\* It holds at the start.
LEMMA SensorInvInit ==
    ASSUME ModeInit
    PROVE  SensorInv
<1>1. Sensors!SensorInit /\ kind \in SensorKinds
  BY DEF ModeInit, Sensors!SensorInit
<1>2. /\ Wrap \in Nat /\ Wrap > 0 /\ MaxStall \in Nat /\ MaxAge[kind] \in Nat
      /\ SensorRetry \in Nat /\ SensorRetry > 0
  BY <1>1, SensorAssumption
<1>3. SensorTimes
  <2>1. started \in BOOLEAN /\ sensorReported \in BOOLEAN
    BY <1>1 DEF Sensors!SensorInit
  <2>2. /\ sensorNow = 0 /\ passMs = 0 /\ beginMs = 0 /\ readMs = 0
        /\ updatedMs = 0 /\ goodFor = 0 /\ measured = MaxAge[kind] + 1
    BY <1>1 DEF Sensors!SensorInit, Sensors!OldMeasure
  <2> QED
    BY <1>1, <1>2, <2>1, <2>2 DEF SensorTimes
<1>4. Elapsed = 0 /\ TriedAgo = 0 /\ goodFor = 0
  BY <1>1, <1>2, NoSpan DEF Sensors!SensorInit, Elapsed, TriedAgo, Sensors!Since
<1>5. JustBegun /\ Waiting /\ Hearing
  BY <1>2, <1>4 DEF JustBegun, Waiting, Hearing
<1>6. kind = "dht" => started = TRUE
  BY <1>1 DEF Sensors!SensorInit, Sensors!I2CKinds
<1> QED
  BY <1>2, <1>3, <1>4, <1>5, <1>6 DEF SensorInv

\* Whichever sensor it is and whatever its hardware did before, one that has
\* been good for a retry, an interval and the passes between is reported.
THEOREM SensorAnsweringIsReported == ModeSpec => []AnsweringIsReported
<1>1. SensorInv => AnsweringIsReported
  <2> SUFFICES ASSUME SensorInv, goodFor >= Sensors!Recovery
               PROVE  sensorReported = TRUE \/ updatedMs = 0
    BY DEF SensorInv, SensorTimes, AnsweringIsReported,
           Sensors!AnsweringIsReported
  <2>1. SensorTimes /\ Elapsed <= MaxStall
    BY DEF SensorInv
  <2>2. goodFor >= SensorRetry + ReadInterval[kind] + 3 * MaxStall
    BY DEF Sensors!Recovery
  <2>3. ~Waiting /\ ~JustBegun /\ ~(goodFor <= Elapsed)
    BY <2>1, <2>2, SensorTyping DEF Waiting, JustBegun
  <2>4. Polling => Current
    BY <2>1, <2>2, SensorTyping DEF Polling
  <2> QED
    BY <2>1, <2>3, <2>4 DEF SensorInv, SensorTimes, Hearing, Current
<1>2. SensorInv /\ [ModeNext]_deviceVars => SensorInv'
  BY SensorStep, SensorInvStep
<1>3. ModeInit => SensorInv
  BY SensorInvInit
<1> QED
  BY <1>1, <1>2, <1>3, PTL DEF ModeSpec

\* A driver that holds a valid reading has measured it when it last read, and
\* reads again in time: the age of the reading cannot come round.
ReadingOwned ==
    (kind # "gps" /\ valid = TRUE) =>
       /\ started = TRUE /\ updatedMs = readMs
       /\ ReadAgo < ReadInterval[kind]
       /\ measured <= ReadAgo + Elapsed

\* A valid reading stays the driver's own, and young.
LEMMA ReadingOwnedStep ==
    ASSUME SensorInv, ReadingOwned, [Sensors!SensorNext]_sensorVars
    PROVE  ReadingOwned'
<1>1. SensorTimes
  BY DEF SensorInv
<1>2. CASE UNCHANGED sensorVars
  BY <1>2 DEF sensorVars, ReadingOwned, ReadAgo, Elapsed, Sensors!Since
<1>3. CASE Sensors!SensorTick
  <2>1. /\ Elapsed < MaxStall /\ sensorNow' = ((sensorNow + 1) % Wrap)
        /\ UNCHANGED <<kind, started, readMs, valid, updatedMs, passMs>>
        /\ measured' = IF kind = "gps" /\ condition = "good" THEN 0
                       ELSE Sensors!UpTo(Sensors!OldMeasure, measured + 1)
    BY <1>3 DEF Sensors!SensorTick, Sensors!driver, Sensors!reading, Elapsed
  <2>2. ((sensorNow - passMs) % Wrap) + 1 < Wrap
    BY <1>1, <2>1, SensorTyping DEF Elapsed, Sensors!Since
  <2>3. Elapsed' = Elapsed + 1
    BY <1>1, <2>1, <2>2, SensorTyping, OneLater DEF Elapsed, Sensors!Since
  <2>4. measured' \in Nat /\ measured' <= measured + 1
    BY <1>1, <2>1, SensorTyping DEF Sensors!UpTo, Sensors!OldMeasure
  <2>5. ReadAgo' = ReadAgo
    BY <2>1 DEF ReadAgo, Sensors!Since
  <2>6. measured <= ReadAgo + Elapsed => measured' <= ReadAgo' + Elapsed'
    BY <1>1, <2>3, <2>4, <2>5, SensorTyping
  <2> QED
    BY <2>1, <2>5, <2>6 DEF ReadingOwned
<1>4. CASE Sensors!ConditionChanges
  BY <1>4 DEF Sensors!ConditionChanges, Sensors!driver, Sensors!reading,
              ReadingOwned, ReadAgo, Elapsed, Sensors!Since
<1>5. CASE Sensors!SensorPass
  <2> SUFFICES ASSUME kind # "gps", valid' = TRUE
               PROVE  /\ started' = TRUE /\ updatedMs' = readMs'
                      /\ ReadAgo' < ReadInterval[kind]
                      /\ measured' <= ReadAgo' + Elapsed'
    BY <1>5, SensorPassTimes DEF ReadingOwned
  <2>1. ASSUME readMs' = sensorNow, started = TRUE,
               \E inRange \in BOOLEAN : Sensors!Measure(inRange)
        PROVE  /\ started' = TRUE /\ updatedMs' = readMs'
               /\ ReadAgo' < ReadInterval[kind]
               /\ measured' <= ReadAgo' + Elapsed'
    <3>1. /\ updatedMs' = readMs' /\ started' = TRUE /\ measured' = 0
      BY <2>1 DEF Sensors!Measure
    <3>2. ReadAgo' = 0 /\ Elapsed' = 0
      BY <1>5, <2>1, SensorPassTimes
    <3> QED
      BY <1>1, <3>1, <3>2, SensorTyping
  <2>2. ASSUME started = TRUE, ~Sensors!ReadDue, Sensors!Idle
        PROVE  /\ started' = TRUE /\ updatedMs' = readMs'
               /\ ReadAgo' < ReadInterval[kind]
               /\ measured' <= ReadAgo' + Elapsed'
    <3>1. UNCHANGED <<started, readMs, valid, updatedMs, measured>>
      BY <2>2 DEF Sensors!Idle, Sensors!driver, Sensors!reading
    <3>2. /\ updatedMs = readMs /\ ReadAgo < ReadInterval[kind]
          /\ measured <= ReadAgo + Elapsed
      BY <3>1 DEF ReadingOwned
    <3>3. ReadAgo' = ReadAgo + Elapsed /\ Elapsed' = 0
      BY <1>5, <3>1, <3>2, SensorSpans, SensorPassTimes
    <3>4. ReadAgo' < ReadInterval[kind]
      <4>1. Sensors!Since(readMs, sensorNow) < ReadInterval[kind]
        BY <1>1, <2>2, <3>2, SensorTyping, SensorSpans DEF Sensors!ReadDue
      <4> QED
        BY <1>5, <3>1, <4>1, SensorPassTimes
    <3>5. measured' <= ReadAgo' + Elapsed'
      BY <1>1, <3>1, <3>2, <3>3, SensorTyping
    <3> QED
      BY <2>2, <3>1, <3>2, <3>4, <3>5
  <2>3. CASE kind = "dht"
    BY <1>5, <2>1, <2>2, <2>3
       DEF SensorInv, Sensors!SensorPass, Sensors!I2CKinds, Sensors!UpdateDht,
           Sensors!Unusable
  <2>4. CASE kind \in Sensors!I2CKinds
    <3>1. Sensors!UpdateI2C
      BY <1>5, <2>4 DEF Sensors!SensorPass, Sensors!I2CKinds
    <3>2. started = TRUE
      <4>1. CASE started = FALSE
        <5>1. valid # TRUE
          BY <4>1 DEF ReadingOwned
        <5> QED
          BY <3>1, <4>1, <5>1
             DEF Sensors!UpdateI2C, Sensors!Begin, Sensors!Invalidate,
                 Sensors!Idle, Sensors!reading
      <4> QED
        BY <1>1, <4>1 DEF SensorTimes
    <3> QED
      BY <2>1, <2>2, <3>1, <3>2
         DEF Sensors!UpdateI2C, Sensors!StopsResponding, Sensors!Invalidate,
             Sensors!ReadFaulty, Sensors!Unusable
  <2> QED
    BY <1>1, <2>3, <2>4, SensorTyping
<1> QED
  BY <1>2, <1>3, <1>4, <1>5 DEF Sensors!SensorNext

\* Whichever driver it is and however long ago it measured anything: what a
\* pass reports was measured within the validator's age.
THEOREM SensorReportedIsMeasured == ModeSpec => ReportedIsMeasured
<1>1. ModeInit => ReadingOwned
  BY DEF ModeInit, Sensors!SensorInit, ReadingOwned
<1>2. SensorInv /\ ReadingOwned /\ [ModeNext]_deviceVars
        => SensorInv' /\ ReadingOwned'
  BY SensorStep, SensorInvStep, ReadingOwnedStep
<1>3. SensorInv /\ SensorInv' /\ ReadingOwned' /\ [ModeNext]_deviceVars
        => [(passMs' # passMs /\ sensorReported')
              => measured' <= MaxAge[kind]]_(Sensors!sensorVars)
  <2> SUFFICES ASSUME SensorInv, SensorInv', ReadingOwned',
                      Sensors!SensorNext, passMs' # passMs, sensorReported'
               PROVE  measured' <= MaxAge[kind]
    BY SensorStep DEF sensorVars, Sensors!sensorVars
  <2>1. SensorTimes
    BY DEF SensorInv
  <2>2. Sensors!SensorPass
    BY DEF Sensors!SensorNext, Sensors!SensorTick, Sensors!ConditionChanges
  <2>3. valid' = TRUE
    BY <2>2 DEF Sensors!SensorPass, Sensors!UpdateGps, Sensors!Invalidate
  <2>4. CASE kind = "gps"
    BY <2>2, <2>3, <2>4
       DEF Sensors!SensorPass, Sensors!I2CKinds, Sensors!UpdateGps,
           Sensors!Invalidate
  <2>5. CASE kind # "gps"
    <3>1. /\ ReadAgo' < ReadInterval[kind] /\ Elapsed' = 0
          /\ measured' <= ReadAgo' + Elapsed'
      BY <2>2, <2>3, <2>5, SensorPassTimes DEF ReadingOwned
    <3>2. ReadInterval[kind] <= MaxAge[kind] /\ ReadInterval[kind] \in Nat
            /\ MaxAge[kind] \in Nat
      BY <2>1, <2>5, SensorTyping
    <3>3. measured' \in Nat /\ ReadAgo' \in Nat
      <4>1. Wrap \in Nat /\ Wrap > 0
        BY <2>1, SensorTyping
      <4>2. measured' \in Nat /\ readMs' \in 0..(Wrap - 1)
              /\ passMs' \in 0..(Wrap - 1)
        BY DEF SensorInv, SensorTimes
      <4>3. ((passMs' - readMs') % Wrap) \in Nat
        BY <4>1, <4>2, DifferenceIsNat
      <4> QED
        BY <4>2, <4>3 DEF ReadAgo, Sensors!Since
    <3> QED
      BY <3>1, <3>2, <3>3
  <2> QED
    BY <2>4, <2>5
<1> QED
  BY <1>1, <1>2, <1>3, SensorInvInit, PTL
     DEF ModeSpec, ReportedIsMeasured, Sensors!ReportedIsMeasured

-----------------------------------------------------------------------------
(* LocalUpdate. *)

\* A step of the device is a step of the update or leaves it alone.
LEMMA UpdateStep ==
    ASSUME [ModeNext]_deviceVars
    PROVE  [Update!UpdateNext]_updateVars
<1>1. CASE UNCHANGED deviceVars
  BY <1>1 DEF deviceVars, updateVars
<1>2. CASE ModeNext
  <2>1. CASE part = "update"
    BY <1>2, <2>1 DEF ModeNext, PartNext, SensorKinds, TestOf
  <2>2. CASE part # "update"
    BY <1>2, <2>2 DEF ModeNext, RestBut
  <2> QED
    BY <2>1, <2>2
<1> QED
  BY <1>1, <1>2

\* A restart that is scheduled, and an upload that may schedule one, stand for
\* an image the Update library accepted.
UpdateInv ==
    /\ PauseIsUpload
    /\ finishedOk => confirmed
    /\ restartPending => confirmed

\* Every step keeps the invariant of the update.
LEMMA UpdateInvStep ==
    ASSUME UpdateInv, [Update!UpdateNext]_updateVars
    PROVE  UpdateInv'
<1> USE DEF UpdateInv, PauseIsUpload, Update!PauseIsUpload
<1>1. CASE UNCHANGED updateVars
  BY <1>1 DEF updateVars
<1>2. CASE Update!UpdateTick
  BY <1>2 DEF Update!UpdateTick, Update!flags, Update!restart
<1>3. ASSUME NEW auth \in BOOLEAN, NEW isBin \in BOOLEAN, NEW begins \in BOOLEAN,
             Update!UploadStarts(auth, isBin, begins)
      PROVE  UpdateInv'
  BY <1>3 DEF Update!UploadStarts, Update!restart
<1>4. ASSUME NEW auth \in BOOLEAN, NEW writes \in BOOLEAN,
             Update!UploadWrites(auth, writes)
      PROVE  UpdateInv'
  BY <1>4 DEF Update!UploadWrites, Update!restart
<1>5. ASSUME NEW auth \in BOOLEAN, NEW ends \in BOOLEAN,
             Update!UploadEnds(auth, ends)
      PROVE  UpdateInv'
  BY <1>5 DEF Update!UploadEnds, Update!restart
<1>6. CASE Update!UploadAborted
  BY <1>6 DEF Update!UploadAborted, Update!restart
<1>7. ASSUME NEW auth \in BOOLEAN, Update!FinishRequest(auth)
      PROVE  UpdateInv'
  BY <1>7 DEF Update!FinishRequest, Update!flags, Update!restart
<1>8. CASE Update!PassWithoutRestart
  BY <1>8 DEF Update!PassWithoutRestart, Update!flags, Update!restart
<1>9. CASE Update!Restarts
  BY <1>9 DEF Update!Restarts
<1> QED
  BY <1>1, <1>2, <1>3, <1>4, <1>5, <1>6, <1>7, <1>8, <1>9 DEF Update!UpdateNext

\* It holds in every mode.
LEMMA UpdateInvAlways == ModeSpec => []UpdateInv
<1>1. ModeInit => UpdateInv
  BY DEF ModeInit, UpdateInv, PauseIsUpload, Update!PauseIsUpload,
         Update!UpdateInit, Update!FreshFlags
<1>2. UpdateInv /\ [ModeNext]_deviceVars => UpdateInv'
  BY UpdateStep, UpdateInvStep
<1> QED
  BY <1>1, <1>2, PTL DEF ModeSpec

\* Whatever an upload meets, storage and telemetry are paused only while it
\* lasts.
THEOREM UpdatePauseIsUpload == ModeSpec => []PauseIsUpload
BY UpdateInvAlways, PTL DEF UpdateInv

\* The firmware restarts only into what Update.end(true) accepted, or back to
\* what ran before.
THEOREM UpdateRestartNeedsImage == ModeSpec => RestartNeedsImage
<1>1. UpdateInv /\ [ModeNext]_deviceVars
        => [booted' # booted \/ (restartPending /\ ~restartPending')
              => confirmed]_(Update!updateVars)
  <2> SUFFICES ASSUME UpdateInv, Update!UpdateNext,
                      booted' # booted \/ (restartPending /\ ~restartPending')
               PROVE  confirmed
    BY UpdateStep DEF updateVars, Update!updateVars
  <2>1. CASE restartPending
    BY <2>1 DEF UpdateInv
  <2>2. CASE booted' # booted
    BY <2>2 DEF UpdateInv, Update!UpdateNext, Update!UpdateTick,
                Update!UploadStarts, Update!UploadWrites, Update!UploadEnds,
                Update!UploadAborted, Update!FinishRequest,
                Update!PassWithoutRestart, Update!Restarts, Update!RestartDue
  <2> QED
    BY <2>1, <2>2
<1> QED
  BY <1>1, UpdateInvAlways, PTL
     DEF ModeSpec, RestartNeedsImage, Update!RestartNeedsImage

-----------------------------------------------------------------------------
(* CellularLink. *)

\* A step of the device is a step of the link or leaves it alone.
LEMMA LinkStep ==
    ASSUME [ModeNext]_deviceVars
    PROVE  [Link!LinkNext]_linkVars
<1>1. CASE UNCHANGED deviceVars
  BY <1>1 DEF deviceVars, linkVars
<1>2. CASE ModeNext
  <2>1. CASE part = "cellular"
    BY <1>2, <2>1 DEF ModeNext, PartNext, SensorKinds, TestOf
  <2>2. CASE part # "cellular"
    BY <1>2, <2>2 DEF ModeNext, RestBut
  <2> QED
    BY <2>1, <2>2
<1> QED
  BY <1>1, <1>2

\* The modem says it has a bearer exactly while it is online.
BearerIsOnline == gprs <=> state = "Online"

\* A pass of the modem keeps that, step by step.
LEMMA ModemKeepsBearer ==
    ASSUME BearerIsOnline, Link!ModemUpdate
    PROVE  BearerIsOnline'
<1> USE DEF BearerIsOnline, Link!Go, Link!ScheduleBackoff
<1>1. CASE Link!AtSync
  BY <1>1 DEF Link!AtSync
<1>2. CASE Link!SimCheck
  BY <1>2 DEF Link!SimCheck
<1>3. CASE Link!Registering
  BY <1>3 DEF Link!Registering
<1>4. CASE Link!GprsConnecting
  BY <1>4 DEF Link!GprsConnecting
<1>5. CASE Link!Online
  BY <1>5 DEF Link!Online
<1>6. CASE Link!AtReady
  BY <1>6 DEF Link!AtReady
<1>7. CASE Link!Backoff
  BY <1>7 DEF Link!Backoff
<1>8. CASE UNCHANGED <<state, gprs>>
  BY <1>8
<1> QED
  BY <1>1, <1>2, <1>3, <1>4, <1>5, <1>6, <1>7, <1>8
     DEF Link!ModemUpdate, Link!PerformStep, Link!modem

\* The client's pass comes after the modem's and looks at its new bearer.
LEMMA LinkInvStep ==
    ASSUME ClientNeedsBearer, [Link!LinkNext]_linkVars
    PROVE  ClientNeedsBearer'
<1> USE DEF ClientNeedsBearer, Link!ClientNeedsBearer
<1>1. CASE UNCHANGED <<state, gprs, clientUp>>
  BY <1>1
<1>2. CASE Link!BrokerLost
  BY <1>2 DEF Link!BrokerLost, Link!modem
<1>3. CASE Link!LinkPass
  <2>1. BearerIsOnline'
    BY <1>3, ModemKeepsBearer DEF Link!LinkPass, BearerIsOnline
  <2>2. clientUp' => gprs'
    BY <1>3 DEF Link!LinkPass, Link!ClientUpdate, Link!WithoutBearer,
                Link!StaysUp, Link!Waits, Link!Attempts
  <2> QED
    BY <2>1, <2>2 DEF BearerIsOnline
<1>4. CASE Link!LinkTick \/ Link!LineChanges \/ Link!ModemResets
  BY <1>1, <1>4 DEF Link!LinkTick, Link!LineChanges, Link!ModemResets,
                    Link!modem, Link!client
<1>5. CASE UNCHANGED linkVars
  BY <1>1, <1>5 DEF linkVars
<1> QED
  BY <1>2, <1>3, <1>4, <1>5 DEF Link!LinkNext

\* The MQTT client never holds a connection without a bearer, and there is a
\* bearer only while the modem watches it.
THEOREM LinkClientNeedsBearer == ModeSpec => []ClientNeedsBearer
<1>1. ModeInit => ClientNeedsBearer
  BY DEF ModeInit, ClientNeedsBearer, Link!ClientNeedsBearer, Link!LinkInit
<1>2. ClientNeedsBearer /\ [ModeNext]_deviceVars => ClientNeedsBearer'
  BY LinkStep, LinkInvStep
<1> QED
  BY <1>1, <1>2, PTL DEF ModeSpec

-----------------------------------------------------------------------------
(* WiFiManager. *)

\* A step of the device is a step of the Wi-Fi manager or leaves it alone.
LEMMA WifiStep ==
    ASSUME [ModeNext]_deviceVars
    PROVE  [Wifi!WifiNext]_wifiVars
<1>1. CASE UNCHANGED deviceVars
  BY <1>1 DEF deviceVars, wifiVars
<1>2. CASE ModeNext
  <2>1. CASE part = "wifi"
    BY <1>2, <2>1 DEF ModeNext, PartNext, SensorKinds, TestOf
  <2>2. CASE part # "wifi"
    BY <1>2, <2>2 DEF ModeNext, RestBut
  <2> QED
    BY <2>1, <2>2
<1> QED
  BY <1>1, <1>2

WifiTimes ==
    /\ {wifiNow, attemptMs, nextTryMs, wifiPassMs} \subseteq 0..(WifiWrap - 1)
    /\ wifiBackoff \in Nat /\ wifiBackoff <= BackoffMax

\* The loop came round in time; an attempt had not timed out at the last pass,
\* and a manager without one had its next one before it.
AttemptLive ==
    Wifi!Since(attemptMs, wifiPassMs) < ConnectTimeout
AttemptAhead ==
    LET ahead == Wifi!Since(wifiPassMs, nextTryMs) IN
    0 < ahead /\ ahead <= BackoffMax

WifiInv ==
    /\ WifiTimes
    /\ {wasConnected, connecting} \subseteq BOOLEAN
    /\ Wifi!Since(wifiPassMs, wifiNow) <= MaxStall
    /\ connecting => ~wasConnected /\ AttemptLive
    /\ ~connecting /\ ~wasConnected => AttemptAhead

\* What the time since the last pass makes of what that pass saw.
LEMMA SinceLastPass ==
    ASSUME WifiInv
    PROVE  /\ AttemptLive => Wifi!Since(attemptMs, wifiNow)
                               < ConnectTimeout + MaxStall
           /\ AttemptAhead =>
                \/ Wifi!Reached(nextTryMs)
                \/ /\ 0 < Wifi!Since(wifiNow, nextTryMs)
                   /\ Wifi!Since(wifiNow, nextTryMs) <= BackoffMax
<1>1. /\ WifiWrap \in Nat /\ WifiWrap > 0 /\ ConnectTimeout \in Nat
      /\ BackoffMax \in Nat /\ MaxStall \in Nat /\ MaxStall < WifiWrap \div 2
      /\ {wifiNow, attemptMs, nextTryMs, wifiPassMs} \subseteq 0..(WifiWrap - 1)
  BY WifiAssumption, HalfTurn DEF WifiInv, WifiTimes
<1>2. ((wifiNow - wifiPassMs) % WifiWrap) <= MaxStall
  BY DEF WifiInv, Wifi!Since
<1>3. ((wifiPassMs - attemptMs) % WifiWrap) < ConnectTimeout
        => ((wifiNow - attemptMs) % WifiWrap) < ConnectTimeout + MaxStall
  BY <1>1, <1>2, Elapses
<1>4. (0 < ((nextTryMs - wifiPassMs) % WifiWrap)
         /\ ((nextTryMs - wifiPassMs) % WifiWrap) <= BackoffMax)
        => \/ ((wifiNow - nextTryMs) % WifiWrap) <= MaxStall
           \/ /\ 0 < ((nextTryMs - wifiNow) % WifiWrap)
              /\ ((nextTryMs - wifiNow) % WifiWrap) <= BackoffMax
  BY <1>1, <1>2, Elapses
<1>5. ((wifiNow - nextTryMs) % WifiWrap) \in Nat /\ (WifiWrap \div 2) \in Nat
  BY <1>1
<1> QED
  BY <1>1, <1>3, <1>4, <1>5
     DEF AttemptLive, AttemptAhead, Wifi!Since, Wifi!Reached

\* Nothing but a pass and a tick moves the times.
LEMMA WifiTickStep ==
    ASSUME WifiInv, Wifi!WifiTick
    PROVE  WifiInv'
<1>1. /\ WifiWrap \in Nat /\ WifiWrap > 0 /\ MaxStall \in Nat
      /\ MaxStall < WifiWrap
      /\ wifiNow \in 0..(WifiWrap - 1) /\ wifiPassMs \in 0..(WifiWrap - 1)
      /\ ((wifiNow - wifiPassMs) % WifiWrap) < MaxStall
      /\ wifiNow' = ((wifiNow + 1) % WifiWrap) /\ wifiPassMs' = wifiPassMs
  BY WifiAssumption, HalfTurn DEF WifiInv, WifiTimes, Wifi!WifiTick, Wifi!Since
<1>2. wifiNow' = IF wifiNow + 1 < WifiWrap THEN wifiNow + 1 ELSE wifiNow + 1 - WifiWrap
  BY <1>1, Round
<1>3. wifiNow' \in 0..(WifiWrap - 1)
  BY <1>1, <1>2
<1>4. /\ ((wifiNow - wifiPassMs) % WifiWrap) = IF wifiPassMs <= wifiNow
            THEN wifiNow - wifiPassMs ELSE wifiNow + WifiWrap - wifiPassMs
      /\ ((wifiNow' - wifiPassMs) % WifiWrap) = IF wifiPassMs <= wifiNow'
            THEN wifiNow' - wifiPassMs ELSE wifiNow' + WifiWrap - wifiPassMs
  BY <1>1, <1>3, Difference
<1>5. ((wifiNow' - wifiPassMs) % WifiWrap) <= MaxStall
  BY <1>1, <1>2, <1>3, <1>4
<1> QED
  BY <1>1, <1>3, <1>5
     DEF WifiInv, WifiTimes, AttemptLive, AttemptAhead, Wifi!Since,
         Wifi!WifiTick, Wifi!air, Wifi!manager

\* A pass that leaves the manager without a connection leaves it in an attempt
\* that lasts, or with a time for the next one that is yet to come.
LEMMA WifiPassStep ==
    ASSUME WifiInv, Wifi!WifiPass
    PROVE  WifiInv'
<1>1. /\ WifiWrap \in Nat /\ WifiWrap > 0 /\ MaxStall \in Nat
      /\ BackoffMax \in Nat /\ BackoffMax < WifiWrap /\ BackoffMin \in Nat
      /\ BackoffMin <= BackoffMax
      /\ ConnectTimeout \in Nat /\ ConnectTimeout > 0
      /\ {wifiNow, attemptMs, nextTryMs, wifiPassMs} \subseteq 0..(WifiWrap - 1)
      /\ wifiBackoff \in Nat /\ wifiBackoff <= BackoffMax
      /\ wifiPassMs' = wifiNow /\ wifiNow' = wifiNow
      /\ {wasConnected, connecting} \subseteq BOOLEAN
  BY WifiAssumption, HalfTurn DEF WifiInv, WifiTimes, Wifi!WifiPass
<1>2. ((wifiNow - wifiNow) % WifiWrap) = 0
  BY <1>1, Difference
<1>3. Wifi!Since(wifiPassMs', wifiNow') <= MaxStall
  BY <1>1, <1>2 DEF Wifi!Since
<1>4. CASE Wifi!SeesConnected
  <2>1. /\ wasConnected' = TRUE /\ connecting' = FALSE
        /\ attemptMs' = 0 /\ nextTryMs' = nextTryMs /\ wifiBackoff' = BackoffMin
    BY <1>4 DEF Wifi!SeesConnected
  <2>2. WifiTimes'
    BY <1>1, <2>1 DEF WifiTimes
  <2> QED
    BY <1>3, <2>1, <2>2 DEF WifiInv
<1>5. CASE Wifi!SeesDisconnected
  <2> DEFINE idle == ~connecting \/ Wifi!TimesOut
             starts == idle /\ Wifi!Since(nextTryMs', wifiNow) < WifiWrap \div 2
  <2>1. /\ wasConnected' = FALSE
        /\ connecting' = (starts \/ ~idle)
        /\ attemptMs' = IF starts THEN wifiNow ELSE IF idle THEN 0 ELSE attemptMs
    BY <1>5 DEF Wifi!SeesDisconnected, Wifi!StartsIfDue
  <2>2. wifiBackoff' \in Nat /\ wifiBackoff' <= BackoffMax
    BY <1>1, <1>5 DEF Wifi!SeesDisconnected, Wifi!Doubled
  <2>3. /\ nextTryMs' \in 0..(WifiWrap - 1)
        /\ idle => \/ Wifi!Since(nextTryMs', wifiNow) < WifiWrap \div 2
                   \/ /\ 0 < Wifi!Since(wifiNow, nextTryMs')
                      /\ Wifi!Since(wifiNow, nextTryMs') <= BackoffMax
    <3>1. CASE wasConnected \/ Wifi!TimesOut
      <4>1. nextTryMs' = ((wifiNow + wifiBackoff) % WifiWrap)
        BY <1>5, <3>1 DEF Wifi!SeesDisconnected, Wifi!After
      <4>2. nextTryMs' = IF wifiNow + wifiBackoff < WifiWrap
                         THEN wifiNow + wifiBackoff
                         ELSE wifiNow + wifiBackoff - WifiWrap
        BY <1>1, <4>1, Round
      <4>3. nextTryMs' \in 0..(WifiWrap - 1)
        BY <1>1, <4>2
      <4>4. ((nextTryMs' - wifiNow) % WifiWrap) = IF wifiNow <= nextTryMs'
              THEN nextTryMs' - wifiNow ELSE nextTryMs' + WifiWrap - wifiNow
        BY <1>1, <4>3, Difference
      <4>5. ((nextTryMs' - wifiNow) % WifiWrap) = wifiBackoff
        BY <1>1, <4>2, <4>3, <4>4
      <4>6. CASE wifiBackoff = 0
        <5>1. nextTryMs' = wifiNow
          BY <1>1, <4>2, <4>6
        <5> QED
          BY <1>1, <1>2, <4>3, <5>1, WifiAssumption DEF Wifi!Since
      <4> QED
        BY <1>1, <4>3, <4>5, <4>6 DEF Wifi!Since
    <3>2. CASE ~(wasConnected \/ Wifi!TimesOut)
      <4>1. nextTryMs' = nextTryMs
        BY <1>5, <3>2 DEF Wifi!SeesDisconnected
      <4>2. idle => AttemptAhead
        BY <3>2 DEF WifiInv
      <4> QED
        BY <1>1, <4>1, <4>2, SinceLastPass DEF Wifi!Reached
    <3> QED
      BY <3>1, <3>2
  <2>4. attemptMs' \in 0..(WifiWrap - 1)
    BY <1>1, <2>1
  <2>5. connecting' => Wifi!Since(attemptMs', wifiNow) < ConnectTimeout
    <3>1. CASE starts
      BY <1>1, <1>2, <2>1, <3>1 DEF Wifi!Since
    <3>2. CASE ~idle
      <4>1. ((wifiNow - attemptMs) % WifiWrap) \in Nat
        BY <1>1
      <4> QED
        BY <1>1, <2>1, <3>2, <4>1 DEF Wifi!TimesOut, Wifi!Since
    <3> QED
      BY <2>1, <3>1, <3>2
  <2>6. ~connecting' => 0 < Wifi!Since(wifiNow, nextTryMs')
                          /\ Wifi!Since(wifiNow, nextTryMs') <= BackoffMax
    BY <2>1, <2>3
  <2>7. connecting' \in BOOLEAN
    BY <1>1, <2>1
  <2> HIDE DEF starts, idle
  <2>8. WifiTimes'
    BY <1>1, <2>2, <2>3, <2>4 DEF WifiTimes
  <2>9. (connecting' => AttemptLive') /\ (~connecting' => AttemptAhead')
    BY <1>1, <2>5, <2>6 DEF AttemptLive, AttemptAhead
  <2> QED
    BY <1>3, <2>1, <2>7, <2>8, <2>9 DEF WifiInv
<1> QED
  BY <1>4, <1>5 DEF Wifi!WifiPass

\* Every step keeps the invariant of the Wi-Fi manager.
LEMMA WifiInvStep ==
    ASSUME WifiInv, [Wifi!WifiNext]_wifiVars
    PROVE  WifiInv'
<1>1. CASE UNCHANGED <<wifiNow, wasConnected, connecting, attemptMs, nextTryMs,
                       wifiBackoff, wifiPassMs>>
  BY <1>1 DEF WifiInv, WifiTimes, AttemptLive, AttemptAhead, Wifi!Since
<1>2. CASE UNCHANGED wifiVars \/ Wifi!AccessPointChanges \/ Wifi!Associates
  BY <1>1, <1>2 DEF wifiVars, Wifi!AccessPointChanges, Wifi!Associates,
                    Wifi!manager
<1> QED
  BY <1>2, WifiTickStep, WifiPassStep DEF Wifi!WifiNext

\* A manager that sees no connection tries again within the largest backoff,
\* for any length of the connection and any start of millis().
THEOREM WifiTryNear == ModeSpec => []TryNear
<1>1. ModeInit => WifiInv
  <2> SUFFICES ASSUME ModeInit PROVE WifiInv
    OBVIOUS
  <2>1. /\ WifiWrap \in Nat /\ WifiWrap > 0 /\ MaxStall \in Nat
        /\ ConnectTimeout \in Nat /\ ConnectTimeout > 0
        /\ BackoffMin \in Nat /\ BackoffMax \in Nat /\ BackoffMin <= BackoffMax
    BY WifiAssumption, HalfTurn
  <2>2. ((0 - 0) % WifiWrap) = 0
    BY <2>1, Difference
  <2>3. /\ wifiNow = 0 /\ wifiPassMs = 0 /\ attemptMs = 0 /\ nextTryMs = 0
        /\ wifiBackoff = BackoffMin /\ wasConnected = FALSE /\ connecting = TRUE
    BY DEF ModeInit, Wifi!WifiInit
  <2>4. Wifi!Since(wifiPassMs, wifiNow) <= MaxStall /\ AttemptLive
    BY <2>1, <2>2, <2>3 DEF AttemptLive, Wifi!Since
  <2>5. WifiTimes
    BY <2>1, <2>3 DEF WifiTimes
  <2> QED
    BY <2>3, <2>4, <2>5 DEF WifiInv
<1>2. WifiInv /\ [ModeNext]_deviceVars => WifiInv'
  BY WifiStep, WifiInvStep
<1>3. WifiInv => TryNear
  BY SinceLastPass DEF WifiInv, TryNear, Wifi!TryNear
<1> QED
  BY <1>1, <1>2, <1>3, PTL DEF ModeSpec

-----------------------------------------------------------------------------
(* DeviceClock. *)

\* A step of the device is a step of the clock or leaves it alone.
LEMMA ClockStep ==
    ASSUME [ModeNext]_deviceVars
    PROVE  [Clock!ClockNext]_clockVars
<1>1. CASE UNCHANGED deviceVars
  BY <1>1 DEF deviceVars, clockVars
<1>2. CASE ModeNext
  <2>1. CASE part = "clock"
    BY <1>2, <2>1 DEF ModeNext, PartNext, SensorKinds, TestOf
  <2>2. CASE part # "clock"
    BY <1>2, <2>2 DEF ModeNext, RestBut
  <2> QED
    BY <2>1, <2>2
<1> QED
  BY <1>1, <1>2

\* An answer that is unread came from NTP, and _source says "ntp" only after
\* one or for a clock kept over the restart, valid clock or not.
ClockInv ==
    /\ ClockHonest
    /\ answered => ntpHeard
    /\ source = "ntp" => (kept \/ ntpHeard)

\* Every step keeps the invariant of the clock.
LEMMA ClockInvStep ==
    ASSUME ClockInv, [Clock!ClockNext]_clockVars
    PROVE  ClockInv'
<1> USE DEF ClockInv, ClockHonest, Clock!ClockHonest, Clock!NamedSource,
            Clock!ClockValid
<1>1. CASE UNCHANGED <<clock, answered, source, kept, ntpHeard>>
  BY <1>1
<1>2. CASE UNCHANGED clockVars \/ Clock!ClockTick \/ Clock!NetworkChanges
  BY <1>1, <1>2 DEF clockVars, Clock!ClockTick, Clock!NetworkChanges,
                    Clock!service
<1>3. CASE Clock!NtpAnswers
  BY <1>3 DEF Clock!NtpAnswers, Clock!service
<1>4. ASSUME NEW clockKept \in BOOLEAN, Clock!DeviceBegins(clockKept)
      PROVE  ClockInv'
  BY <1>4 DEF Clock!DeviceBegins
<1>5. ASSUME NEW fix \in BOOLEAN, Clock!ClockPass(fix)
      PROVE  ClockInv'
  <2>1. ASSUME NEW overtaken \in BOOLEAN, Clock!GpsSetsClock(fix, overtaken)
        PROVE  ClockInv'
    BY <1>5, <2>1 DEF Clock!ClockPass, Clock!GpsSetsClock
  <2>2. CASE Clock!LeavesClock(fix)
    BY <1>5, <2>2 DEF Clock!ClockPass, Clock!LeavesClock, Clock!NoticeNtp
  <2> QED
    BY <1>5, <2>1, <2>2 DEF Clock!ClockPass
<1> QED
  BY <1>2, <1>3, <1>4, <1>5 DEF Clock!ClockNext

\* The device never names a source for its time that has not set it, but for
\* an answer of NTP that update has not read yet.
THEOREM ClockNamesItsSource == ModeSpec => []ClockHonest
<1>1. ModeInit => ClockInv
  BY DEF ModeInit, ClockInv, ClockHonest, Clock!ClockHonest, Clock!NamedSource,
         Clock!ClockValid, Clock!ClockInit
<1>2. ClockInv /\ [ModeNext]_deviceVars => ClockInv'
  BY ClockStep, ClockInvStep
<1>3. ClockInv => ClockHonest
  BY DEF ClockInv
<1> QED
  BY <1>1, <1>2, <1>3, PTL DEF ModeSpec

-----------------------------------------------------------------------------
(* BarometerCalibration. *)

\* A step of the device is a step of the calibration or leaves it alone.
LEMMA CalStep ==
    ASSUME [ModeNext]_deviceVars
    PROVE  [Calibration!CalNext]_calVars
<1>1. CASE UNCHANGED deviceVars
  BY <1>1 DEF deviceVars, calVars
<1>2. CASE ModeNext
  <2>1. CASE part = "calibration"
    BY <1>2, <2>1 DEF ModeNext, PartNext, SensorKinds, TestOf
  <2>2. CASE part # "calibration"
    BY <1>2, <2>2 DEF ModeNext, RestBut
  <2> QED
    BY <2>1, <2>2
<1> QED
  BY <1>1, <1>2

\* The calls a save has still to make, from its start to its end.
AtClear == <<"clear", "version", "pressure", "source">>
AtVersion == <<"version", "pressure", "source">>
AtPressure == <<"pressure", "source">>
AtSource == <<"source">>

\* What is to be called next, and what that leaves.
LEMMA TheCalls ==
    /\ Head(AtClear) = "clear" /\ Tail(AtClear) = AtVersion
    /\ Head(AtVersion) = "version" /\ Tail(AtVersion) = AtPressure
    /\ Head(AtPressure) = "pressure" /\ Tail(AtPressure) = AtSource
    /\ Head(AtSource) = "source" /\ Tail(AtSource) = <<>>
BY DEF AtClear, AtVersion, AtPressure, AtSource

\* No two of these lists are the same.
LEMMA TheCallsDiffer ==
    /\ AtClear # <<>> /\ AtVersion # <<>> /\ AtPressure # <<>> /\ AtSource # <<>>
    /\ AtClear # AtVersion /\ AtClear # AtPressure /\ AtClear # AtSource
    /\ AtVersion # AtPressure /\ AtVersion # AtSource /\ AtPressure # AtSource
BY DEF AtClear, AtVersion, AtPressure, AtSource

\* A save is not reported done before its end.  While every call of it has
\* succeeded, each put has left its key behind; while its clear has, the keys
\* it has not come to are missing, and the flash holds no other calibration.
SaveUnderWay ==
    /\ saving \in {<<>>, AtClear, AtVersion, AtPressure, AtSource}
    /\ saving # <<>> => reported = FALSE

WrittenSoFar ==
    /\ (saving \in {AtPressure, AtSource} /\ allWritten) =>
          "version" \in DOMAIN flash
    /\ (saving = AtSource /\ allWritten) => "pressure" \in DOMAIN flash

ClearedFirst ==
    ~clearFailed =>
       /\ saving = AtVersion => DOMAIN flash = {}
       /\ saving = AtPressure => DOMAIN flash \subseteq {"version"}
       /\ saving = AtSource => "source" \notin DOMAIN flash

PressureSaved ==
    (saving = AtSource /\ "pressure" \in DOMAIN flash
       /\ (allWritten \/ ~clearFailed)) => flash["pressure"] = toSave

NotMixed ==
    (DOMAIN flash = Calibration!Keys /\ ~clearFailed) =>
        flash["source"] = flash["pressure"].origin

CalInv ==
    /\ SaveUnderWay
    /\ DOMAIN flash \subseteq Calibration!Keys
    /\ WrittenSoFar /\ ClearedFirst /\ PressureSaved
    /\ SavedSurvives /\ NotMixed

\* Every step keeps the invariant of the calibration.
LEMMA CalInvStep ==
    ASSUME CalInv, [Calibration!CalNext]_calVars
    PROVE  CalInv'
<1> USE DEF CalInv, SaveUnderWay
<1>1. ASSUME UNCHANGED Calibration!store
      PROVE  CalInv'
  BY <1>1 DEF Calibration!store, WrittenSoFar, ClearedFirst, PressureSaved,
              SavedSurvives, Calibration!SavedSurvives, Calibration!Load,
              NotMixed
<1>2. CASE UNCHANGED calVars \/ Calibration!DurationPasses
  BY <1>1, <1>2 DEF calVars, Calibration!store, Calibration!DurationPasses
<1>3. ASSUME NEW sampled, Calibration!SamplingPass(sampled)
      PROVE  CalInv'
  BY <1>1, <1>3 DEF Calibration!SamplingPass
<1>4. ASSUME NEW c \in Calibration!Candidates, Calibration!SaveCommand(c)
      PROVE  CalInv'
  <2>1. saving' = AtClear /\ flash' = flash /\ clearFailed' = clearFailed
          /\ reported' = FALSE
    BY <1>4 DEF Calibration!SaveCommand, AtClear
  <2> QED
    BY <2>1, TheCallsDiffer
       DEF WrittenSoFar, ClearedFirst, PressureSaved, SavedSurvives,
           Calibration!SavedSurvives, NotMixed
<1>5. ASSUME NEW ok \in BOOLEAN, NEW erased \in SUBSET DOMAIN flash,
             Calibration!SaveClears(ok, erased)
      PROVE  CalInv'
  <2>1. saving = AtClear /\ saving' = AtVersion /\ reported' = FALSE
    BY <1>5, TheCalls DEF Calibration!SaveClears
  <2>2. DOMAIN flash' \subseteq Calibration!Keys
    BY <1>5 DEF Calibration!SaveClears, Calibration!Without
  <2>3. ~clearFailed' => DOMAIN flash' = {}
    BY <1>5 DEF Calibration!SaveClears, Calibration!Without
  <2> QED
    BY <2>1, <2>2, <2>3, TheCallsDiffer
       DEF WrittenSoFar, ClearedFirst, PressureSaved, SavedSurvives,
           Calibration!SavedSurvives, NotMixed, Calibration!Keys
<1>6. ASSUME NEW ok \in BOOLEAN, Calibration!SavePuts(ok)
      PROVE  CalInv'
  <2>1. /\ clearFailed' = clearFailed /\ toSave' = toSave
        /\ allWritten' = (allWritten /\ ok) /\ saving' = Tail(saving)
        /\ saving # <<>> /\ saving # AtClear
    BY <1>6, TheCalls DEF Calibration!SavePuts
  <2>2. ASSUME NEW key \in Calibration!Keys, Head(saving) = key
        PROVE  /\ DOMAIN flash' \subseteq DOMAIN flash \cup {key}
               /\ DOMAIN flash \subseteq DOMAIN flash'
               /\ ok => key \in DOMAIN flash'
               /\ ok /\ key = "pressure" => flash'["pressure"] = toSave
               /\ ok /\ key = "source" => flash'["source"] = toSave.origin
               /\ \A k \in DOMAIN flash : k # key => flash'[k] = flash[k]
               /\ ~ok => flash' = flash
    BY <1>6, <2>2 DEF Calibration!SavePuts, Calibration!Put, Calibration!Keys
  <2>3. CASE saving = AtVersion
    <3>1. saving' = AtPressure /\ Head(saving) = "version" /\ reported' = FALSE
      BY <1>6, <2>1, <2>3, TheCalls, TheCallsDiffer DEF Calibration!SavePuts
    <3> QED
      BY <2>1, <2>2, <2>3, <3>1, TheCallsDiffer
         DEF WrittenSoFar, ClearedFirst, PressureSaved, SavedSurvives,
             Calibration!SavedSurvives, NotMixed, Calibration!Keys
  <2>4. CASE saving = AtPressure
    <3>1. saving' = AtSource /\ Head(saving) = "pressure" /\ reported' = FALSE
      BY <1>6, <2>1, <2>4, TheCalls, TheCallsDiffer DEF Calibration!SavePuts
    <3> QED
      BY <2>1, <2>2, <2>4, <3>1, TheCallsDiffer
         DEF WrittenSoFar, ClearedFirst, PressureSaved, SavedSurvives,
             Calibration!SavedSurvives, NotMixed, Calibration!Keys
  <2>5. CASE saving = AtSource
    <3>1. saving' = <<>> /\ Head(saving) = "source"
      BY <2>1, <2>5, TheCalls
    <3>2. SavedSurvives'
      BY <1>6, <2>1, <2>2, <2>5, <3>1, TheCallsDiffer
         DEF WrittenSoFar, PressureSaved, SavedSurvives,
             Calibration!SavedSurvives, Calibration!Load, Calibration!Keys,
             Calibration!SavePuts
    <3>3. NotMixed'
      BY <2>1, <2>2, <2>5, <3>1
         DEF ClearedFirst, PressureSaved, NotMixed, Calibration!Keys
    <3> QED
      BY <2>1, <2>2, <3>1, <3>2, <3>3, TheCallsDiffer
         DEF WrittenSoFar, ClearedFirst, PressureSaved, Calibration!Keys
  <2> QED
    BY <2>1, <2>3, <2>4, <2>5
<1>7. ASSUME NEW ok \in BOOLEAN, NEW erased \in SUBSET DOMAIN flash,
             Calibration!ClearCommand(ok, erased)
      PROVE  CalInv'
  <2>1. saving = <<>> /\ saving' = <<>>
    BY <1>7 DEF Calibration!ClearCommand
  <2>2. DOMAIN flash' \subseteq Calibration!Keys
          /\ (ok => DOMAIN flash' = {})
    BY <1>7 DEF Calibration!ClearCommand, Calibration!Without
  <2>3. SavedSurvives' /\ NotMixed'
    BY <1>7, <2>2 DEF Calibration!ClearCommand, SavedSurvives,
                      Calibration!SavedSurvives, Calibration!Load,
                      Calibration!Keys, NotMixed
  <2> QED
    BY <2>1, <2>2, <2>3, TheCallsDiffer
       DEF WrittenSoFar, ClearedFirst, PressureSaved
<1>8. ASSUME NEW erased \in SUBSET DOMAIN flash,
             Calibration!PowerFails(erased)
      PROVE  CalInv'
  <2>1. saving' = <<>> /\ clearFailed' = clearFailed /\ SavedSurvives'
    BY <1>8 DEF Calibration!PowerFails, SavedSurvives,
                Calibration!SavedSurvives
  <2>2. /\ DOMAIN flash' \subseteq DOMAIN flash
        /\ \A k \in DOMAIN flash' : flash'[k] = flash[k]
    BY <1>8 DEF Calibration!PowerFails, Calibration!Without
  <2> QED
    BY <2>1, <2>2, TheCallsDiffer
       DEF WrittenSoFar, ClearedFirst, PressureSaved, NotMixed,
           Calibration!Keys
<1> QED
  BY <1>2, <1>3, <1>4, <1>5, <1>6, <1>7, <1>8 DEF Calibration!CalNext

\* It holds before the first calibration.
LEMMA CalInvInit ==
    ASSUME ModeInit
    PROVE  CalInv
<1>1. Calibration!CalInit
  BY DEF ModeInit
<1>2. DOMAIN flash = {}
  BY <1>1 DEF Calibration!CalInit
<1> QED
  BY <1>1, <1>2, TheCallsDiffer
     DEF Calibration!CalInit, CalInv, SaveUnderWay, WrittenSoFar,
         ClearedFirst, PressureSaved, SavedSurvives,
         Calibration!SavedSurvives, Calibration!Load, Calibration!Keys,
         NotMixed

\* It holds in every mode.
LEMMA CalInvAlways == ModeSpec => []CalInv
<1>1. ModeInit => CalInv
  BY CalInvInit
<1>2. CalInv /\ [ModeNext]_deviceVars => CalInv'
  BY CalStep, CalInvStep
<1> QED
  BY <1>1, <1>2, PTL DEF ModeSpec

\* What a command was reported to have saved or cleared is in use, now and
\* after every later start.
THEOREM CalibrationSavedSurvives == ModeSpec => []SavedSurvives
BY CalInvAlways, PTL DEF CalInv

\* Wherever power fails in a save, and whichever of its puts fail, no start
\* reads the pressure of one calibration with the origin of another.
THEOREM CalibrationNotMixed == ModeSpec => []NoMixedCalibration
<1>1. CalInv => NoMixedCalibration
  BY DEF CalInv, NotMixed, NoMixedCalibration,
         Calibration!NoMixedCalibration, Calibration!Load
<1> QED
  BY <1>1, CalInvAlways, PTL

-----------------------------------------------------------------------------
(* Types. *)

\* What the constants of the parts without a clock of their own allow.
LEMMA PartConstants ==
    /\ Wrap \in Nat /\ Wrap > 0 /\ WifiWrap \in Nat /\ WifiWrap > 0
    /\ ActionInterval \in Nat /\ StatusInterval \in Nat /\ RestartDelay \in Nat
    /\ MaxPosts \in Nat
    /\ BackoffMin \in Nat /\ BackoffMax \in Nat /\ BackoffMin <= BackoffMax
BY SensorAssumption, WifiAssumption, DelayAssumption

\* A time some delay after another is a time.
LEMMA Later ==
    ASSUME NEW C \in Nat, C > 0, NEW at \in 0..(C - 1), NEW delay \in Nat
    PROVE  ((at + delay) % C) \in 0..(C - 1)
OBVIOUS

\* A step of the update keeps the types of its variables.
LEMMA UpdateTypeStep ==
    ASSUME Update!UpdateTypeOK, [Update!UpdateNext]_updateVars
    PROVE  Update!UpdateTypeOK'
<1> USE DEF Update!UpdateTypeOK, Update!Ticks
<1>0. 0 \in 0..(Wrap - 1) /\ 0 \in 0..MaxPosts
  BY PartConstants
<1>1. CASE UNCHANGED updateVars
  BY <1>1 DEF updateVars
<1>2. CASE Update!UpdateTick
  <2>1. updateNow' \in 0..(Wrap - 1)
    BY <1>2, PartConstants, Later DEF Update!UpdateTick
  <2> QED BY <1>2, <2>1 DEF Update!UpdateTick, Update!flags, Update!restart
<1>3. ASSUME NEW auth \in BOOLEAN, NEW isBin \in BOOLEAN, NEW begins \in BOOLEAN,
             Update!UploadStarts(auth, isBin, begins)
      PROVE  Update!UpdateTypeOK'
  BY <1>3, Zenon DEF Update!UploadStarts, Update!restart
<1>4. ASSUME NEW auth \in BOOLEAN, NEW writes \in BOOLEAN,
             Update!UploadWrites(auth, writes)
      PROVE  Update!UpdateTypeOK'
  BY <1>4 DEF Update!UploadWrites, Update!restart
<1>5. ASSUME NEW auth \in BOOLEAN, NEW ends \in BOOLEAN,
             Update!UploadEnds(auth, ends)
      PROVE  Update!UpdateTypeOK'
  BY <1>5 DEF Update!UploadEnds, Update!restart
<1>6. CASE Update!UploadAborted
  BY <1>6 DEF Update!UploadAborted, Update!restart
<1>7. ASSUME NEW auth \in BOOLEAN, Update!FinishRequest(auth)
      PROVE  Update!UpdateTypeOK'
  <2>1. ((updateNow + RestartDelay) % Wrap) \in 0..(Wrap - 1)
    BY PartConstants, Later
  <2>2. posts < MaxPosts => posts + 1 \in 0..MaxPosts
    BY PartConstants
  <2> QED
    BY <1>7, <2>1, <2>2 DEF Update!FinishRequest, Update!flags, Update!restart
<1>8. CASE Update!PassWithoutRestart
  BY <1>8 DEF Update!PassWithoutRestart, Update!flags, Update!restart
<1>9. CASE Update!Restarts
  BY <1>0, <1>9 DEF Update!Restarts
<1> QED
  BY <1>1, <1>2, <1>3, <1>4, <1>5, <1>6, <1>7, <1>8, <1>9 DEF Update!UpdateNext

\* A step of the clock keeps the types of its variables.
LEMMA ClockTypeStep ==
    ASSUME Clock!ClockTypeOK, [Clock!ClockNext]_clockVars
    PROVE  Clock!ClockTypeOK'
<1> USE DEF Clock!ClockTypeOK, Clock!Ticks, Clock!Setters, Clock!Sources
<1>0. 0 \in 0..(Wrap - 1)
  BY PartConstants
<1>1. CASE UNCHANGED clockVars
  BY <1>1 DEF clockVars
<1>2. CASE Clock!ClockTick
  <2>1. clockNow' \in 0..(Wrap - 1)
    BY <1>2, PartConstants, Later DEF Clock!ClockTick
  <2> QED BY <1>2, <2>1 DEF Clock!ClockTick, Clock!service
<1>3. CASE Clock!NetworkChanges
  BY <1>3 DEF Clock!NetworkChanges, Clock!service
<1>4. CASE Clock!NtpAnswers
  BY <1>4 DEF Clock!NtpAnswers, Clock!service
<1>5. ASSUME NEW clockKept \in BOOLEAN, Clock!DeviceBegins(clockKept)
      PROVE  Clock!ClockTypeOK'
  BY <1>0, <1>5 DEF Clock!DeviceBegins
<1>6. ASSUME NEW fix \in BOOLEAN, Clock!ClockPass(fix)
      PROVE  Clock!ClockTypeOK'
  <2>1. /\ {ntpStarted', ntpHeard', answered'} \subseteq BOOLEAN
        /\ ntpStartMs' \in 0..(Wrap - 1)
    BY <1>6 DEF Clock!ClockPass, Clock!RequestNtp, Clock!GpsSetsClock,
                Clock!LeavesClock, Clock!NoticeNtp
  <2>2. clock' \in Clock!Setters /\ source' \in Clock!Sources
    BY <1>6 DEF Clock!ClockPass, Clock!GpsSetsClock, Clock!LeavesClock,
                Clock!NoticeNtp
  <2> QED BY <1>6, <2>1, <2>2 DEF Clock!ClockPass
<1> QED
  BY <1>1, <1>2, <1>3, <1>4, <1>5, <1>6 DEF Clock!ClockNext

\* Doubling keeps a backoff within its bounds.
LEMMA DoubledBackoff ==
    ASSUME NEW b \in BackoffMin..BackoffMax
    PROVE  /\ Link!Doubled(b) \in BackoffMin..BackoffMax
           /\ Wifi!Doubled(b) \in BackoffMin..BackoffMax
           /\ BackoffMin \in BackoffMin..BackoffMax
           /\ b \in Nat
BY PartConstants DEF Link!Doubled, Wifi!Doubled

\* The deadlines of the modem and of the client are times.
LEMMA LinkDeadlines ==
    ASSUME Link!LinkTypeOK
    PROVE  /\ \A delay \in Nat : Link!After(delay) \in Link!Ticks
           /\ {0, ActionInterval, StatusInterval, modemBackoff, clientBackoff}
                 \subseteq Nat
<1>1. linkNow \in 0..(Wrap - 1)
  BY DEF Link!LinkTypeOK, Link!Ticks
<1>2. modemBackoff \in Nat /\ clientBackoff \in Nat
  BY DoubledBackoff DEF Link!LinkTypeOK
<1>3. \A delay \in Nat : Link!After(delay) \in Link!Ticks
  BY <1>1, PartConstants, Later DEF Link!After, Link!Ticks
<1> QED BY <1>2, <1>3, PartConstants

ModemTypes ==
    /\ state \in Link!States /\ nextActionMs \in Link!Ticks
    /\ modemBackoff \in BackoffMin..BackoffMax
    /\ {simLocked, simReady, registered, gprs} \subseteq BOOLEAN

\* A pass of the modem keeps its types.
LEMMA ModemTypeStep ==
    ASSUME Link!LinkTypeOK, Link!ModemUpdate
    PROVE  ModemTypes'
<1>1. ModemTypes /\ line \in Nat
  BY DEF Link!LinkTypeOK, ModemTypes, Link!Reach
<1> DEFINE Moved == /\ state' \in Link!States /\ nextActionMs' \in Link!Ticks
                    /\ modemBackoff' \in BackoffMin..BackoffMax
<1>2. ASSUME NEW next \in Link!States,
             NEW delay \in {0, ActionInterval, StatusInterval},
             Link!Go(next, delay)
      PROVE  Moved
  BY <1>1, <1>2, LinkDeadlines DEF Link!Go, ModemTypes
<1>3. ASSUME Link!ScheduleBackoff
      PROVE  Moved /\ gprs' = FALSE
  BY <1>1, <1>3, LinkDeadlines, DoubledBackoff
     DEF Link!ScheduleBackoff, ModemTypes, Link!States
<1>4. /\ Link!After(StatusInterval) \in Link!Ticks
      /\ BackoffMin \in BackoffMin..BackoffMax
      /\ {"AtSync", "SimCheck", "Registering", "GprsConnecting", "Online",
          "AtReady"} \subseteq Link!States
  BY LinkDeadlines, PartConstants DEF Link!States
<1>5. CASE UNCHANGED <<state, nextActionMs, modemBackoff, simLocked, simReady,
                       registered, gprs>>
  BY <1>1, <1>5 DEF ModemTypes
<1>6. CASE Link!AtSync
  <2>1. Moved /\ gprs' \in BOOLEAN
    BY <1>1, <1>2, <1>3, <1>4, <1>6 DEF Link!AtSync, ModemTypes
  <2> QED BY <1>1, <1>6, <2>1 DEF Link!AtSync, ModemTypes
<1>7. CASE Link!SimCheck
  <2>1. Moved /\ gprs' \in BOOLEAN
    BY <1>1, <1>2, <1>3, <1>4, <1>7 DEF Link!SimCheck, ModemTypes
  <2> QED BY <1>1, <1>7, <2>1 DEF Link!SimCheck, ModemTypes
<1>8. CASE Link!Registering
  <2>1. Moved
    BY <1>2, <1>4, <1>8 DEF Link!Registering
  <2>2. registered' \in BOOLEAN
    BY <1>8 DEF Link!Registering, Link!OnNetwork
  <2> QED BY <1>1, <1>8, <2>1, <2>2 DEF Link!Registering, ModemTypes
<1>9. CASE Link!GprsConnecting
  <2>1. Moved /\ gprs' \in BOOLEAN
    BY <1>3, <1>4, <1>9 DEF Link!GprsConnecting
  <2> QED BY <1>1, <1>9, <2>1 DEF Link!GprsConnecting, ModemTypes
<1>10. CASE Link!Online
  <2>1. Moved /\ gprs' \in BOOLEAN
    BY <1>2, <1>3, <1>4, <1>10 DEF Link!Online
  <2>2. registered' \in BOOLEAN
    BY <1>10 DEF Link!Online, Link!OnNetwork
  <2> QED BY <1>1, <1>10, <2>1, <2>2 DEF Link!Online, ModemTypes
<1>11. CASE Link!AtReady
  <2>1. Moved
    BY <1>2, <1>4, <1>11 DEF Link!AtReady
  <2>2. simReady' \in BOOLEAN
    BY <1>11 DEF Link!AtReady, Link!SimIsReady
  <2> QED BY <1>1, <1>11, <2>1, <2>2 DEF Link!AtReady, ModemTypes
<1>12. CASE Link!Backoff
  <2>1. Moved
    BY <1>2, <1>4, <1>12 DEF Link!Backoff
  <2> QED BY <1>1, <1>12, <2>1 DEF Link!Backoff, ModemTypes
<1> QED
  BY <1>5, <1>6, <1>7, <1>8, <1>9, <1>10, <1>11, <1>12
     DEF Link!ModemUpdate, Link!PerformStep, Link!modem

\* A step of the cellular link keeps the types of its variables.
LEMMA LinkTypeStep ==
    ASSUME Link!LinkTypeOK, [Link!LinkNext]_linkVars
    PROVE  Link!LinkTypeOK'
<1>1. CASE UNCHANGED linkVars
  BY <1>1 DEF linkVars, Link!LinkTypeOK
<1>2. CASE Link!LinkTick
  <2>1. linkNow' \in Link!Ticks
    BY <1>2, PartConstants, Later
       DEF Link!LinkTick, Link!LinkTypeOK, Link!Ticks
  <2> QED
    BY <1>2, <2>1 DEF Link!LinkTick, Link!LinkTypeOK, Link!world, Link!modem,
                      Link!client
<1>3. CASE Link!LineChanges
  BY <1>3 DEF Link!LineChanges, Link!LinkTypeOK, Link!modem, Link!client
<1>4. CASE Link!ModemResets
  BY <1>4 DEF Link!ModemResets, Link!LinkTypeOK, Link!modem, Link!client
<1>5. CASE Link!BrokerLost
  BY <1>5 DEF Link!BrokerLost, Link!LinkTypeOK, Link!world, Link!modem
<1>6. CASE Link!LinkPass
  <2>1. ModemTypes'
    BY <1>6, ModemTypeStep DEF Link!LinkPass
  <2>2. /\ {clientUp', wasUp'} \subseteq BOOLEAN
        /\ nextAttemptMs' \in Link!Ticks
        /\ clientBackoff' \in BackoffMin..BackoffMax
    <3>1. /\ Link!After(clientBackoff) \in Link!Ticks /\ linkNow \in Link!Ticks
          /\ nextAttemptMs \in Link!Ticks
          /\ clientBackoff \in BackoffMin..BackoffMax
          /\ Link!Doubled(clientBackoff) \in BackoffMin..BackoffMax
          /\ BackoffMin \in BackoffMin..BackoffMax
      BY LinkDeadlines, DoubledBackoff DEF Link!LinkTypeOK
    <3> QED
      BY <1>6, <3>1 DEF Link!LinkPass, Link!ClientUpdate, Link!WithoutBearer,
                        Link!StaysUp, Link!Waits, Link!Attempts
  <2> QED
    BY <1>6, <2>1, <2>2 DEF Link!LinkPass, Link!LinkTypeOK, ModemTypes
<1> QED
  BY <1>1, <1>2, <1>3, <1>4, <1>5, <1>6 DEF Link!LinkNext

\* A step of the Wi-Fi manager keeps the types of its variables.
LEMMA WifiTypeStep ==
    ASSUME Wifi!WifiTypeOK, [Wifi!WifiNext]_wifiVars
    PROVE  Wifi!WifiTypeOK'
<1> USE DEF Wifi!WifiTypeOK, Wifi!Ticks
<1>0. 0 \in 0..(WifiWrap - 1)
  BY PartConstants
<1>1. CASE UNCHANGED wifiVars
  BY <1>1 DEF wifiVars
<1>2. CASE Wifi!WifiTick
  <2>1. wifiNow' \in 0..(WifiWrap - 1)
    BY <1>2, PartConstants, Later DEF Wifi!WifiTick
  <2> QED BY <1>2, <2>1 DEF Wifi!WifiTick, Wifi!air, Wifi!manager
<1>3. CASE Wifi!AccessPointChanges
  BY <1>3 DEF Wifi!AccessPointChanges, Wifi!manager
<1>4. CASE Wifi!Associates
  BY <1>4 DEF Wifi!Associates, Wifi!manager
<1>5. CASE Wifi!WifiPass
  <2>1. /\ Wifi!After(wifiBackoff) \in 0..(WifiWrap - 1)
        /\ Wifi!Doubled(wifiBackoff) \in BackoffMin..BackoffMax
        /\ BackoffMin \in BackoffMin..BackoffMax
    BY PartConstants, DoubledBackoff, Later DEF Wifi!After
  <2>2. /\ {wasConnected', connecting', radioOn'} \subseteq BOOLEAN
        /\ attemptMs' \in 0..(WifiWrap - 1)
    BY <1>0, <1>5 DEF Wifi!WifiPass, Wifi!SeesConnected, Wifi!SeesDisconnected,
                      Wifi!StartsIfDue
  <2>3. /\ nextTryMs' \in 0..(WifiWrap - 1)
        /\ wifiBackoff' \in BackoffMin..BackoffMax
    BY <1>5, <2>1 DEF Wifi!WifiPass, Wifi!SeesConnected, Wifi!SeesDisconnected
  <2> QED BY <1>5, <2>2, <2>3 DEF Wifi!WifiPass
<1> QED
  BY <1>1, <1>2, <1>3, <1>4, <1>5 DEF Wifi!WifiNext

\* A time some ticks before another is a time.
LEMMA Earlier ==
    ASSUME NEW C \in Nat, C > 0, NEW at \in 0..(C - 1), NEW ticks \in Nat
    PROVE  ((at - ticks) % C) \in 0..(C - 1)
OBVIOUS

\* What the constants of the followed sensor allow.
LEMMA SensorConstants ==
    ASSUME kind \in SensorKinds
    PROVE  /\ MaxAge[kind] \in Nat /\ ReadInterval[kind] \in Nat
           /\ SensorRetry \in Nat /\ MaxStall \in Nat
           /\ Sensors!OldMeasure \in Nat /\ Sensors!Recovery \in Nat
           /\ 0 \in 0..Sensors!OldMeasure /\ 0 \in 0..Sensors!Recovery
           /\ 0 \in 0..(Wrap - 1)
<1>1. /\ MaxAge[kind] \in Nat /\ ReadInterval[kind] \in Nat
      /\ SensorRetry \in Nat /\ MaxStall \in Nat /\ Wrap \in Nat /\ Wrap > 0
  BY SensorAssumption
<1> QED BY <1>1 DEF Sensors!OldMeasure, Sensors!Recovery

\* A count goes on up to its limit.
LEMMA CountsUpTo ==
    ASSUME NEW limit \in Nat, NEW n \in 0..limit
    PROVE  Sensors!UpTo(limit, n + 1) \in 0..limit
BY DEF Sensors!UpTo

\* A driver keeps the types of its fields and of the reading.
LEMMA DriverTypes ==
    ASSUME Sensors!SensorTypeOK, Sensors!SensorPass
    PROVE  /\ {beginMs', readMs', updatedMs'} \subseteq Sensors!Ticks
           /\ {started', valid', plausible'} \subseteq BOOLEAN
           /\ measured' \in 0..Sensors!OldMeasure
<1> USE DEF Sensors!driver, Sensors!reading
<1>1. /\ {sensorNow, beginMs, readMs, updatedMs} \subseteq Sensors!Ticks
      /\ {started, valid, plausible} \subseteq BOOLEAN
      /\ measured \in 0..Sensors!OldMeasure /\ 0 \in 0..Sensors!OldMeasure
      /\ 0 \in Sensors!Ticks
  BY SensorConstants DEF Sensors!SensorTypeOK, Sensors!Ticks
<1> DEFINE Rest == /\ {beginMs', updatedMs'} \subseteq Sensors!Ticks
                   /\ {started', valid', plausible'} \subseteq BOOLEAN
                   /\ measured' \in 0..Sensors!OldMeasure
<1>2. Sensors!StopsResponding => Rest
  BY <1>1 DEF Sensors!StopsResponding, Sensors!Invalidate
<1>3. \A inRange \in BOOLEAN : Sensors!Measure(inRange) => Rest
  BY <1>1 DEF Sensors!Measure
<1>4. Sensors!Unusable => Rest
  BY <1>1 DEF Sensors!Unusable
<1>5. Sensors!Begin => Rest /\ readMs' = readMs
  BY <1>1 DEF Sensors!Begin, Sensors!Invalidate
<1>6. Sensors!Idle => Rest /\ readMs' = readMs
  BY <1>1 DEF Sensors!Idle
<1>7. Sensors!UpdateI2C => Rest /\ readMs' \in Sensors!Ticks
  BY <1>1, <1>2, <1>3, <1>4, <1>5, <1>6
     DEF Sensors!UpdateI2C, Sensors!ReadFaulty
<1>8. Sensors!UpdateDht => Rest /\ readMs' \in Sensors!Ticks
  BY <1>1, <1>3, <1>4, <1>6 DEF Sensors!UpdateDht
<1>9. Sensors!UpdateGps => Rest /\ readMs' \in Sensors!Ticks
  <2>1. ((sensorNow - measured) % Wrap) \in Sensors!Ticks
    BY <1>1, PartConstants, SensorConstants, Earlier
       DEF Sensors!Ticks, Sensors!SensorTypeOK
  <2> QED BY <1>1, <2>1 DEF Sensors!UpdateGps, Sensors!Invalidate
<1> QED BY <1>7, <1>8, <1>9 DEF Sensors!SensorPass

\* A step of the sensor keeps the types of its variables.
LEMMA SensorTypeStep ==
    ASSUME Sensors!SensorTypeOK, [Sensors!SensorNext]_sensorVars
    PROVE  Sensors!SensorTypeOK'
<1>0. kind \in SensorKinds
  BY DEF Sensors!SensorTypeOK
<1>1. CASE UNCHANGED sensorVars
  BY <1>1 DEF sensorVars, Sensors!SensorTypeOK, Sensors!OldMeasure,
              Sensors!Recovery
<1>2. CASE Sensors!SensorTick
  <2>1. sensorNow' \in Sensors!Ticks
    BY <1>2, PartConstants, Later
       DEF Sensors!SensorTick, Sensors!SensorTypeOK, Sensors!Ticks
  <2>2. measured' \in 0..Sensors!OldMeasure /\ goodFor' \in 0..Sensors!Recovery
    BY <1>0, <1>2, SensorConstants, CountsUpTo
       DEF Sensors!SensorTick, Sensors!SensorTypeOK
  <2> QED
    BY <1>2, <2>1, <2>2
       DEF Sensors!SensorTick, Sensors!SensorTypeOK, Sensors!driver,
           Sensors!reading, Sensors!OldMeasure, Sensors!Recovery
<1>3. CASE Sensors!ConditionChanges
  <2>1. goodFor' \in 0..Sensors!Recovery
    BY <1>0, <1>3, SensorConstants DEF Sensors!ConditionChanges
  <2> QED
    BY <1>3, <2>1
       DEF Sensors!ConditionChanges, Sensors!SensorTypeOK, Sensors!driver,
           Sensors!reading, Sensors!OldMeasure, Sensors!Recovery
<1>4. CASE Sensors!SensorPass
  <2>1. sensorReported' \in BOOLEAN
    BY <1>4, DriverTypes DEF Sensors!SensorPass, Sensors!Fresh
  <2> QED
    BY <1>4, <2>1, DriverTypes
       DEF Sensors!SensorPass, Sensors!SensorTypeOK, Sensors!OldMeasure,
           Sensors!Recovery
<1> QED
  BY <1>1, <1>2, <1>3, <1>4 DEF Sensors!SensorNext

\* A nonempty set of naturals has a least element.
LEMMA LeastElement ==
    ASSUME NEW S, S \subseteq Nat, S # {}
    PROVE  \E x \in S : \A y \in S : x <= y
<1>1. PICK x \in S : \A y \in S : ~ (<<y, x>> \in OpToRel(<, Nat))
  BY WFMin, NatLessThanWellFounded
<1>2. \A y \in S : ~ (y < x)
  BY <1>1 DEF OpToRel
<1> QED BY <1>2

\* Counting is the same wherever it is defined.
LEMMA SameCount ==
    ASSUME NEW S
    PROVE  Calibration!Cardinality(S) = Cardinality(S)
BY DEF Calibration!Cardinality, Cardinality

\* The k-th of some samples is one of them: the least pressure that at least k
\* of them do not exceed.
LEMMA RankedIsSample ==
    ASSUME NEW n \in Nat, NEW samples \in [1..n -> Pressures],
           NEW k \in 1..n
    PROVE  Calibration!Ranked(k, samples) \in Pressures
<1> DEFINE Under(v) == {i \in 1..n : samples[i] < v}
           UpTo(v) == {i \in 1..n : samples[i] <= v}
           S == {p \in Nat : k <= Cardinality(UpTo(p))}
<1>1. /\ Pressures \subseteq Nat /\ DOMAIN samples = 1..n
      /\ \A i \in 1..n : samples[i] \in Nat
      /\ IsFiniteSet(1..n) /\ Cardinality(1..n) = n
  <2>1. Pressures \subseteq Nat
    BY CalibrationAssumption
  <2>2. IsFiniteSet(1..n) /\ Cardinality(1..n) = n
    BY FS_Interval
  <2> QED BY <2>1, <2>2
<1>2. S # {}
  <2>1. PICK top \in Pressures : \A p \in Pressures : p <= top
    BY CalibrationAssumption
  <2>2. UpTo(top) = 1..n
    <3>1. \A i \in 1..n : samples[i] <= top
      BY <2>1
    <3> QED BY <3>1
  <2>3. k <= Cardinality(UpTo(top)) /\ top \in Nat
    <3> HIDE DEF UpTo
    <3> QED BY <1>1, <2>1, <2>2
  <2> QED BY <2>3
<1>3. PICK v \in S : \A p \in S : v <= p
  <2> HIDE DEF S
  <2>1. S \subseteq Nat
    BY DEF S
  <2> QED BY <1>2, <2>1, LeastElement
<1>4. v \in Nat /\ k <= Cardinality(UpTo(v))
  BY <1>3
<1>5. Cardinality(Under(v)) < k
  <2>1. CASE v = 0
    <3>1. Under(v) = {}
      BY <1>1, <2>1
    <3> QED BY <3>1, FS_EmptySet
  <2>2. CASE v > 0
    <3>1. v - 1 \in Nat /\ ~(v <= v - 1)
      BY <1>4, <2>2
    <3>2. v - 1 \notin S
      BY <1>3, <3>1
    <3>3. Under(v) = UpTo(v - 1)
      <4>1. \A i \in 1..n : samples[i] < v <=> samples[i] <= v - 1
        BY <1>1, <1>4
      <4> QED BY <4>1
    <3>4. Cardinality(UpTo(v - 1)) \in Nat
      <4>1. UpTo(v - 1) \in SUBSET (1..n)
        BY <1>1
      <4> HIDE DEF UpTo
      <4> QED BY <1>1, <4>1, FS_Subset, FS_CardinalityType
    <3>5. ~(k <= Cardinality(UpTo(v - 1)))
      BY <3>1, <3>2
    <3> HIDE DEF UpTo, Under
    <3> QED BY <3>3, <3>4, <3>5
  <2> QED BY <1>4, <2>1, <2>2
<1>6. v \in {samples[i] : i \in DOMAIN samples}
  <2>1. Under(v) # UpTo(v)
    <3>1. Cardinality(Under(v)) \in Nat
      <4>1. Under(v) \in SUBSET (1..n)
        BY <1>1
      <4> HIDE DEF Under
      <4> QED BY <1>1, <4>1, FS_Subset, FS_CardinalityType
    <3> HIDE DEF Under, UpTo
    <3> QED BY <1>4, <1>5, <3>1
  <2>2. PICK i \in DOMAIN samples : samples[i] <= v /\ ~(samples[i] < v)
    BY <1>1, <1>4, <2>1
  <2>3. samples[i] = v
    BY <1>1, <1>4, <2>2
  <2> QED BY <2>3
<1>7. Calibration!Ranked(k, samples) \in {samples[i] : i \in DOMAIN samples}
  <2> DEFINE R(w) == Cardinality(Under(w)) < k /\ k <= Cardinality(UpTo(w))
             V == {samples[i] : i \in DOMAIN samples}
  <2>1. Calibration!Ranked(k, samples) = CHOOSE w \in V : R(w)
    BY <1>1, SameCount DEF Calibration!Ranked
  <2>2. \E w \in V : R(w)
    BY <1>4, <1>5, <1>6
  <2> HIDE DEF R, V
  <2>3. (CHOOSE w \in V : R(w)) \in V
    BY <2>2, Zenon
  <2> QED BY <2>1, <2>3 DEF V
<1> QED BY <1>1, <1>7

\* The median of enough samples is the sum of two pressures.
LEMMA MedianIsCandidate ==
    ASSUME NEW samples \in Seq(Pressures), Len(samples) > 0
    PROVE  \E p, q \in Pressures : Calibration!Median(samples) = p + q
<1> DEFINE n == Len(samples)
           middle == n \div 2
<1>1. n \in Nat /\ n > 0
  OBVIOUS
<1>2. /\ middle + 1 \in 1..n
      /\ n % 2 = 0 => middle \in 1..n
  BY <1>1
<1>3. samples \in [1..n -> Pressures]
  BY LenProperties
<1>4. /\ Calibration!Ranked(middle + 1, samples) \in Pressures
      /\ n % 2 = 0 => Calibration!Ranked(middle, samples) \in Pressures
  <2> HIDE DEF n, middle
  <2> QED BY <1>1, <1>2, <1>3, RankedIsSample
<1>5. \A p \in Pressures : 2 * p = p + p
  BY CalibrationAssumption
<1> QED BY <1>4, <1>5 DEF Calibration!Median

\* A step of the calibration keeps the types of its variables.
LEMMA CalTypeStep ==
    ASSUME Calibration!CalTypeOK, CalInv, CalInv',
           [Calibration!CalNext]_calVars
    PROVE  Calibration!CalTypeOK'
<1> DEFINE RunTypes(r) == /\ r.samples \in Seq(Pressures)
                          /\ Len(r.samples) <= MaxSamples
                          /\ r.gps \in 0..Len(r.samples)
                          /\ r.steady \in BOOLEAN
           SamplingTypes == /\ RunTypes(run)
                            /\ {durationOver, resultsReady} \subseteq BOOLEAN
                            /\ offered \subseteq Calibration!Candidates
           StoreTypes == /\ {allWritten, clearFailed, reported}
                               \subseteq BOOLEAN
                         /\ toSave \in Calibration!Candidates
                                         \cup {Calibration!Default}
                         /\ saves \in 0..MaxSaves
<1>1. /\ MinSamples \in Nat /\ MaxSamples \in Nat /\ MaxSaves \in Nat
      /\ MinSamples > 0
  BY CalibrationAssumption
<1>2. DOMAIN flash' \subseteq Calibration!Keys /\ Len(saving') <= 4
  <2>1. /\ Len(AtClear) = 4 /\ Len(AtVersion) = 3 /\ Len(AtPressure) = 2
        /\ Len(AtSource) = 1 /\ Len(<<>>) = 0
    BY DEF AtClear, AtVersion, AtPressure, AtSource
  <2>2. saving' \in {<<>>, AtClear, AtVersion, AtPressure, AtSource}
    BY DEF CalInv, SaveUnderWay, AtClear, AtVersion, AtPressure, AtSource
  <2>3. Len(saving') \in {0, 1, 2, 3, 4}
    BY <2>1, <2>2, Zenon
  <2>4. Len(saving') <= 4
    <3>1. \A n \in {0, 1, 2, 3, 4} : n <= 4
      OBVIOUS
    <3> QED BY <2>3, <3>1, Zenon
  <2>5. DOMAIN flash' \subseteq Calibration!Keys'
    BY DEF CalInv
  <2>6. Calibration!Keys' = Calibration!Keys
    BY DEF Calibration!Keys
  <2> QED BY <2>4, <2>5, <2>6
<1>3. /\ SamplingTypes /\ StoreTypes
      /\ Calibration!Candidates' = Calibration!Candidates
      /\ Calibration!Default' = Calibration!Default
  BY DEF Calibration!CalTypeOK, Calibration!Candidates, Calibration!Default,
         Calibration!Origins
<1>4. SamplingTypes' /\ StoreTypes' => Calibration!CalTypeOK'
  BY <1>2, <1>3 DEF Calibration!CalTypeOK, Calibration!Keys
<1>5. UNCHANGED Calibration!sampling => SamplingTypes'
  BY <1>3 DEF Calibration!sampling
<1>6. UNCHANGED Calibration!store => StoreTypes'
  BY <1>3 DEF Calibration!store
<1>7. RunTypes(Calibration!NoRun)
  BY <1>1, EmptySeq DEF Calibration!NoRun
<1>8. CASE UNCHANGED calVars
  BY <1>4, <1>5, <1>6, <1>8
     DEF calVars, Calibration!sampling, Calibration!store
<1>9. CASE Calibration!DurationPasses
  <2>1. SamplingTypes'
    BY <1>3, <1>9 DEF Calibration!DurationPasses
  <2> QED BY <1>4, <1>6, <1>9, <2>1 DEF Calibration!DurationPasses
<1>10. ASSUME NEW sampled, RunTypes(sampled), Calibration!SamplingPass(sampled)
       PROVE  Calibration!CalTypeOK'
  <2>1. ASSUME Calibration!Enough(sampled), NEW v \in SUBSET Calibration!Origins
        PROVE  Calibration!Offer(sampled, v) \subseteq Calibration!Candidates
    <3>1. Len(sampled.samples) > 0
      BY <1>1, <1>10, <2>1 DEF Calibration!Enough
    <3>2. PICK p \in Pressures, q \in Pressures :
             Calibration!Median(sampled.samples) = p + q
      BY <1>10, <3>1, MedianIsCandidate
    <3> QED
      BY <3>2 DEF Calibration!Offer, Calibration!Candidates
  <2>2. SamplingTypes'
    BY <1>3, <1>7, <1>10, <2>1
       DEF Calibration!SamplingPass
  <2> QED BY <1>4, <1>6, <1>10, <2>2 DEF Calibration!SamplingPass
<1>11. ASSUME NEW p \in Pressures, NEW gpsGood \in BOOLEAN, NEW near \in BOOLEAN
       PROVE  RunTypes(Calibration!Collected(p, gpsGood, near))
  <2> DEFINE more == Append(run.samples, p)
  <2>1. more \in Seq(Pressures) /\ Len(more) = Len(run.samples) + 1
    BY <1>3, AppendProperties
  <2>2. Len(run.samples) \in Nat
    BY <1>3
  <2>3. CASE Len(run.samples) = MaxSamples
    BY <1>3, <2>3 DEF Calibration!Collected
  <2>4. CASE Len(run.samples) # MaxSamples
    <3> HIDE DEF more
    <3>1. Calibration!Collected(p, gpsGood, near)
            = [samples |-> more, gps |-> run.gps + (IF gpsGood THEN 1 ELSE 0),
               steady |-> run.steady /\ (gpsGood => near)]
      BY <2>4 DEF Calibration!Collected, more
    <3>2. run.gps + (IF gpsGood THEN 1 ELSE 0) \in 0..Len(more)
      BY <1>3, <2>1, <2>2
    <3>3. Len(more) <= MaxSamples
      BY <1>1, <1>3, <2>1, <2>2, <2>4
    <3> QED BY <2>1, <3>1, <3>2, <3>3
  <2> QED BY <2>3, <2>4
<1>12. ASSUME NEW c \in Calibration!Candidates, Calibration!SaveCommand(c)
       PROVE  Calibration!CalTypeOK'
  <2>1. saves' \in 0..MaxSaves
    BY <1>1, <1>3, <1>12 DEF Calibration!SaveCommand
  <2>2. toSave' \in Calibration!Candidates'
    BY <1>3, <1>12 DEF Calibration!SaveCommand
  <2>3. {allWritten', clearFailed', reported'} \subseteq BOOLEAN
    BY <1>3, <1>12 DEF Calibration!SaveCommand
  <2> QED BY <1>4, <1>5, <1>12, <2>1, <2>2, <2>3 DEF Calibration!SaveCommand
<1>13. ASSUME NEW ok \in BOOLEAN, NEW erased,
              \/ Calibration!SaveClears(ok, erased)
              \/ Calibration!SavePuts(ok)
              \/ Calibration!ClearCommand(ok, erased)
       PROVE  Calibration!CalTypeOK'
  <2>1. saves' \in 0..MaxSaves
    BY <1>1, <1>3, <1>13
       DEF Calibration!SaveClears, Calibration!SavePuts,
           Calibration!ClearCommand
  <2>2. toSave' = toSave
    BY <1>13
       DEF Calibration!SaveClears, Calibration!SavePuts,
           Calibration!ClearCommand
  <2>3. {allWritten', clearFailed', reported'} \subseteq BOOLEAN
    BY <1>3, <1>13
       DEF Calibration!SaveClears, Calibration!SavePuts,
           Calibration!ClearCommand
  <2> QED
    BY <1>3, <1>4, <1>5, <1>13, <2>1, <2>2, <2>3
       DEF Calibration!SaveClears, Calibration!SavePuts,
           Calibration!ClearCommand
<1>14. ASSUME NEW erased, Calibration!PowerFails(erased)
       PROVE  Calibration!CalTypeOK'
  <2>1. StoreTypes'
    BY <1>3, <1>14
       DEF Calibration!PowerFails
  <2>2. SamplingTypes'
    BY <1>7, <1>14 DEF Calibration!PowerFails
  <2> QED BY <1>4, <2>1, <2>2
<1> HIDE DEF RunTypes
<1> QED
  BY <1>3, <1>8, <1>9, <1>10, <1>11, <1>12, <1>13, <1>14
     DEF Calibration!CalNext

\* A step of the device is a step of the command buffer or leaves it alone.
LEMMA InboxStep ==
    ASSUME [ModeNext]_deviceVars
    PROVE  [Next]_vars
<1>1. CASE UNCHANGED deviceVars
  BY <1>1 DEF deviceVars, vars
<1>2. CASE ModeNext
  <2>1. CASE part = "commands"
    BY <1>2, <2>1 DEF ModeNext, PartNext, SensorKinds, TestOf
  <2>2. CASE part # "commands"
    BY <1>2, <2>2 DEF ModeNext, RestBut
  <2> QED
    BY <2>1, <2>2
<1> QED
  BY <1>1, <1>2

\* The microphone calls a window what the classifier calls it.
LEMMA MicSameRules ==
    ASSUME NEW f
    PROVE  Mic!Classify(f) = Classify(f)
<1> USE DEF Mic!Low, Low, Mic!Middle, Middle, Mic!Presence, Presence,
            Mic!High, High, Mic!Least, Least, Mic!Greatest, Greatest,
            Mic!Within, Within
<1>1. Mic!LowRumble(f) <=> LowRumble(f)
  BY Zenon DEF Mic!LowRumble, LowRumble
<1>2. Mic!StrictHorn(f) <=> StrictHorn(f)
  BY Zenon DEF Mic!StrictHorn, StrictHorn
<1>3. Mic!ExternalHorn(f) <=> ExternalHorn(f)
  BY Zenon DEF Mic!ExternalHorn, ExternalHorn
<1>4. Mic!OwnHorn(f) <=> OwnHorn(f)
  BY Zenon DEF Mic!OwnHorn, OwnHorn
<1>5. Mic!Siren(f) <=> Siren(f)
  BY Zenon DEF Mic!Siren, Siren
<1>6. Mic!Speech(f) <=> Speech(f)
  BY Zenon DEF Mic!Speech, Speech
<1>7. Mic!Traffic(f) <=> Traffic(f)
  BY Zenon DEF Mic!Traffic, Traffic
<1>8. Mic!Music(f) <=> Music(f)
  BY Zenon DEF Mic!Music, Music
<1>9. \A category, confidence :
         Mic!Result(category, confidence) = Result(category, confidence)
  BY Zenon DEF Mic!Result, Result
<1> QED
  BY <1>1, <1>2, <1>3, <1>4, <1>5, <1>6, <1>7, <1>8, <1>9
     DEF Mic!Classify, Classify

\* So does the evaluator's microphone.
LEMMA AlertsSameRules ==
    ASSUME NEW f
    PROVE  Alerts!Classify(f) = Classify(f)
<1> USE DEF Alerts!Low, Low, Alerts!Middle, Middle, Alerts!Presence, Presence,
            Alerts!High, High, Alerts!Least, Least, Alerts!Greatest, Greatest,
            Alerts!Within, Within
<1>1. Alerts!LowRumble(f) <=> LowRumble(f)
  BY Zenon DEF Alerts!LowRumble, LowRumble
<1>2. Alerts!StrictHorn(f) <=> StrictHorn(f)
  BY Zenon DEF Alerts!StrictHorn, StrictHorn
<1>3. Alerts!ExternalHorn(f) <=> ExternalHorn(f)
  BY Zenon DEF Alerts!ExternalHorn, ExternalHorn
<1>4. Alerts!OwnHorn(f) <=> OwnHorn(f)
  BY Zenon DEF Alerts!OwnHorn, OwnHorn
<1>5. Alerts!Siren(f) <=> Siren(f)
  BY Zenon DEF Alerts!Siren, Siren
<1>6. Alerts!Speech(f) <=> Speech(f)
  BY Zenon DEF Alerts!Speech, Speech
<1>7. Alerts!Traffic(f) <=> Traffic(f)
  BY Zenon DEF Alerts!Traffic, Traffic
<1>8. Alerts!Music(f) <=> Music(f)
  BY Zenon DEF Alerts!Music, Music
<1>9. \A category, confidence :
         Alerts!Result(category, confidence) = Result(category, confidence)
  BY Zenon DEF Alerts!Result, Result
<1> QED
  BY <1>1, <1>2, <1>3, <1>4, <1>5, <1>6, <1>7, <1>8, <1>9
     DEF Alerts!Classify, Classify

\* What is published of a window that has features is a reading of that time,
\* and so is a void one.
LEMMA MicReadings ==
    ASSUME NEW f \in Mic!Features, NEW at \in Nat
    PROVE  /\ Mic!Published(f, at) \in Mic!Readings
           /\ Mic!Published(f, at).updatedAtMs = at
<1>1. f \in Features
  BY DEF Mic!Features, Features, Mic!Bands, Bands
<1>2. /\ f.valid \in BOOLEAN /\ f.signalResponsive \in BOOLEAN
      /\ f.level \in Int /\ f.clippingRatio \in Int
  BY DEF Mic!Features
<1>3. /\ Mic!Classify(f).category \in Mic!Categories
      /\ Mic!Classify(f).confidence \in 0..850
  BY <1>1, MicSameRules, ClassifyType DEF Mic!Categories, Categories
<1> QED BY <1>2, <1>3 DEF Mic!Published, Mic!Readings

\* The same, for the reading the evaluator looks at.
LEMMA AlertReadings ==
    ASSUME NEW f \in Mic!Features, NEW at \in Nat
    PROVE  /\ Alerts!Published(f, at) \in Alerts!Readings
           /\ Alerts!Published(f, at).updatedAtMs = at
<1>1. f \in Features
  BY DEF Mic!Features, Features, Mic!Bands, Bands
<1>2. /\ f.valid \in BOOLEAN /\ f.signalResponsive \in BOOLEAN
      /\ f.level \in Int /\ f.clippingRatio \in Int
  BY DEF Mic!Features
<1>3. /\ Alerts!Classify(f).category \in Alerts!Categories
      /\ Alerts!Classify(f).confidence \in 0..850
  BY <1>1, AlertsSameRules, ClassifyType DEF Alerts!Categories, Categories
<1> QED BY <1>2, <1>3 DEF Alerts!Published, Alerts!Readings

\* A reading that is void is a reading.
LEMMA VoidReadings ==
    ASSUME NEW at \in Nat
    PROVE  /\ Mic!NoReading(at) \in Mic!Readings
           /\ Mic!NoReading(at).updatedAtMs = at
           /\ Alerts!NoReading(at) \in Alerts!Readings
           /\ Alerts!NoReading(at).updatedAtMs = at
           /\ \A record \in Mic!Readings :
                 /\ Mic!Voided(record) \in Mic!Readings
                 /\ Mic!Voided(record).updatedAtMs = record.updatedAtMs
           /\ \A record \in Alerts!Readings :
                 /\ Alerts!Voided(record) \in Alerts!Readings
                 /\ Alerts!Voided(record).updatedAtMs = record.updatedAtMs
<1> USE DEF Mic!Categories, Alerts!Categories
<1>1. /\ Mic!NoReading(at) \in Mic!Readings
      /\ Mic!NoReading(at).updatedAtMs = at
  BY DEF Mic!NoReading, Mic!Readings
<1>2. /\ Alerts!NoReading(at) \in Alerts!Readings
      /\ Alerts!NoReading(at).updatedAtMs = at
  BY DEF Alerts!NoReading, Alerts!Readings
<1>3. ASSUME NEW record \in Mic!Readings
      PROVE  /\ Mic!Voided(record) \in Mic!Readings
             /\ Mic!Voided(record).updatedAtMs = record.updatedAtMs
  <2> DEFINE off == [record EXCEPT !.microphoneValid = FALSE]
             raw == [off EXCEPT !.analysisValid = FALSE]
             unknown == [raw EXCEPT !.category = "unknown"]
             unsure == [unknown EXCEPT !.confidence = 0]
  <2>1. off \in Mic!Readings
    BY DEF Mic!Readings
  <2> HIDE DEF off
  <2>2. raw \in Mic!Readings
    BY <2>1 DEF Mic!Readings
  <2> HIDE DEF raw
  <2>3. unknown \in Mic!Readings
    BY <2>2 DEF Mic!Readings
  <2> HIDE DEF unknown
  <2>4. unsure \in Mic!Readings
    BY <2>3 DEF Mic!Readings
  <2>5. Mic!Voided(record) = unsure
    BY DEF Mic!Voided, off, raw, unknown
  <2>6. Mic!Voided(record).updatedAtMs = record.updatedAtMs
    BY DEF Mic!Voided, Mic!Readings
  <2> QED BY <2>4, <2>5, <2>6
<1>4. ASSUME NEW record \in Alerts!Readings
      PROVE  /\ Alerts!Voided(record) \in Alerts!Readings
             /\ Alerts!Voided(record).updatedAtMs = record.updatedAtMs
  <2> DEFINE off == [record EXCEPT !.microphoneValid = FALSE]
             raw == [off EXCEPT !.analysisValid = FALSE]
             unknown == [raw EXCEPT !.category = "unknown"]
             unsure == [unknown EXCEPT !.confidence = 0]
  <2>1. off \in Alerts!Readings
    BY DEF Alerts!Readings
  <2> HIDE DEF off
  <2>2. raw \in Alerts!Readings
    BY <2>1 DEF Alerts!Readings
  <2> HIDE DEF raw
  <2>3. unknown \in Alerts!Readings
    BY <2>2 DEF Alerts!Readings
  <2> HIDE DEF unknown
  <2>4. unsure \in Alerts!Readings
    BY <2>3 DEF Alerts!Readings
  <2>5. Alerts!Voided(record) = unsure
    BY DEF Alerts!Voided, off, raw, unknown
  <2>6. Alerts!Voided(record).updatedAtMs = record.updatedAtMs
    BY DEF Alerts!Voided, Alerts!Readings
  <2> QED BY <2>4, <2>5, <2>6
<1> QED BY <1>1, <1>2, <1>3, <1>4

\* A window never counts more frames that are valid, or that answer, than it
\* has.
MicTypes ==
    Mic!MicTypeOK /\ window.valid <= window.frames
                  /\ window.responsive <= window.frames

\* What the constants of the microphone's windows allow.
LEMMA WindowConstants ==
    /\ TargetFrames \in Nat /\ TargetFrames > 0
    /\ MaxReadFailures \in Nat /\ MaxReadFailures > 0
    /\ Mic!OldAge \in Nat
    /\ 0 \in 0..(MaxReadFailures - 1) /\ 0 \in 0..Mic!OldAge
    /\ 0 \in 0..(TargetFrames - 1)
<1>1. TargetFrames \in Nat /\ TargetFrames > 0
  BY WindowAssumption
<1>2. MaxReadFailures \in Nat /\ MaxReadFailures > 0
  BY WindowAssumption
<1>3. Mic!OldAge \in Nat
  BY MicConstants DEF Mic!OldAge
<1> QED BY <1>1, <1>2, <1>3

\* What the audio task works on and what it stores.
WindowTypes ==
    /\ window \in [frames : 0..(TargetFrames - 1),
                   valid : 0..(TargetFrames - 1),
                   responsive : 0..(TargetFrames - 1)]
    /\ window.valid <= window.frames /\ window.responsive <= window.frames
StoredTypes ==
    /\ data \in Mic!Readings /\ data.updatedAtMs \in Mic!Ticks
    /\ stored \in Mic!Readings /\ stored.updatedAtMs \in Mic!Ticks
    /\ age \in 0..Mic!OldAge

MicRest ==
    /\ micNow \in Mic!Ticks /\ micStarted \in BOOLEAN /\ micBeginMs \in Mic!Ticks
    /\ readFailures \in 0..(MaxReadFailures - 1)
    /\ loopAt \in {"start", "mic", "report"} /\ loopMs \in Mic!Ticks
    /\ micReported \in BOOLEAN

\* These are the parts of the type invariant.
LEMMA MicParts == MicTypes <=> WindowTypes /\ StoredTypes /\ MicRest
BY DEF MicTypes, Mic!MicTypeOK, WindowTypes, StoredTypes, MicRest

\* A window that gathers a frame keeps its count.
LEMMA FrameGathered ==
    ASSUME WindowTypes, NEW responsive \in BOOLEAN,
           NEW next, next = Mic!AddFrame(window, TRUE, responsive),
           next.frames < TargetFrames
    PROVE  /\ next \in [frames : 0..(TargetFrames - 1),
                        valid : 0..(TargetFrames - 1),
                        responsive : 0..(TargetFrames - 1)]
           /\ next.valid <= next.frames /\ next.responsive <= next.frames
<1>1. /\ window.frames \in Nat /\ window.valid \in Nat
      /\ window.responsive \in Nat
      /\ window.valid <= window.frames /\ window.responsive <= window.frames
  BY WindowConstants DEF WindowTypes
<1>2. next = [frames |-> window.frames + 1, valid |-> window.valid + 1,
              responsive |-> IF responsive THEN window.responsive + 1
                             ELSE window.responsive]
  BY DEF Mic!AddFrame
<1>3. window.frames + 1 < TargetFrames
  <2>1. next.frames = window.frames + 1
    BY DEF Mic!AddFrame
  <2> QED BY <2>1
<1>4. /\ window.frames + 1 \in 0..(TargetFrames - 1)
      /\ window.valid + 1 \in 0..(TargetFrames - 1)
      /\ window.valid + 1 <= window.frames + 1
      /\ window.responsive + 1 \in 0..(TargetFrames - 1)
      /\ window.responsive + 1 <= window.frames + 1
      /\ window.responsive \in 0..(TargetFrames - 1)
      /\ window.responsive <= window.frames + 1
  BY <1>1, <1>3, WindowConstants
<1>5. /\ next.frames = window.frames + 1 /\ next.valid = window.valid + 1
      /\ next.responsive = IF responsive THEN window.responsive + 1
                           ELSE window.responsive
  BY DEF Mic!AddFrame
<1>6. next.valid <= next.frames /\ next.responsive <= next.frames
  BY <1>4, <1>5
<1>7. (IF responsive THEN window.responsive + 1 ELSE window.responsive)
         \in 0..(TargetFrames - 1)
  BY <1>4
<1>8. next \in [frames : 0..(TargetFrames - 1),
                valid : 0..(TargetFrames - 1),
                responsive : 0..(TargetFrames - 1)]
  <2> DEFINE r == IF responsive THEN window.responsive + 1
                 ELSE window.responsive
             f == window.frames + 1
             v == window.valid + 1
  <2>1. next = [frames |-> f, valid |-> v, responsive |-> r]
    BY <1>2
  <2>2. {f, v, r} \subseteq 0..(TargetFrames - 1)
    BY <1>4, <1>7
  <2> HIDE DEF f, v, r
  <2>3. [frames |-> f, valid |-> v, responsive |-> r]
           \in [frames : 0..(TargetFrames - 1),
               valid : 0..(TargetFrames - 1),
               responsive : 0..(TargetFrames - 1)]
    BY <2>2
  <2> QED BY <2>1, <2>3
<1> QED BY <1>6, <1>8

\* A record stored now keeps the types.
LEMMA StoreTypes ==
    ASSUME MicTypes, NEW record \in Mic!Readings, record.updatedAtMs = micNow,
           Mic!Store(record)
    PROVE  StoredTypes'
BY WindowConstants DEF MicTypes, Mic!MicTypeOK, Mic!Store, StoredTypes,
   Mic!Ticks, Mic!OldAge, Mic!Readings, Mic!Categories

\* A step of the microphone keeps the types of its variables.
LEMMA MicTypeStep ==
    ASSUME MicTypes, [Mic!MicNext]_micVars
    PROVE  MicTypes'
<1>1. WindowTypes /\ StoredTypes /\ MicRest
  BY MicParts
<1>2. WindowTypes' /\ StoredTypes' /\ MicRest' => MicTypes'
  BY DEF MicTypes, Mic!MicTypeOK, WindowTypes, StoredTypes, MicRest
<1>3. UNCHANGED window => WindowTypes'
  BY <1>1 DEF WindowTypes
<1>4. UNCHANGED <<data, stored, age>> => StoredTypes'
  BY <1>1 DEF StoredTypes, Mic!Ticks, Mic!OldAge, Mic!Readings, Mic!Categories
<1>5. /\ 0 \in Mic!Ticks /\ micNow \in Nat
  BY <1>1, MicConstants DEF Mic!Ticks, MicRest
<1>6. CASE UNCHANGED micVars
  <2>1. MicRest'
    BY <1>1, <1>6 DEF MicRest, micVars, Mic!Ticks
  <2> QED BY <1>2, <1>3, <1>4, <1>6, <2>1 DEF micVars
<1>7. CASE Mic!MicTick
  <2>1. micNow' \in Mic!Ticks
    BY <1>1, <1>7, MicConstants, Later DEF Mic!MicTick, MicRest, Mic!Ticks
  <2>2. age' \in 0..Mic!OldAge
    BY <1>1, <1>7, WindowConstants DEF Mic!MicTick, StoredTypes, Mic!Least
  <2>3. MicRest'
    BY <1>1, <1>7, <2>1
       DEF MicRest, Mic!MicTick, Mic!driver, Mic!loop, Mic!Ticks
  <2>4. StoredTypes'
    BY <1>1, <1>7, <2>2
       DEF StoredTypes, Mic!MicTick, Mic!Ticks, Mic!OldAge, Mic!Readings,
           Mic!Categories
  <2> QED BY <1>2, <1>3, <1>7, <2>3, <2>4 DEF Mic!MicTick
<1>8. /\ Mic!NoReading(micNow) \in Mic!Readings
      /\ Mic!NoReading(micNow).updatedAtMs = micNow
  BY <1>5, VoidReadings
<1>9. CASE Mic!ReadFails
  <2>1. MicRest'
    BY <1>1, <1>9, WindowConstants
       DEF MicRest, Mic!ReadFails, Mic!driver, Mic!loop, Mic!Ticks
  <2>2. StoredTypes'
    BY <1>4, <1>8, <1>9, StoreTypes DEF Mic!ReadFails
  <2> QED BY <1>2, <1>3, <1>9, <2>1, <2>2 DEF Mic!ReadFails
<1>10. CASE Mic!PartialRead
  <2>1. MicRest'
    BY <1>1, <1>10, WindowConstants
       DEF MicRest, Mic!PartialRead, Mic!driver, Mic!loop, Mic!Ticks
  <2> QED BY <1>2, <1>3, <1>4, <1>10, <2>1 DEF Mic!PartialRead
<1>11. CASE Mic!FrameRejected
  <2>1. MicRest'
    BY <1>1, <1>11, WindowConstants
       DEF MicRest, Mic!FrameRejected, Mic!driver, Mic!loop, Mic!Ticks
  <2>2. StoredTypes'
    BY <1>8, <1>11, StoreTypes DEF Mic!FrameRejected
  <2> QED BY <1>2, <1>3, <1>11, <2>1, <2>2 DEF Mic!FrameRejected
<1>12. ASSUME NEW responsive \in BOOLEAN, NEW sound \in Sounds,
              Mic!FrameAdded(responsive, sound)
       PROVE  MicTypes'
  <2> DEFINE next == Mic!AddFrame(window, TRUE, responsive)
             aggregate ==
                [sound EXCEPT
                    !.valid = Mic!AggregateValid(next, TargetFrames),
                    !.signalResponsive =
                        Mic!AggregateResponsive(next, TargetFrames)]
  <2>1. MicRest'
    BY <1>1, <1>12, WindowConstants
       DEF MicRest, Mic!FrameAdded, Mic!driver, Mic!loop, Mic!Ticks
  <2>2. CASE next.frames < TargetFrames
    <3>1. window' = next /\ UNCHANGED <<data, stored, age>>
      BY <1>12, <2>2 DEF Mic!FrameAdded
    <3>2. WindowTypes'
      BY <1>1, <2>2, <3>1, FrameGathered DEF WindowTypes
    <3> QED BY <1>2, <1>4, <2>1, <3>1, <3>2
  <2>3. CASE ~(next.frames < TargetFrames)
    <3>1. /\ window' = Mic!EmptyWindow
          /\ Mic!Store(Mic!Published(aggregate, micNow))
      BY <1>12, <2>3 DEF Mic!FrameAdded
    <3>2. WindowTypes'
      BY <3>1, WindowConstants DEF WindowTypes, Mic!EmptyWindow
    <3>3. aggregate \in Mic!Features
      <4>1. /\ Mic!AggregateValid(next, TargetFrames) \in BOOLEAN
            /\ Mic!AggregateResponsive(next, TargetFrames) \in BOOLEAN
        BY DEF Mic!AggregateValid, Mic!AggregateResponsive
      <4>2. sound \in Mic!Features
        BY WindowAssumption
      <4> HIDE DEF next
      <4>3. \A f \in Mic!Features, b \in BOOLEAN :
               /\ [f EXCEPT !.valid = b] \in Mic!Features
               /\ [f EXCEPT !.signalResponsive = b] \in Mic!Features
        BY DEF Mic!Features
      <4> QED BY <4>1, <4>2, <4>3
    <3> HIDE DEF aggregate
    <3>4. StoredTypes'
      BY <1>5, <3>1, <3>3, MicReadings, StoreTypes
    <3> QED BY <1>2, <2>1, <3>2, <3>4
  <2> QED BY <2>2, <2>3
<1>13. CASE Mic!MicPassStarts
  <2>1. MicRest'
    BY <1>1, <1>13 DEF MicRest, Mic!MicPassStarts, Mic!driver, Mic!Ticks
  <2> QED BY <1>2, <1>3, <1>4, <1>13, <2>1 DEF Mic!MicPassStarts
<1>14. ASSUME NEW begun \in BOOLEAN, Mic!MicRetries(begun)
       PROVE  MicTypes'
  <2>1. MicRest'
    BY <1>1, <1>5, <1>14 DEF MicRest, Mic!MicRetries, Mic!driver, Mic!Ticks
  <2> QED BY <1>2, <1>3, <1>4, <1>14, <2>1 DEF Mic!MicRetries
<1>15. CASE Mic!MicUpdate
  <2>1. MicRest'
    BY <1>1, <1>15 DEF MicRest, Mic!MicUpdate, Mic!driver, Mic!Ticks
  <2>2. data' \in Mic!Readings /\ data'.updatedAtMs \in Mic!Ticks
    BY <1>1, <1>5, <1>15, VoidReadings DEF Mic!MicUpdate, StoredTypes
  <2>3. StoredTypes'
    BY <1>1, <1>15, <2>2
       DEF StoredTypes, Mic!MicUpdate, Mic!Ticks, Mic!OldAge, Mic!Readings,
           Mic!Categories
  <2> QED BY <1>2, <1>3, <1>15, <2>1, <2>3 DEF Mic!MicUpdate
<1>16. CASE Mic!MicSnapshot
  <2>1. MicRest'
    <3>1. data.microphoneValid \in BOOLEAN
      BY <1>1 DEF StoredTypes, Mic!Readings
    <3>2. micReported' \in BOOLEAN
      BY <1>16, <3>1 DEF Mic!MicSnapshot
    <3> QED
      BY <1>1, <1>16, <3>2 DEF MicRest, Mic!MicSnapshot, Mic!driver, Mic!Ticks
  <2> QED BY <1>2, <1>3, <1>4, <1>16, <2>1 DEF Mic!MicSnapshot
<1> QED
  BY <1>6, <1>7, <1>9, <1>10, <1>11, <1>12, <1>13, <1>14, <1>15, <1>16
     DEF Mic!MicNext

\* A step of the evaluator keeps the types of its variables.
LEMMA AlertTypeStep ==
    ASSUME Alerts!AlertTypeOK, AlertInv, AlertInv',
           [Alerts!AlertNext]_alertVars
    PROVE  Alerts!AlertTypeOK'
<1> DEFINE LatestTypes == /\ latest \in Alerts!Readings
                          /\ latest.updatedAtMs \in Alerts!Ticks
           RestTypes == /\ processedMs \in Alerts!Ticks
                        /\ alert \in [active : BOOLEAN, triggered : BOOLEAN,
                                      eventType : Alerts!EventTypes]
                        /\ eventOut \in {"none", "published", "dropped"}
           Bounded == heard.ticks <= AlertDuration /\ quiet <= AlertCooldown
<1>1. /\ LatestTypes /\ RestTypes /\ Bounded
      /\ alertNow \in 0..(AlertWrap - 1) /\ alertNow \in Nat
      /\ heard.ticks \in Nat /\ quiet \in Nat
      /\ Alerts!Readings' = Alerts!Readings /\ Alerts!Ticks' = Alerts!Ticks
      /\ Alerts!EventTypes' = Alerts!EventTypes
  <2>1. /\ Alerts!Readings' = Alerts!Readings /\ Alerts!Ticks' = Alerts!Ticks
        /\ Alerts!EventTypes' = Alerts!EventTypes
    BY DEF Alerts!Ticks, Alerts!Readings, Alerts!Categories, Alerts!EventTypes
  <2>2. LatestTypes /\ RestTypes
    BY DEF Alerts!AlertTypeOK
  <2>3. alertNow \in 0..(AlertWrap - 1) /\ alertNow \in Nat
    BY AlertConstants DEF Alerts!AlertTypeOK, Alerts!Ticks
  <2>4. heard.ticks \in 0..AlertDuration /\ quiet \in 0..AlertCooldown
    BY DEF Alerts!AlertTypeOK
  <2>5. Bounded /\ heard.ticks \in Nat /\ quiet \in Nat
    BY <2>4, AlertConstants
  <2> QED BY <2>1, <2>2, <2>3, <2>5
<1>2. ASSUME LatestTypes', RestTypes', Bounded'
      PROVE  Alerts!AlertTypeOK'
  <2>1. AlertTimes'
    BY DEF AlertInv
  <2>2. heard' \in [type : Alerts!EventTypes, ticks : 0..AlertDuration]
    <3>1. heard' \in [type : Alerts!EventTypes, ticks : Nat]
      BY <1>1, <2>1 DEF AlertTimes
    <3>2. heard'.ticks \in 0..AlertDuration
      BY <1>2, <3>1, AlertConstants
    <3> QED BY <3>1, <3>2
  <2>3. quiet' \in 0..AlertCooldown
    BY <1>2, <2>1, AlertConstants DEF AlertTimes
  <2> QED
    BY <1>1, <1>2, <2>1, <2>2, <2>3 DEF Alerts!AlertTypeOK, AlertTimes,
                                  Alerts!Ticks
<1>3. UNCHANGED latest => LatestTypes'
  BY <1>1
<1>4. UNCHANGED Alerts!evaluator => RestTypes'
  BY <1>1 DEF Alerts!evaluator
<1>5. UNCHANGED <<heard, quiet>> => Bounded'
  BY <1>1
<1>6. CASE UNCHANGED alertVars
  BY <1>2, <1>3, <1>4, <1>5, <1>6 DEF alertVars, Alerts!evaluator
<1>7. CASE Alerts!AlertTick
  <2>1. heard'.ticks <= AlertDuration
    <3>1. heard' = IF heard.type = "" THEN heard
                   ELSE [heard EXCEPT !.ticks =
                           Alerts!Least(heard.ticks + 1, AlertDuration)]
      BY <1>7 DEF Alerts!AlertTick
    <3>2. heard \in [type : Alerts!EventTypes, ticks : 0..AlertDuration]
      BY DEF Alerts!AlertTypeOK
    <3>3. Alerts!Least(heard.ticks + 1, AlertDuration) <= AlertDuration
      BY <1>1, AlertConstants DEF Alerts!Least
    <3>4. CASE heard.type = ""
      BY <1>1, <3>1, <3>4
    <3>5. CASE heard.type # ""
      <4>1. heard'.ticks = Alerts!Least(heard.ticks + 1, AlertDuration)
        BY <3>1, <3>2, <3>5
      <4> QED BY <3>3, <4>1
    <3> QED BY <3>4, <3>5
  <2>2. quiet' <= AlertCooldown
    <3>1. quiet' = Alerts!Least(quiet + 1, AlertCooldown)
      BY <1>7 DEF Alerts!AlertTick
    <3>2. Alerts!Least(quiet + 1, AlertCooldown) <= AlertCooldown
      BY <1>1, AlertConstants DEF Alerts!Least
    <3> QED BY <3>1, <3>2
  <2> QED BY <1>2, <1>3, <1>4, <1>7, <2>1, <2>2 DEF Alerts!AlertTick
<1>8. ASSUME NEW record \in Alerts!Readings, record.updatedAtMs = alertNow,
             Alerts!WindowStored(record)
      PROVE  Alerts!AlertTypeOK'
  <2>1. LatestTypes'
    BY <1>1, <1>8 DEF Alerts!WindowStored, Alerts!Ticks
  <2> QED BY <1>2, <1>4, <1>5, <1>8, <2>1 DEF Alerts!WindowStored
<1>9. CASE \E sound \in Sounds :
              Alerts!WindowStored(Alerts!Published(sound, alertNow))
  BY <1>1, <1>8, <1>9, WindowAssumption, AlertReadings
<1>10. CASE Alerts!WindowStored(Alerts!NoReading(alertNow))
  BY <1>1, <1>8, <1>10, VoidReadings
<1>11. CASE Alerts!WindowVoided
  <2>1. LatestTypes'
    BY <1>1, <1>11, VoidReadings DEF Alerts!WindowVoided
  <2> QED BY <1>2, <1>4, <1>5, <1>11, <2>1 DEF Alerts!WindowVoided
<1>12. ASSUME NEW mayPublish \in BOOLEAN, Alerts!ProcessAcoustic(mayPublish)
       PROVE  Alerts!AlertTypeOK'
  <2>1. /\ Alerts!Eligible(latest) \in BOOLEAN
        /\ Alerts!Triggers(latest) \in BOOLEAN
    <3>1. latest.microphoneValid \in BOOLEAN
      BY <1>1 DEF Alerts!Readings
    <3> QED BY <3>1 DEF Alerts!Eligible, Alerts!Triggers
  <2>2. RestTypes'
    <3>1. /\ processedMs' = latest.updatedAtMs
          /\ alert' = [active |-> Alerts!Eligible(latest),
                       triggered |-> Alerts!Triggers(latest),
                       eventType |-> IF Alerts!Eligible(latest)
                                     THEN Alerts!EventFor(latest.category)
                                     ELSE alert.eventType]
      BY <1>12 DEF Alerts!ProcessAcoustic, Alerts!Evaluate
    <3>2. eventOut' \in {"none", "published", "dropped"}
      BY <1>12 DEF Alerts!ProcessAcoustic
    <3>3. alert.eventType \in Alerts!EventTypes
      BY <1>1
    <3>4. (IF Alerts!Eligible(latest) THEN Alerts!EventFor(latest.category)
           ELSE alert.eventType) \in Alerts!EventTypes
      BY <3>3, EventForType
    <3>5. processedMs' \in Alerts!Ticks
      BY <1>1, <3>1
    <3>6. alert' \in [active : BOOLEAN, triggered : BOOLEAN,
                      eventType : Alerts!EventTypes]
      <4> DEFINE a == Alerts!Eligible(latest)
                 t == Alerts!Triggers(latest)
                 e == IF Alerts!Eligible(latest)
                      THEN Alerts!EventFor(latest.category)
                      ELSE alert.eventType
      <4>1. alert' = [active |-> a, triggered |-> t, eventType |-> e]
        BY <3>1
      <4>2. a \in BOOLEAN /\ t \in BOOLEAN /\ e \in Alerts!EventTypes
        BY <2>1, <3>4
      <4> HIDE DEF a, t, e
      <4>3. [active |-> a, triggered |-> t, eventType |-> e]
              \in [active : BOOLEAN, triggered : BOOLEAN,
                  eventType : Alerts!EventTypes]
        BY <4>2
      <4> QED BY <4>1, <4>3
    <3> QED BY <1>1, <3>2, <3>5, <3>6
  <2>3. Bounded'
    <3>1. \/ heard' = heard \/ heard' = Alerts!NoRun
          \/ heard' = [type |-> Alerts!EventFor(latest.category), ticks |-> 0]
      BY <1>12 DEF Alerts!ProcessAcoustic, Alerts!Hear
    <3>2. heard'.ticks <= AlertDuration
      <4>1. CASE heard' = heard
        BY <1>1, <4>1
      <4>2. ASSUME NEW type, heard' = [type |-> type, ticks |-> 0]
            PROVE  heard'.ticks <= AlertDuration
        <5>1. heard'.ticks = 0
          BY <4>2
        <5> QED BY <5>1, AlertConstants
      <4> QED BY <3>1, <4>1, <4>2 DEF Alerts!NoRun
    <3>3. quiet' <= AlertCooldown
      BY <1>1, <1>12, AlertConstants DEF Alerts!ProcessAcoustic, Alerts!Hear
    <3> QED BY <3>2, <3>3
  <2> QED BY <1>2, <1>3, <1>12, <2>2, <2>3 DEF Alerts!ProcessAcoustic
<1> QED
  BY <1>6, <1>7, <1>9, <1>10, <1>11, <1>12 DEF Alerts!AlertNext

\* The types of the parts, with what they take to be inductive.
PartTypes ==
    /\ mode \in ModesOf(part)
    /\ InboxInv /\ MicTypes /\ Alerts!AlertTypeOK /\ AlertInv
    /\ Sensors!SensorTypeOK /\ Update!UpdateTypeOK /\ Link!LinkTypeOK
    /\ Wifi!WifiTypeOK /\ Clock!ClockTypeOK
    /\ Calibration!CalTypeOK /\ CalInv

\* The microphone and the evaluator begin with a void reading.
LEMMA AcousticTypesInit ==
    ASSUME ModeInit
    PROVE  MicTypes /\ Alerts!AlertTypeOK
<1>1. 0 \in Nat /\ 0 \in 0..(MicWrap - 1) /\ 0 \in 0..(AlertWrap - 1)
  BY MicConstants, AlertConstants
<1>2. MicTypes
  <2>1. Mic!MicInit
    BY DEF ModeInit
  <2>2. MicRest
    BY <1>1, <2>1, WindowConstants DEF Mic!MicInit, MicRest, Mic!Ticks
  <2>3. WindowTypes
    BY <2>1, WindowConstants DEF Mic!MicInit, WindowTypes, Mic!EmptyWindow
  <2>4. StoredTypes
    BY <1>1, <2>1, WindowConstants, VoidReadings
       DEF Mic!MicInit, StoredTypes, Mic!Ticks
  <2> QED BY <2>2, <2>3, <2>4, MicParts
<1>3. Alerts!AlertTypeOK
  <2>1. Alerts!AlertInit
    BY DEF ModeInit
  <2>2. latest \in Alerts!Readings /\ latest.updatedAtMs \in Alerts!Ticks
    BY <1>1, <2>1, VoidReadings DEF Alerts!AlertInit, Alerts!Ticks
  <2>3. alert \in [active : BOOLEAN, triggered : BOOLEAN,
                   eventType : Alerts!EventTypes]
    BY <2>1 DEF Alerts!AlertInit, Alerts!EventTypes
  <2>4. candidate \in [active : BOOLEAN, type : Alerts!EventTypes,
                       startedMs : Alerts!Ticks]
    BY <1>1, <2>1 DEF Alerts!AlertInit, Alerts!NoCandidate, Alerts!EventTypes,
                      Alerts!Ticks
  <2>5. heard \in [type : Alerts!EventTypes, ticks : 0..AlertDuration]
          /\ quiet \in 0..AlertCooldown
    <3>1. 0 \in 0..AlertDuration /\ AlertCooldown \in 0..AlertCooldown
      BY AlertAssumption
    <3> QED
      BY <2>1, <3>1 DEF Alerts!AlertInit, Alerts!NoRun, Alerts!EventTypes
  <2> QED
    BY <1>1, <2>1, <2>2, <2>3, <2>4, <2>5
       DEF Alerts!AlertInit, Alerts!AlertTypeOK, Alerts!Ticks
<1> QED BY <1>2, <1>3

\* The types of the other parts hold at the start.
LEMMA PartTypesInit ==
    ASSUME ModeInit
    PROVE  /\ Sensors!SensorTypeOK /\ Update!UpdateTypeOK /\ Link!LinkTypeOK
           /\ Wifi!WifiTypeOK /\ Clock!ClockTypeOK /\ Calibration!CalTypeOK
<1>1. /\ 0 \in 0..(Wrap - 1) /\ 0 \in 0..(WifiWrap - 1)
      /\ BackoffMin \in BackoffMin..BackoffMax /\ 0 \in 0..MaxPosts
  BY PartConstants
<1>2. Sensors!SensorTypeOK
  <2>1. Sensors!SensorInit
    BY DEF ModeInit
  <2>2. kind \in SensorKinds
    BY <2>1 DEF Sensors!SensorInit
  <2>3. measured \in 0..Sensors!OldMeasure /\ goodFor \in 0..Sensors!Recovery
    BY <2>1, <2>2, SensorConstants DEF Sensors!SensorInit
  <2> QED
    BY <1>1, <2>1, <2>2, <2>3
       DEF Sensors!SensorInit, Sensors!SensorTypeOK, Sensors!Ticks
<1>3. Update!UpdateTypeOK
  BY <1>1 DEF ModeInit, Update!UpdateInit, Update!FreshFlags,
              Update!UpdateTypeOK, Update!Ticks
<1>4. Link!LinkTypeOK
  BY <1>1 DEF ModeInit, Link!LinkInit, Link!LinkTypeOK, Link!Ticks, Link!States
<1>5. Wifi!WifiTypeOK
  BY <1>1 DEF ModeInit, Wifi!WifiInit, Wifi!WifiTypeOK, Wifi!Ticks
<1>6. Clock!ClockTypeOK
  BY <1>1 DEF ModeInit, Clock!ClockInit, Clock!ClockTypeOK, Clock!Ticks,
              Clock!Setters, Clock!Sources
<1>7. Calibration!CalTypeOK
  <2>1. Calibration!CalInit
    BY DEF ModeInit
  <2>2. /\ run.samples \in Seq(Pressures) /\ Len(run.samples) = 0
        /\ run.gps = 0 /\ run.steady = TRUE
    BY <2>1, EmptySeq DEF Calibration!CalInit, Calibration!NoRun
  <2>3. /\ Len(run.samples) <= MaxSamples /\ run.gps \in 0..Len(run.samples)
        /\ saves \in 0..MaxSaves
    BY <2>1, <2>2, CalibrationAssumption DEF Calibration!CalInit
  <2>4. DOMAIN flash \subseteq Calibration!Keys /\ Len(saving) <= 4
    BY <2>1 DEF Calibration!CalInit
  <2> QED
    BY <2>1, <2>2, <2>3, <2>4 DEF Calibration!CalInit, Calibration!CalTypeOK
<1> QED BY <1>2, <1>3, <1>4, <1>5, <1>6, <1>7

\* Every variable of every part keeps its type, whichever part is followed and
\* in whichever mode, which is always one that runs the part.
THEOREM ModesTypeCorrect == ModeSpec => []ModeTypeOK
<1>1. ModeInit => PartTypes
  <2> SUFFICES ASSUME ModeInit PROVE PartTypes
    OBVIOUS
  <2>1. mode \in ModesOf(part)
    BY DEF ModeInit
  <2>2. InboxInv
    BY InboxInitInv DEF ModeInit
  <2> QED
    BY <2>1, <2>2, AcousticTypesInit, PartTypesInit, AlertInvInit, CalInvInit
       DEF PartTypes
<1>2. PartTypes /\ [ModeNext]_deviceVars => PartTypes'
  <2> SUFFICES ASSUME PartTypes, [ModeNext]_deviceVars PROVE PartTypes'
    OBVIOUS
  <2>1. mode' \in ModesOf(part)'
    <3>1. mode' = mode /\ part' = part
      BY DEF ModeNext, RestBut, deviceVars
    <3> QED
      BY <3>1 DEF PartTypes, ModesOf, SensorModes, PartModes, SensorKinds,
                  TestOf, Products
  <2>2. InboxInv'
    BY InboxStep, InboxInvStep DEF PartTypes
  <2>3. MicTypes'
    BY MicStep, MicTypeStep DEF PartTypes
  <2>4. AlertInv' /\ Alerts!AlertTypeOK'
    BY AlertStep, AlertInvStep, AlertTypeStep DEF PartTypes
  <2>5. Sensors!SensorTypeOK'
    BY SensorStep, SensorTypeStep DEF PartTypes
  <2>6. Update!UpdateTypeOK'
    BY UpdateStep, UpdateTypeStep DEF PartTypes
  <2>7. Link!LinkTypeOK' /\ Wifi!WifiTypeOK'
    BY LinkStep, LinkTypeStep, WifiStep, WifiTypeStep DEF PartTypes
  <2>8. Clock!ClockTypeOK'
    BY ClockStep, ClockTypeStep DEF PartTypes
  <2>9. CalInv' /\ Calibration!CalTypeOK'
    BY CalStep, CalInvStep, CalTypeStep DEF PartTypes
  <2> QED
    BY <2>1, <2>2, <2>3, <2>4, <2>5, <2>6, <2>7, <2>8, <2>9 DEF PartTypes
<1>3. PartTypes => ModeTypeOK
  BY DEF PartTypes, ModeTypeOK, InboxInv, MicTypes
<1> QED
  BY <1>1, <1>2, <1>3, PTL DEF ModeSpec

\* In every mode: what the loop takes from the command buffer is one whole
\* command, or nothing.
THEOREM ModesNoMixedCommand == ModeSpec => []NoMixedCommand
<1>1. ModeInit => InboxInv
  BY InboxInitInv DEF ModeInit
<1>2. InboxInv /\ [ModeNext]_deviceVars => InboxInv'
  BY InboxStep, InboxInvStep
<1>3. InboxInv => NoMixedCommand
  BY DEF InboxInv
<1> QED
  BY <1>1, <1>2, <1>3, PTL DEF ModeSpec
=============================================================================
