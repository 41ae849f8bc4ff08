------------------------- MODULE MqttSession_proofs -------------------------
(***************************************************************************)
(* Theorems about MqttSession, for every backoff, every number of values   *)
(* of millis() and every interleaving of the loop and the library's task.  *)
(***************************************************************************)
EXTENDS MqttSession, TLAPS

\* The handlers run where the library's state says, and connected is set in
\* the middle of one and cleared in the middle of the other.
TaskMatchesClient ==
    /\ client = "stopped" => task = "idle" /\ ~connected /\ ~attempting
    /\ client = "connecting" => task = "idle" /\ ~connected
    /\ client = "connected" =>
          task \in {"connected", "greeting"} \/ (task = "idle" /\ connected)
    /\ task \in {"connected", "greeting"} => client = "connected"
    /\ task = "greeting" => connected
    /\ task \in {"disconnected", "clearing", "scheduling"} => client = "waiting"
    /\ client = "waiting" /\ task # "disconnected" => ~connected

\* The library is asked only while it waits, and starts once.
LoopMatchesClient ==
    /\ requested => client = "waiting"
    /\ ~started /\ loop # "starting" => client = "stopped"
    /\ loop = "starting" => client # "stopped" /\ ~started
    /\ loop \in {"checking", "reconnecting"} => started
    /\ started => client # "stopped"

\* While the loop has not noted the attempt it asked for, the attempt has not
\* ended in failure.
AttemptUnderWay ==
    /\ loop = "starting" => client \in {"connecting", "connected"}
    /\ loop = "reconnecting" => requested \/ client \in {"connecting", "connected"}
    /\ task = "scheduling" /\ attempting => requested

SessionInv ==
    /\ TypeOK /\ TaskMatchesClient /\ LoopMatchesClient
    /\ ~FastFailure => AttemptUnderWay /\ NotStranded

\* The arithmetic of the bounded times and of the backoff.
LEMMA Times ==
    /\ 0 \in 0..(Span - 1) /\ Span \in Nat \ {0}
    /\ \A n \in Nat : n % Span \in 0..(Span - 1)
    /\ 0..BackoffMax \subseteq 0..(Span - 1)
    /\ BackoffMin \in BackoffMin..BackoffMax
    /\ BackoffMin..BackoffMax \subseteq Nat
    /\ \A b \in BackoffMin..BackoffMax :
          (IF 2 * b > BackoffMax THEN BackoffMax ELSE 2 * b) \in BackoffMin..BackoffMax
    /\ 0..(Span - 1) \subseteq Nat
    /\ MaxOutage \in Nat /\ 0 \in 0..MaxOutage
<1>1. /\ Span \in Nat \ {0} /\ BackoffMin \in Nat \ {0} /\ BackoffMax \in Nat
      /\ BackoffMin <= BackoffMax /\ 2 * BackoffMax < Span /\ MaxOutage \in Nat
  BY SessionAssumption
<1>2. \A n \in Nat : n % Span \in 0..(Span - 1)
  BY <1>1
<1>3. \A b \in BackoffMin..BackoffMax :
          (IF 2 * b > BackoffMax THEN BackoffMax ELSE 2 * b) \in BackoffMin..BackoffMax
  BY <1>1
<1>4. 0..BackoffMax \subseteq 0..(Span - 1) /\ BackoffMin \in BackoffMin..BackoffMax
  BY <1>1
<1>5. BackoffMin..BackoffMax \subseteq Nat /\ 0..(Span - 1) \subseteq Nat
  BY <1>1
<1> QED BY <1>1, <1>2, <1>3, <1>4, <1>5

\* scheduleReconnect keeps both times in range.
LEMMA ScheduleType ==
    ASSUME TypeOK, ScheduleReconnect
    PROVE  deadline' \in 0..(Span - 1) /\ backoff' \in BackoffMin..BackoffMax
<1>1. now \in Nat /\ backoff \in Nat
  BY Times DEF TypeOK
<1>2. now + backoff \in Nat
  BY <1>1
<1>3. deadline' \in 0..(Span - 1)
  BY <1>2, Times DEF ScheduleReconnect
<1>4. backoff' \in BackoffMin..BackoffMax
  BY Times DEF ScheduleReconnect, IncreasedBackoff, TypeOK
<1> QED BY <1>3, <1>4

\* The invariant of the session holds at the start.
LEMMA SessionInitInv == Init => SessionInv
<1> SUFFICES ASSUME Init PROVE SessionInv
  OBVIOUS
<1>1. now \in 0..(Span - 1) /\ deadline \in 0..(Span - 1) /\ outage \in 0..MaxOutage
  BY Times DEF Init
<1>2. backoff \in BackoffMin..BackoffMax
  BY Times DEF Init
<1>3. TypeOK
  BY <1>1, <1>2 DEF Init, TypeOK
<1>4. TaskMatchesClient /\ LoopMatchesClient
  BY DEF Init, TaskMatchesClient, LoopMatchesClient
<1>5. AttemptUnderWay /\ NotStranded
  BY DEF Init, AttemptUnderWay, NotStranded
<1> QED BY <1>3, <1>4, <1>5 DEF SessionInv

\* Times, flags and places keep their ranges.
LEMMA SessionTypeStep == SessionInv /\ [Next]_vars => TypeOK'
<1> SUFFICES ASSUME SessionInv, [Next]_vars PROVE TypeOK'
  OBVIOUS
<1> USE DEF SessionInv, flags, timing, library, world
<1>1. CASE UNCHANGED vars
  BY <1>1 DEF vars, TypeOK
<1>2. CASE Start
  BY <1>2 DEF Start, MayStart, TypeOK
<1>3. CASE StartFails
  BY <1>3, ScheduleType DEF StartFails, TypeOK
<1>4. CASE NoteStarted
  BY <1>4 DEF NoteStarted, TypeOK
<1>5. CASE SeeDisconnected
  BY <1>5 DEF SeeDisconnected, TypeOK
<1>6. CASE Reconnect
  <2>1. CASE UNCHANGED timing
    BY <1>6, <2>1 DEF Reconnect, TypeOK
  <2>2. CASE ScheduleReconnect
    BY <1>6, <2>2, ScheduleType DEF Reconnect, TypeOK
  <2> QED BY <1>6, <2>1, <2>2 DEF Reconnect
<1>7. CASE NoteAttempt
  BY <1>7 DEF NoteAttempt, TypeOK
<1>8. CASE TakeRequest
  BY <1>8 DEF TakeRequest, TypeOK
<1>9. CASE AttemptSucceeds
  BY <1>9 DEF AttemptSucceeds, TypeOK
<1>10. CASE ConnectionEnds
  BY <1>10 DEF ConnectionEnds, TypeOK
<1>11. CASE NoteConnected
  BY <1>11 DEF NoteConnected, TypeOK
<1>12. CASE EndAttempt
  <2>1. backoff' \in BackoffMin..BackoffMax
    BY <1>12, Times DEF EndAttempt
  <2> QED BY <1>12, <2>1 DEF EndAttempt, TypeOK
<1>13. CASE NoteDisconnected
  BY <1>13 DEF NoteDisconnected, TypeOK
<1>14. CASE ClearAttempt
  BY <1>14 DEF ClearAttempt, TypeOK
<1>15. CASE ScheduleAfterDisconnect
  BY <1>15, ScheduleType DEF ScheduleAfterDisconnect, TypeOK
<1>16. CASE NetworkChanges
  BY <1>16 DEF NetworkChanges, TypeOK
<1>17. CASE Tick
  <2>1. now' \in 0..(Span - 1)
    <3>1. now + 1 \in Nat
      BY Times DEF TypeOK
    <3> QED BY <1>17, <3>1, Times DEF Tick
  <2>2. outage' \in 0..MaxOutage
    <3>1. CASE WantsAttempt
      <4>1. outage \in Nat /\ outage < MaxOutage /\ MaxOutage \in Nat
        BY <1>17, <3>1, Times DEF Tick, TypeOK
      <4> QED BY <1>17, <3>1, <4>1 DEF Tick
    <3>2. CASE ~WantsAttempt
      BY <1>17, <3>2, Times DEF Tick
    <3> QED BY <3>1, <3>2
  <2> QED BY <1>17, <2>1, <2>2 DEF Tick, TypeOK
<1> QED BY <1>1, <1>2, <1>3, <1>4, <1>5, <1>6, <1>7, <1>8, <1>9, <1>10, <1>11,
           <1>12, <1>13, <1>14, <1>15, <1>16, <1>17 DEF Next, LoopStep, TaskStep

\* One step preserves the agreement of both threads with the library, and, if
\* no attempt ends before it is noted, that a set flag stands for an attempt.
LEMMA SessionFlagsStep ==
    SessionInv /\ [Next]_vars =>
        /\ TaskMatchesClient' /\ LoopMatchesClient'
        /\ ~FastFailure => AttemptUnderWay' /\ NotStranded'
<1> SUFFICES ASSUME SessionInv, [Next]_vars
             PROVE  /\ TaskMatchesClient' /\ LoopMatchesClient'
                    /\ ~FastFailure => AttemptUnderWay' /\ NotStranded'
  OBVIOUS
<1> USE DEF SessionInv, TypeOK, TaskMatchesClient, LoopMatchesClient,
            AttemptUnderWay, NotStranded, InAttempt, flags, timing, library, world
<1>1. CASE UNCHANGED vars
  BY <1>1 DEF vars
<1>2. CASE Start
  BY <1>2 DEF Start, MayStart
<1>3. CASE StartFails
  BY <1>3 DEF StartFails, MayStart
<1>4. CASE NoteStarted
  BY <1>4 DEF NoteStarted
<1>5. CASE SeeDisconnected
  BY <1>5 DEF SeeDisconnected
<1>6. CASE Reconnect
  BY <1>6 DEF Reconnect
<1>7. CASE NoteAttempt
  BY <1>7 DEF NoteAttempt
<1>8. CASE TakeRequest
  BY <1>8 DEF TakeRequest
<1>9. CASE AttemptSucceeds
  BY <1>9 DEF AttemptSucceeds
<1>10. CASE ConnectionEnds
  BY <1>10 DEF ConnectionEnds, Noted
<1>11. CASE NoteConnected
  BY <1>11 DEF NoteConnected
<1>12. CASE EndAttempt
  BY <1>12 DEF EndAttempt
<1>13. CASE NoteDisconnected
  BY <1>13 DEF NoteDisconnected
<1>14. CASE ClearAttempt
  BY <1>14 DEF ClearAttempt
<1>15. CASE ScheduleAfterDisconnect
  BY <1>15 DEF ScheduleAfterDisconnect
<1>16. CASE NetworkChanges
  BY <1>16 DEF NetworkChanges
<1>17. CASE Tick
  BY <1>17 DEF Tick
<1> QED BY <1>1, <1>2, <1>3, <1>4, <1>5, <1>6, <1>7, <1>8, <1>9, <1>10, <1>11,
           <1>12, <1>13, <1>14, <1>15, <1>16, <1>17 DEF Next, LoopStep, TaskStep

\* The inductive invariant holds in every reachable state.
THEOREM SessionInvariant == Spec => []SessionInv
<1>1. SessionInv /\ [Next]_vars => SessionInv'
  BY SessionTypeStep, SessionFlagsStep DEF SessionInv
<1> QED BY SessionInitInv, <1>1, PTL DEF Spec

\* Times and backoff keep their ranges: the doubling stops at the maximum.
THEOREM SessionTypeCorrect == Spec => []TypeOK
BY SessionInvariant, PTL DEF SessionInv

\* connected, which publishTo trusts without a lock, is only true while the
\* library has a connection or is telling the client that it lost it.
THEOREM SessionConnectedHonest == Spec => []ConnectedHonest
<1>1. SessionInv => ConnectedHonest
  BY DEF SessionInv, TypeOK, TaskMatchesClient, ConnectedHonest
<1> QED BY SessionInvariant, <1>1, PTL

\* The attempt flag is never set without an attempt that will clear it, unless
\* an attempt can end before the loop has noted it.
THEOREM SessionNotStranded == Spec => [](~FastFailure => NotStranded)
<1>1. SessionInv => (~FastFailure => NotStranded)
  BY DEF SessionInv
<1> QED BY SessionInvariant, <1>1, PTL

-----------------------------------------------------------------------------
(* The next attempt is near, although millis() wraps around                *)

\* A due attempt does not wait for the network for half the range of millis(),
\* which is 24 days.
OutageShort == BackoffMax + MaxOutage < Span \div 2

\* How far the deadline is ahead of millis(), and how far behind.
Ahead == (deadline + Span - now) % Span
Behind == (now + Span - deadline) % Span

\* Nobody has the next attempt in hand but the loop.
Waits == ~connected /\ ~attempting /\ task \notin {"clearing", "scheduling"}

Near == Waits => Ahead <= BackoffMax \/ Behind <= BackoffMax + outage

NearInv == SessionInv /\ Near

\* A number below twice the span wraps at most once.
LEMMA ModSmall ==
    ASSUME NEW C \in Nat, C > 0, NEW n \in Nat, n < 2 * C
    PROVE  (n % C) = IF n < C THEN n ELSE n - C
OBVIOUS

\* Half of the span, rounded down.
LEMMA Half ==
    ASSUME NEW C \in Nat
    PROVE  C \div 2 \in Nat /\ 2 * (C \div 2) <= C /\ C <= 2 * (C \div 2) + 1
OBVIOUS

\* The two distances, without remainders.
LEMMA Distances ==
    ASSUME NEW C \in Nat, C > 0, NEW a \in 0..(C - 1), NEW b \in 0..(C - 1)
    PROVE  ((a + C - b) % C) = IF b <= a THEN a - b ELSE a + C - b
<1>1. a + C - b \in Nat /\ a + C - b < 2 * C /\ C \in Nat
  OBVIOUS
<1>2. ((a + C - b) % C) = IF a + C - b < C THEN a + C - b ELSE a + C - b - C
  BY <1>1, ModSmall
<1> QED BY <1>2

\* A deadline that was just set is ahead by the backoff.
LEMMA ScheduleAhead ==
    ASSUME TypeOK, ScheduleReconnect, now' = now
    PROVE  Ahead' <= BackoffMax
<1>1. /\ now \in 0..(Span - 1) /\ Span \in Nat /\ Span > 0
      /\ backoff \in Nat /\ backoff <= BackoffMax /\ BackoffMax \in Nat
      /\ 2 * BackoffMax < Span
  BY SessionAssumption DEF TypeOK
<1>2. now + backoff \in Nat /\ now + backoff < 2 * Span
  BY <1>1
<1>3. deadline' = IF now + backoff < Span THEN now + backoff ELSE now + backoff - Span
  BY <1>1, <1>2, ModSmall DEF ScheduleReconnect
<1>4. deadline' \in 0..(Span - 1)
  BY <1>1, <1>3
<1>5. Ahead' = IF now <= deadline' THEN deadline' - now ELSE deadline' + Span - now
  BY <1>1, <1>4, Distances DEF Ahead
<1> QED BY <1>1, <1>3, <1>5

\* The signed comparison finds a deadline behind, and no deadline ahead.
LEMMA ReachedIsBehind ==
    ASSUME OutageShort, TypeOK
    PROVE  /\ Behind <= BackoffMax + outage => Reached(deadline)
           /\ Ahead <= BackoffMax /\ Reached(deadline) => Ahead = 0 /\ Behind = 0
           /\ Ahead \in Nat /\ Behind \in Nat
<1>1. /\ now \in 0..(Span - 1) /\ deadline \in 0..(Span - 1)
      /\ Span \in Nat /\ Span > 0 /\ BackoffMax \in Nat /\ 2 * BackoffMax < Span
      /\ outage \in Nat /\ outage <= MaxOutage /\ MaxOutage \in Nat
  BY SessionAssumption DEF TypeOK
<1>2. Ahead = IF now <= deadline THEN deadline - now ELSE deadline + Span - now
  BY <1>1, Distances DEF Ahead
<1>3. Behind = IF deadline <= now THEN now - deadline ELSE now + Span - deadline
  BY <1>1, Distances DEF Behind
<1>4. /\ Span \div 2 \in Nat /\ 2 * (Span \div 2) <= Span
      /\ Reached(deadline) <=> Behind < Span \div 2
  BY <1>1, Half DEF Reached, Behind
<1>5. Ahead \in Nat /\ Behind \in Nat
  BY <1>1, <1>2, <1>3
<1>6. ASSUME Behind <= BackoffMax + outage PROVE Reached(deadline)
  BY <1>1, <1>4, <1>5, <1>6 DEF OutageShort
<1>7. ASSUME Ahead <= BackoffMax, Reached(deadline) PROVE Ahead = 0 /\ Behind = 0
  BY <1>1, <1>2, <1>3, <1>4, <1>7
<1> QED BY <1>5, <1>6, <1>7

\* A tick brings the deadline nearer, or moves a due one further behind.
LEMMA TickNear ==
    ASSUME OutageShort, NearInv, Tick
    PROVE  Near'
<1>1. /\ TypeOK
      /\ now \in 0..(Span - 1) /\ deadline \in 0..(Span - 1)
      /\ Span \in Nat /\ Span > 0 /\ BackoffMax \in Nat /\ 2 * BackoffMax < Span
      /\ outage \in Nat /\ outage <= MaxOutage /\ MaxOutage \in Nat
  BY SessionAssumption DEF NearInv, SessionInv, TypeOK
<1>2. /\ UNCHANGED <<deadline, connected, attempting, task>>
      /\ now' = (now + 1) % Span
      /\ outage' = IF WantsAttempt THEN outage + 1 ELSE 0
      /\ WantsAttempt => outage < MaxOutage
  BY DEF Tick, flags, timing
<1>3. now' = IF now + 1 < Span THEN now + 1 ELSE 0
  <2>1. now + 1 \in Nat /\ now + 1 < 2 * Span
    BY <1>1
  <2>2. now' = IF now + 1 < Span THEN now + 1 ELSE now + 1 - Span
    BY <1>1, <1>2, <2>1, ModSmall
  <2> QED BY <1>1, <2>2
<1>4. now' \in 0..(Span - 1)
  BY <1>1, <1>3
<1>5. /\ Ahead = IF now <= deadline THEN deadline - now ELSE deadline + Span - now
      /\ Behind = IF deadline <= now THEN now - deadline ELSE now + Span - deadline
  BY <1>1, Distances DEF Ahead, Behind
<1>6. /\ Ahead' = IF now' <= deadline THEN deadline - now' ELSE deadline + Span - now'
      /\ Behind' = IF deadline <= now' THEN now' - deadline ELSE now' + Span - deadline
  BY <1>1, <1>2, <1>4, Distances DEF Ahead, Behind
<1>7. SUFFICES ASSUME Waits
               PROVE  Ahead' <= BackoffMax \/ Behind' <= BackoffMax + outage'
  BY <1>2 DEF Near, Waits
<1>8. WantsAttempt <=> Reached(deadline)
  BY <1>7 DEF WantsAttempt, Waits
<1>9. CASE Reached(deadline)
  <2>1. Behind <= BackoffMax + outage
    BY <1>1, <1>7, <1>9, ReachedIsBehind DEF NearInv, Near
  <2>2. outage' = outage + 1 /\ outage < MaxOutage
    BY <1>2, <1>8, <1>9
  <2>3. Behind < Span \div 2 /\ 2 * (Span \div 2) <= Span /\ Span \div 2 \in Nat
    BY <1>1, <1>9, Half DEF Reached, Behind
  <2>4. Behind' <= BackoffMax + (outage + 1)
    BY <1>1, <1>3, <1>5, <1>6, <2>1, <2>3
  <2> QED BY <2>2, <2>4
<1>10. CASE ~Reached(deadline)
  <2>1. Ahead <= BackoffMax
    BY <1>1, <1>7, <1>10, ReachedIsBehind DEF NearInv, Near
  <2>2. Ahead # 0
    <3> SUFFICES ASSUME Ahead = 0 PROVE FALSE
      OBVIOUS
    <3>1. now = deadline /\ Behind = 0
      BY <1>1, <1>5
    <3> QED BY <1>1, <1>10, <3>1, ReachedIsBehind
  <2>3. Ahead' = Ahead - 1
    BY <1>1, <1>3, <1>5, <1>6, <2>2
  <2> QED BY <1>1, <1>5, <2>1, <2>3
<1> QED BY <1>9, <1>10

\* At start the deadline is zero, and millis() has not gone far.
LEMMA NearInit == Init => NearInv
<1> SUFFICES ASSUME Init PROVE NearInv
  OBVIOUS
<1>1. SessionInv
  BY SessionInitInv
<1>2. /\ now \in 0..BackoffMax /\ deadline = 0 /\ outage = 0
      /\ Span \in Nat /\ Span > 0 /\ BackoffMax \in Nat /\ 2 * BackoffMax < Span
  BY SessionAssumption DEF Init
<1>3. now \in 0..(Span - 1) /\ deadline \in 0..(Span - 1)
  BY <1>2
<1>4. Behind = IF deadline <= now THEN now - deadline ELSE now + Span - deadline
  BY <1>2, <1>3, Distances DEF Behind
<1>5. Behind <= BackoffMax + outage
  BY <1>2, <1>4
<1> QED BY <1>1, <1>5 DEF NearInv, Near

\* Every step keeps the deadline near: only scheduleReconnect moves it.
LEMMA NearStep ==
    ASSUME OutageShort, NearInv, [Next]_vars
    PROVE  Near'
<1>0. TypeOK /\ TaskMatchesClient
  BY DEF NearInv, SessionInv
<1> USE DEF flags, timing, library, world
<1>1. CASE UNCHANGED <<now, deadline, outage>> /\ (Waits' => Waits)
  BY <1>1 DEF NearInv, Near, Ahead, Behind
<1>2. CASE ScheduleReconnect /\ now' = now
  BY <1>0, <1>2, ScheduleAhead DEF Near
<1>3. CASE Tick
  BY <1>3, TickNear
<1>4. CASE StartFails \/ ScheduleAfterDisconnect
  BY <1>2, <1>4 DEF StartFails, ScheduleAfterDisconnect
<1>5. CASE Reconnect
  <2>1. CASE UNCHANGED timing
    BY <1>1, <1>5, <2>1 DEF Reconnect, Waits
  <2>2. CASE ScheduleReconnect
    BY <1>2, <1>5, <2>2 DEF Reconnect
  <2> QED BY <1>5, <2>1, <2>2 DEF Reconnect
<1>6. CASE \/ Start \/ NoteStarted \/ SeeDisconnected \/ NoteAttempt \/ NetworkChanges
           \/ UNCHANGED vars
  BY <1>1, <1>6 DEF Start, NoteStarted, SeeDisconnected, NoteAttempt, NetworkChanges,
                    vars, Waits
<1>7. CASE \/ TakeRequest \/ AttemptSucceeds \/ ConnectionEnds \/ NoteConnected
           \/ NoteDisconnected \/ ClearAttempt
  BY <1>1, <1>7 DEF TakeRequest, AttemptSucceeds, ConnectionEnds, NoteConnected,
                    NoteDisconnected, ClearAttempt, Waits
<1>8. CASE EndAttempt
  <2>1. ~Waits'
    BY <1>0, <1>8 DEF EndAttempt, TaskMatchesClient, Waits
  <2> QED BY <2>1 DEF Near
<1> QED BY <1>3, <1>4, <1>5, <1>6, <1>7, <1>8 DEF Next, LoopStep, TaskStep

\* Once the network is there the next attempt is due or at most one backoff
\* away, through every wrap of millis(), if no outage lasts half of its range.
THEOREM SessionDeadlineNear ==
    ASSUME OutageShort
    PROVE  Spec => []DeadlineNear
<1>1. NearInv /\ [Next]_vars => NearInv'
  BY NearStep, SessionTypeStep, SessionFlagsStep DEF NearInv, SessionInv
<1>2. NearInv => DeadlineNear
  BY ReachedIsBehind DEF NearInv, SessionInv, Near, Waits, DeadlineNear, Ahead
<1> QED BY NearInit, <1>1, <1>2, PTL DEF Spec
=============================================================================
