---------------------- MODULE TelemetryHandoff_proofs ----------------------
(***************************************************************************)
(* Theorems about TelemetryHandoff, for every number of records and        *)
(* message ids, every timeout, and with PUBACKs that arrive before their   *)
(* id is stored (EarlyPuback) and sends stored at millis() = 0.            *)
(***************************************************************************)
EXTENDS TelemetryHandoff, TLAPS

\* A PUBACK speaks for the message that holds its id now: the one in the slot,
\* or the one on its way into the slot.  Nothing is in the slot meanwhile.
AnswersSpeakForHolder ==
    /\ place \in {"enqueue", "store"} => slotId = 0 /\ sending \in Tokens
    /\ place = "store" => sentId # 0
    /\ \A m \in outbox : m.id = slotId => m.token = slotToken
    /\ place = "store" => \A m \in outbox : m.id = sentId => m.token = sending
    /\ slotId # 0 => slotToken \in Tokens
    /\ slotId \in pubacks => slotToken \in delivered
    /\ place = "store" /\ sentId \in pubacks => sending \in delivered
    /\ ack # None => ack \in delivered

HandoffInv == HandoffTypeOK /\ AnswersSpeakForHolder /\ RemovedOnlyIfDelivered

\* A token is a record of two fields, and none of them is None.
LEMMA TokenShape ==
    /\ \A n : Replay(n) # None
    /\ \A n, k : Replay(n) = Replay(k) => n = k
    /\ \A n \in 1..Records : Replay(n) \in Tokens
    /\ \A n \in 1..LiveSamples : Live(n) \in Tokens
    /\ \A n : Replay(n) \in Tokens => n \in 1..Records
    /\ None \notin Tokens
BY DEF Replay, Live, None, Tokens

\* Where the counters start, and the assumptions in the form the steps need.
LEMMA Ranges ==
    /\ 0 \in 0..PubackTimeout /\ 0 \in 0..LiveSamples /\ 1 \in 1..(Records + 1)
    /\ Records \in Nat /\ LiveSamples \in Nat /\ PubackTimeout \in Nat
    /\ MessageIds \subseteq Nat \ {0}
BY HandoffAssumption

\* The invariant of the hand-off holds at the start.
LEMMA HandoffInitInv == HandoffInit => HandoffInv
<1> SUFFICES ASSUME HandoffInit PROVE HandoffInv
  OBVIOUS
<1>1. HandoffTypeOK
  <2> USE DEF HandoffInit
  <2>1. linked \in BOOLEAN /\ slotTimed \in BOOLEAN /\ place \in Places
    BY DEF Places
  <2>2. slotAge \in 0..PubackTimeout /\ lives \in 0..LiveSamples
    BY Ranges
  <2>3. oldest \in 1..(Records + 1)
    BY Ranges
  <2> QED BY <2>1, <2>2, <2>3 DEF HandoffTypeOK
<1>2. AnswersSpeakForHolder
  BY HandoffAssumption DEF HandoffInit, AnswersSpeakForHolder
<1>3. RemovedOnlyIfDelivered
  BY DEF HandoffInit, RemovedOnlyIfDelivered
<1> QED BY <1>1, <1>2, <1>3 DEF HandoffInv

\* The slot, the token and the places keep their ranges.
LEMMA HandoffTypeStep == HandoffInv /\ [HandoffNext]_handoffVars => HandoffTypeOK'
<1> SUFFICES ASSUME HandoffInv, [HandoffNext]_handoffVars PROVE HandoffTypeOK'
  OBVIOUS
<1> USE Ranges, TokenShape DEF HandoffInv, HandoffTypeOK, slot, local, wire
<1>1. CASE UNCHANGED handoffVars
  BY <1>1 DEF handoffVars
<1>2. CASE ExpirePending
  <2>1. slotAge' \in 0..PubackTimeout
    BY <1>2 DEF ExpirePending, ReleaseSlot
  <2>2. slotId' \in {0} \cup MessageIds /\ slotToken' \in Tokens \cup {None}
    BY <1>2 DEF ExpirePending, ReleaseSlot
  <2>3. slotTimed' \in BOOLEAN /\ place' \in Places
    BY <1>2 DEF ExpirePending, ReleaseSlot, Places
  <2> QED BY <1>2, <2>1, <2>2, <2>3 DEF ExpirePending
<1>3. CASE TakeAck
  <2>1. oldest' \in 1..(Records + 1)
    <3>1. CASE ack = Replay(oldest)
      <4>1. oldest \in 1..Records
        BY <3>1
      <4> QED BY <1>3, <3>1, <4>1 DEF TakeAck
    <3>2. CASE ack # Replay(oldest)
      BY <1>3, <3>2 DEF TakeAck
    <3> QED BY <3>1, <3>2
  <2>2. place' \in Places
    BY <1>3 DEF TakeAck, Places
  <2>3. ack' \in Tokens \cup {None}
    BY <1>3 DEF TakeAck
  <2> QED BY <1>3, <2>1, <2>2, <2>3 DEF TakeAck
<1>4. CASE SendReplay
  BY <1>4 DEF SendReplay, Send, Places
<1>5. CASE SkipReplay
  BY <1>5 DEF SkipReplay, Places
<1>6. CASE SendLive
  BY <1>6 DEF SendLive, Send, Places
<1>7. CASE SkipLive
  BY <1>7 DEF SkipLive, Places
<1>8. CASE Enqueue
  <2>1. place' \in Places
    BY <1>8 DEF Enqueue, After, Places
  <2>2. sending' \in Tokens \cup {None}
    BY <1>8 DEF Enqueue
  <2>3. /\ sentId' \in {0} \cup MessageIds
        /\ outbox' \subseteq [id : MessageIds, token : Tokens]
        /\ answered' \subseteq MessageIds
    <3>1. sending \in Tokens /\ UnusedIds \subseteq MessageIds
      BY <1>8 DEF Enqueue, AnswersSpeakForHolder, UnusedIds
    <3>2. CASE \E id \in UnusedIds :
                 /\ sentId' = id /\ answered' = answered \ {id}
                 /\ outbox' = outbox \cup {[id |-> id, token |-> sending]}
      <4>1. PICK id \in MessageIds :
                 /\ sentId' = id /\ answered' = answered \ {id}
                 /\ outbox' = outbox \cup {[id |-> id, token |-> sending]}
        BY <3>1, <3>2
      <4>2. [id |-> id, token |-> sending] \in [id : MessageIds, token : Tokens]
        BY <3>1
      <4> QED BY <4>1, <4>2
    <3>3. CASE UNCHANGED <<sentId, outbox, answered>>
      BY <3>3
    <3> QED BY <1>8, <3>2, <3>3 DEF Enqueue
  <2> QED BY <1>8, <2>1, <2>2, <2>3 DEF Enqueue
<1>9. CASE StorePending
  <2>1. place' \in Places
    BY <1>9 DEF StorePending, After, Places
  <2>2. slotAge' \in 0..PubackTimeout /\ slotTimed' \in BOOLEAN
    BY <1>9 DEF StorePending
  <2>3. slotToken' \in Tokens \cup {None} /\ sending' \in Tokens \cup {None}
    BY <1>9 DEF StorePending
  <2>4. slotId' \in {0} \cup MessageIds /\ sentId' \in {0} \cup MessageIds
    BY <1>9 DEF StorePending
  <2> QED BY <1>9, <2>1, <2>2, <2>3, <2>4 DEF StorePending
<1>10. CASE \E m \in outbox : BrokerReceives(m)
  BY <1>10 DEF BrokerReceives
<1>11. CASE \E m \in outbox : OutboxExpires(m)
  BY <1>11 DEF OutboxExpires
<1>12. CASE \E id \in MessageIds : HandlePublished(id)
  <2>1. PICK id \in MessageIds : HandlePublished(id)
    BY <1>12
  <2>2. /\ pubacks' \subseteq MessageIds /\ answered' \subseteq MessageIds
        /\ outbox' \subseteq [id : MessageIds, token : Tokens]
    BY <2>1 DEF HandlePublished, Arrives
  <2>3. slotAge' \in 0..PubackTimeout /\ slotTimed' \in BOOLEAN
    BY <2>1 DEF HandlePublished, ReleaseSlot
  <2>4. /\ slotId' \in {0} \cup MessageIds /\ slotToken' \in Tokens \cup {None}
        /\ ack' \in Tokens \cup {None}
    BY <2>1 DEF HandlePublished, ReleaseSlot
  <2> QED BY <2>1, <2>2, <2>3, <2>4 DEF HandlePublished, Arrives
<1>13. CASE Disconnect
  BY <1>13 DEF Disconnect
<1>14. CASE Connect
  BY <1>14 DEF Connect
<1>15. CASE SlotAges
  BY <1>15 DEF SlotAges
<1> QED BY <1>1, <1>2, <1>3, <1>4, <1>5, <1>6, <1>7, <1>8, <1>9, <1>10, <1>11,
           <1>12, <1>13, <1>14, <1>15 DEF HandoffNext, AppStep

\* Every step keeps answers about the message that holds the id.
LEMMA HandoffAnswerStep == HandoffInv /\ [HandoffNext]_handoffVars => AnswersSpeakForHolder'
<1> SUFFICES ASSUME HandoffInv, [HandoffNext]_handoffVars PROVE AnswersSpeakForHolder'
  OBVIOUS
<1> USE HandoffAssumption, TokenShape
    DEF HandoffInv, HandoffTypeOK, AnswersSpeakForHolder, slot, local, wire
<1>1. CASE UNCHANGED handoffVars
  BY <1>1 DEF handoffVars
<1>2. CASE ExpirePending
  BY <1>2 DEF ExpirePending, ReleaseSlot
<1>3. CASE TakeAck
  BY <1>3 DEF TakeAck
<1>4. CASE SendReplay
  BY <1>4 DEF SendReplay, Send, Pending
<1>5. CASE SkipReplay
  BY <1>5 DEF SkipReplay
<1>6. CASE SendLive
  BY <1>6 DEF SendLive, Send, Pending
<1>7. CASE SkipLive
  BY <1>7 DEF SkipLive
<1>8. CASE Enqueue
  BY <1>8 DEF Enqueue, After, UnusedIds
<1>9. CASE StorePending
  BY <1>9 DEF StorePending, After
<1>10. CASE \E m \in outbox : BrokerReceives(m)
  BY <1>10 DEF BrokerReceives
<1>11. CASE \E m \in outbox : OutboxExpires(m)
  BY <1>11 DEF OutboxExpires
<1>12. CASE \E id \in MessageIds : HandlePublished(id)
  BY <1>12 DEF HandlePublished, Arrives, ReleaseSlot
<1>13. CASE Disconnect
  BY <1>13 DEF Disconnect
<1>14. CASE Connect
  BY <1>14 DEF Connect
<1>15. CASE SlotAges
  BY <1>15 DEF SlotAges
<1> QED BY <1>1, <1>2, <1>3, <1>4, <1>5, <1>6, <1>7, <1>8, <1>9, <1>10, <1>11,
           <1>12, <1>13, <1>14, <1>15 DEF HandoffNext, AppStep

\* Only takeTelemetryAck removes a record, and the token it takes is delivered.
LEMMA HandoffRemovalStep == HandoffInv /\ [HandoffNext]_handoffVars => RemovedOnlyIfDelivered'
<1> SUFFICES ASSUME HandoffInv, [HandoffNext]_handoffVars PROVE RemovedOnlyIfDelivered'
  OBVIOUS
<1> USE DEF HandoffInv, RemovedOnlyIfDelivered, slot, local, wire
<1>1. CASE TakeAck
  <2>1. oldest \in Nat /\ delivered' = delivered
    BY <1>1, HandoffAssumption DEF TakeAck, HandoffTypeOK
  <2>2. CASE ack = Replay(oldest)
    <3>1. Replay(oldest) \in delivered
      BY <2>2, TokenShape DEF AnswersSpeakForHolder
    <3>2. oldest' = oldest + 1
      BY <1>1, <2>2 DEF TakeAck
    <3> QED BY <2>1, <3>1, <3>2
  <2>3. CASE ack # Replay(oldest)
    BY <1>1, <2>1, <2>3 DEF TakeAck
  <2> QED BY <2>2, <2>3
<1>2. CASE ~TakeAck
  <2>1. oldest' = oldest /\ delivered \subseteq delivered'
    BY <1>2 DEF HandoffNext, AppStep, handoffVars, ExpirePending, SendReplay, SkipReplay,
                SendLive, SkipLive, Send, Enqueue, StorePending, BrokerReceives,
                OutboxExpires, HandlePublished, Arrives, Disconnect, Connect, SlotAges
  <2> QED BY <2>1
<1> QED BY <1>1, <1>2

\* The inductive invariant holds in every reachable state.
THEOREM HandoffInvariant == HandoffSpec => []HandoffInv
<1>1. HandoffInv /\ [HandoffNext]_handoffVars => HandoffInv'
  BY HandoffTypeStep, HandoffAnswerStep, HandoffRemovalStep DEF HandoffInv
<1> QED BY HandoffInitInv, <1>1, PTL DEF HandoffSpec

\* The fields of the client keep their ranges in every interleaving.
THEOREM HandoffTypeCorrect == HandoffSpec => []HandoffTypeOK
BY HandoffInvariant, PTL DEF HandoffInv

\* acknowledge removes a record only after the broker has received it, whatever
\* PUBACK arrives when, late ones and reused message ids included.
THEOREM HandoffRemoval == HandoffSpec => []RemovedOnlyIfDelivered
BY HandoffInvariant, PTL DEF HandoffInv

-----------------------------------------------------------------------------
(* A timeout gives up only what was not answered                           *)

\* The message in the slot, or on its way into it, has had no answer.
Unanswered ==
    /\ slotId # 0 => slotId \notin answered
    /\ place = "store" => sentId \notin answered

TimeoutInv == HandoffInv /\ Unanswered

\* A step keeps the slot's message unanswered if no PUBACK comes before its id
\* is stored: the answer for the slot's own message empties the slot.
LEMMA UnansweredStep ==
    ASSUME ~EarlyPuback, TimeoutInv, [HandoffNext]_handoffVars
    PROVE  Unanswered'
<1> USE DEF TimeoutInv, HandoffInv, Unanswered, slot, local, wire
<1>1. CASE UNCHANGED handoffVars
  BY <1>1 DEF handoffVars
<1>2. CASE ExpirePending
  BY <1>2 DEF ExpirePending, ReleaseSlot
<1>3. CASE SendReplay \/ SendLive
  BY <1>3 DEF SendReplay, SendLive, Send
<1>4. CASE TakeAck \/ SkipReplay \/ SkipLive
  BY <1>4 DEF TakeAck, SkipReplay, SkipLive
<1>5. CASE Enqueue
  <2>1. slotId' = 0
    BY <1>5 DEF Enqueue, AnswersSpeakForHolder
  <2>2. place' = "store" => sentId' \notin answered'
    BY <1>5 DEF Enqueue, After
  <2> QED BY <2>1, <2>2
<1>6. CASE StorePending
  BY <1>6 DEF StorePending, After
<1>7. ASSUME NEW id \in MessageIds, HandlePublished(id) PROVE Unanswered'
  <2>1. answered' = answered \cup {id} /\ UNCHANGED <<place, sentId>>
    BY <1>7 DEF HandlePublished, Arrives
  <2>2. place = "store" => id # sentId
    BY <1>7 DEF HandlePublished, Arrives
  <2>3. slotId' = 0 \/ (slotId' = slotId /\ id # slotId)
    BY <1>7 DEF HandlePublished, ReleaseSlot
  <2> QED BY <2>1, <2>2, <2>3
<1>8. CASE \E m \in outbox : BrokerReceives(m) \/ OutboxExpires(m)
  BY <1>8 DEF BrokerReceives, OutboxExpires
<1>9. CASE Disconnect \/ Connect \/ SlotAges
  BY <1>9 DEF Disconnect, Connect, SlotAges
<1> QED BY <1>1, <1>2, <1>3, <1>4, <1>5, <1>6, <1>7, <1>8, <1>9
        DEF HandoffNext, AppStep

\* What expirePendingTelemetry gives up with the warning "PUBACK timeout" has
\* not been answered, unless an answer may come before its id is stored.
THEOREM HandoffTimeout ==
    ASSUME ~EarlyPuback
    PROVE  HandoffSpec => []TimeoutHonest
<1>1. HandoffInit => TimeoutInv
  BY HandoffInitInv DEF TimeoutInv, Unanswered, HandoffInit
<1>2. TimeoutInv /\ [HandoffNext]_handoffVars => TimeoutInv'
  BY UnansweredStep, HandoffTypeStep, HandoffAnswerStep, HandoffRemovalStep
     DEF TimeoutInv, HandoffInv
<1>3. TimeoutInv => TimeoutHonest
  BY DEF TimeoutInv, Unanswered, TimeoutHonest, Overdue, Pending
<1> QED BY <1>1, <1>2, <1>3, PTL DEF HandoffSpec
=============================================================================
