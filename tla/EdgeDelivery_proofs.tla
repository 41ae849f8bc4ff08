------------------------ MODULE EdgeDelivery_proofs ------------------------
(***************************************************************************)
(* Theorems about EdgeDelivery, for every value of its bounds.  That a     *)
(* sample goes out once as new holds under every card fault and with       *)
(* answers at any moment; what the PUBACK promises holds while the numbers *)
(* of the records outlive the tokens that carry them (NumbersLast).        *)
(***************************************************************************)
EXTENDS EdgeDelivery, OfflineQueue_proofs

-----------------------------------------------------------------------------
(* The spool inside the application is the spool of OfflineQueue           *)

\* Every step of the application is a step of the spool or leaves it alone.
LEMMA EdgeStep == TypeInv /\ [EdgeNext]_edgeVars => [Next]_vars
<1> SUFFICES ASSUME TypeInv, [EdgeNext]_edgeVars PROVE [Next]_vars
  OBVIOUS
<1>1. CASE UNCHANGED edgeVars
  BY <1>1 DEF edgeVars
<1>2. CASE NewSample
  <2>1. Deferred \in BOOLEAN
    BY DEF Deferred
  <2>2. PICK size \in Sizes : EnqueueStart(size, Deferred)
    BY <1>2 DEF NewSample
  <2> QED BY <2>1, <2>2, Zenon DEF Next
<1>3. CASE SpoolStep
  BY <1>3 DEF SpoolStep, Next, LoopStep
<1>4. CASE PublishLive \/ ExpirePending \/ BrokerReceives \/ PubackArrives
           \/ Connect \/ Disconnect
  BY <1>4 DEF PublishLive, ExpirePending, BrokerReceives, PubackArrives,
              Connect, Disconnect
<1>5. CASE PeekOldest
  BY <1>5 DEF PeekOldest, Next
<1>6. CASE PublishOldest \/ PublishFails
  BY <1>6 DEF PublishOldest, PublishFails, Next, LoopStep
<1>7. CASE TakeAck
  <2>1. CASE Acknowledge(ack.number)
    <3>1. ack.number \in Ids
      BY <2>1, Bounds DEF Acknowledge, Removable, TypeInv, TypeOK, Ids
    <3> QED BY <2>1, <3>1 DEF Next
  <2>2. CASE UNCHANGED vars
    BY <2>2
  <2> QED BY <1>7, <2>1, <2>2 DEF TakeAck
<1>8. CASE Restart \/ Environment
  BY <1>8 DEF Restart, Environment, Next
<1> QED BY <1>1, <1>2, <1>3, <1>4, <1>5, <1>6, <1>7, <1>8 DEF EdgeNext

\* The spool's own invariant holds in the application.
LEMMA EdgeReplayInv == EdgeSpec => []ReplayInv
<1>1. EdgeInit => ReplayInv
  BY ReplayInit DEF EdgeInit
<1>2. ReplayInv /\ [EdgeNext]_edgeVars => ReplayInv'
  BY EdgeStep, ReplayStep DEF ReplayInv
<1> QED BY <1>1, <1>2, PTL DEF EdgeSpec

\* The application uses the spool as OfflineQueue describes it, so all that is
\* proved of the spool holds in the application.
THEOREM EdgeImplementsQueue == EdgeSpec => Spec
<1>1. EdgeInit => Init
  BY DEF EdgeInit
<1>2. ReplayInv /\ [EdgeNext]_edgeVars => [Next]_vars
  BY EdgeStep DEF ReplayInv
<1> QED BY EdgeReplayInv, <1>1, <1>2, PTL DEF EdgeSpec, Spec

\* From the application to what it promises in the end: through every restart
\* and under the faults of SpoolImplemented, the card inside the application is
\* the bounded first-in first-out store of DurableSpool.
THEOREM EdgeImplementsSpool ==
    ASSUME FirstInDoubt
    PROVE  EdgeSpec => ImplementsSpool
BY EdgeImplementsQueue, SpoolImplemented

-----------------------------------------------------------------------------
(* At most one first delivery                                              *)

\* What a step of the spool may add to the card: the sample enqueue holds.
StoresCall ==
    /\ call.op = "rename"
    /\ call.sample = produced /\ call.sample \in accepted'
    /\ \A id \in Files' :
          \/ card'[id].sample = produced
          \/ id \in Files /\ card'[id].sample = card[id].sample

StoresNothing ==
    \A id \in Files' : id \in Files /\ card'[id].sample = card[id].sample

\* Fewer files are no new samples.
LEMMA FewerStoresNothing == FewerFiles => StoresNothing
BY DEF FewerFiles, StoresNothing

\* Only the end of enqueue puts a sample on the card.
LEMMA StepFiles ==
    ASSUME ReplayInv, [Next]_vars
    PROVE  StoresNothing \/ StoresCall
<1>0. TypeInv
  BY DEF ReplayInv
<1> USE FewerStoresNothing DEF media, index, clocks, history
<1>1. CASE card' = card
  BY <1>1, SameFiles
<1>2. CASE BeginAtBoot \/ UpdateRetry
  BY <1>0, <1>1, <1>2, BeginFewer DEF BeginAtBoot, UpdateRetry
<1>3. CASE \E dirOk, sizeRead : Unlink(dirOk, sizeRead)
  BY <1>0, <1>3, UnlinkFewer
<1>4. CASE RenameToRecord
  <2>1. CASE /\ card' = [card EXCEPT ![next] = tmp]
             /\ accepted' = accepted \cup {call.sample}
    <3>1. /\ tmp.sample = produced /\ call.sample = produced /\ next \in Ids
          /\ call.op = "rename"
      BY <1>0, <1>4, Bounds DEF RenameToRecord, TypeInv, TypeOK, CallOK, Ids
    <3>2. \A id \in Files' : \/ id = next /\ card'[id] = tmp
                             \/ id \in Files /\ card'[id] = card[id]
      BY <1>0, <2>1, <3>1 DEF Files, TypeInv, TypeOK
    <3> QED BY <2>1, <3>1, <3>2 DEF StoresCall
  <2>2. CASE EnqueueFailed(tmp)
    BY <1>1, <2>2 DEF EnqueueFailed
  <2> QED BY <1>4, <2>1, <2>2 DEF RenameToRecord
<1>5. CASE MarkAttempted \/ MarkFails
  <2>1. call.id \in Files /\ card[call.id] \in Record
    BY <1>0, <1>5 DEF MarkAttempted, MarkFails, TypeInv, TypeOK, CallOK, Files
  <2>2. CASE \/ card' = [card EXCEPT ![call.id].attempted = TRUE]
             \/ card' = [card EXCEPT ![call.id].integrity = "header"]
    <3>1. \A id \in Files : card'[id].sample = card[id].sample
      BY <1>0, <2>1, <2>2 DEF Files, TypeInv, TypeOK, Record
    <3>2. \A id \in Files' : id \in Files
      BY <1>0, <2>1, <2>2 DEF Files, TypeInv, TypeOK
    <3> QED BY <3>1, <3>2 DEF StoresNothing
  <2> QED BY <1>1, <1>5, <2>2 DEF MarkAttempted, MarkFails
<1>6. CASE Corrupt
  <2>1. PICK id \in Files, damage \in {"payload", "header"} :
          card' = [card EXCEPT ![id].integrity = damage]
    BY <1>6 DEF Corrupt
  <2> QED BY <1>0, <2>1 DEF StoresNothing, Files, TypeInv, TypeOK, Record
<1>7. CASE ExpireOldest \/ EvictOldest \/ Peek \/ \E id \in Ids : Acknowledge(id)
  BY <1>1, <1>3, <1>7 DEF ExpireOldest, EvictOldest, Peek, Acknowledge
<1> QED BY <1>1, <1>2, <1>4, <1>5, <1>6, <1>7
        DEF Next, LoopStep, vars, UpdateUnavailable, ExpireDone, EnqueueStart,
            EvictDone, WriteTemporary, EnqueueFailed, PowerLoss, StorageChanges,
            TimePasses

\* No step settles fewer samples or forgets an attempt.
LEMMA StepGrows ==
    ASSUME ReplayInv, [Next]_vars
    PROVE  /\ Settled \in Nat /\ Settled' \in Nat /\ Settled <= Settled'
           /\ attempted \subseteq attempted'
<1>0. TypeInv /\ TypeInv'
  BY TypeStep DEF ReplayInv
<1> USE DEF media, index, clocks, history
<1>1. attempted \subseteq attempted'
  BY DEF Next, LoopStep, vars, BeginAtBoot, UpdateRetry, Begin, Scan,
         UpdateUnavailable, ExpireOldest, ExpireDone, EnqueueStart, EvictOldest,
         EvictDone, WriteTemporary, RenameToRecord, MarkAttempted, MarkFails,
         Peek, Acknowledge, PowerLoss, StorageChanges, TimePasses, Corrupt
<1>2. CASE \E size \in Sizes, deferred \in BOOLEAN : EnqueueStart(size, deferred)
  <2>1. call = Idle /\ produced' = produced + 1 /\ produced \in Nat
    BY <1>0, <1>2 DEF EnqueueStart, TypeInv, TypeOK
  <2>2. Settled = produced /\ Settled' \in {produced', produced' - 1}
    BY <2>1, RestingCalls DEF Settled
  <2> QED BY <1>1, <2>1, <2>2
<1>3. CASE /\ produced' = produced
           /\ call'.op \in {"evict", "write", "rename"} =>
                 call.op \in {"evict", "write", "rename"}
  BY <1>0, <1>1, <1>3, SettledGrows, SettledType
<1>4. CASE Peek
  <2>1. produced' = produced /\ (call' = call \/ call'.op = "peeked")
    BY <1>4 DEF Peek, Call
  <2> QED BY <1>3, <2>1
<1>5. CASE EvictDone
  <2>1. call.op = "evict" /\ produced' = produced
    BY <1>5 DEF EvictDone
  <2> QED BY <1>3, <2>1
<1>6. CASE WriteTemporary
  <2>1. call.op = "write" /\ produced' = produced
    BY <1>6 DEF WriteTemporary
  <2> QED BY <1>3, <2>1
<1>7. CASE RenameToRecord
  <2>1. call.op = "rename" /\ produced' = produced
    BY <1>7 DEF RenameToRecord
  <2> QED BY <1>3, <2>1
<1>8. CASE EvictOldest
  <2>1. call.op = "evict" /\ produced' = produced
    BY <1>8 DEF EvictOldest
  <2> QED BY <1>3, <2>1
<1>9. CASE produced' = produced /\ call'.op \in {"idle", "boot", "expire"}
  BY <1>3, <1>9
<1>10. CASE produced' = produced /\ call' = call
  BY <1>3, <1>10
<1>11. CASE BeginAtBoot \/ UpdateRetry \/ ExpireOldest \/ ExpireDone
            \/ MarkAttempted \/ MarkFails \/ PowerLoss
  <2>1. produced' = produced
    BY <1>11 DEF BeginAtBoot, UpdateRetry, Begin, ExpireOldest, ExpireDone,
                 MarkAttempted, MarkFails, PowerLoss
  <2>2. call' \in {Idle, Expiring, Booting}
    BY <1>11 DEF BeginAtBoot, UpdateRetry, Begin, ExpireOldest, ExpireDone,
                 MarkAttempted, MarkFails, PowerLoss
  <2> QED BY <1>9, <2>1, <2>2, RestingCalls
<1>12. CASE UpdateUnavailable \/ StorageChanges \/ TimePasses \/ Corrupt
            \/ UNCHANGED vars \/ \E id \in Ids : Acknowledge(id)
  BY <1>10, <1>12 DEF UpdateUnavailable, StorageChanges, TimePasses, Corrupt,
                      vars, Acknowledge
<1> QED BY <1>2, <1>4, <1>5, <1>6, <1>7, <1>8, <1>11, <1>12 DEF Next, LoopStep

\* A sample that went out as a first delivery without an attempt on the card
\* took the live path: it is not in the spool and enqueue does not hold it.
FirstDeliveries ==
    /\ newSends \subseteq 1..Settled
    /\ \A s \in newSends : s \notin attempted =>
          \A id \in Files : card[id].sample # s

\* A sample enqueue refused is the newest one, and nobody has it.
RefusedIsFresh ==
    refused # 0 =>
        /\ call = Idle /\ refused = produced
        /\ refused \in 1..Settled
        /\ refused \notin newSends /\ refused \notin attempted
        /\ \A id \in Files : card[id].sample # refused

FirstInv == ReplayInv /\ FirstDeliveries /\ RefusedIsFresh /\ OnceAsNew

\* A step without a first delivery keeps what is known of them.
LEMMA SameNewSends ==
    ASSUME ReplayInv, FirstDeliveries, [Next]_vars, newSends' = newSends
    PROVE  FirstDeliveries'
<1>1. /\ Settled \in Nat /\ Settled' \in Nat /\ Settled <= Settled'
      /\ attempted \subseteq attempted'
  BY StepGrows
<1>2. newSends' \subseteq 1..Settled'
  BY <1>1 DEF FirstDeliveries
<1>3. ASSUME NEW s \in newSends', s \notin attempted', NEW id \in Files',
             card'[id].sample = s
      PROVE  FALSE
  <2>1. s \in newSends /\ s \notin attempted
    BY <1>1, <1>3
  <2>2. CASE id \in Files /\ card'[id].sample = card[id].sample
    BY <1>3, <2>1, <2>2 DEF FirstDeliveries
  <2>3. CASE StoresCall /\ s = produced
    <3>1. Settled = produced - 1 /\ produced \in Nat
      BY <2>3 DEF StoresCall, Settled, ReplayInv, TypeInv, TypeOK
    <3> QED BY <2>1, <2>3, <3>1 DEF FirstDeliveries
  <2> QED BY <1>3, <2>2, <2>3, StepFiles DEF StoresCall, StoresNothing
<1> QED BY <1>2, <1>3 DEF FirstDeliveries

\* Nothing was delivered at first.
LEMMA FirstInitInv == EdgeInit => FirstInv
<1> SUFFICES ASSUME EdgeInit PROVE FirstInv
  OBVIOUS
<1>1. ReplayInv
  BY ReplayInit DEF EdgeInit
<1>2. FirstDeliveries /\ RefusedIsFresh /\ OnceAsNew
  BY DEF EdgeInit, FirstDeliveries, RefusedIsFresh, OnceAsNew
<1> QED BY <1>1, <1>2 DEF FirstInv

\* The sample of a refused enqueue was the newest one and is stored nowhere.
LEMMA RefusesFresh ==
    ASSUME FirstInv, [Next]_vars, Refuses, newSends' = newSends,
           UNCHANGED <<produced, attempted>>, refused' = call.sample
    PROVE  RefusedIsFresh'
<1>1. /\ produced \in Nat /\ produced > 0 /\ call.sample = produced
      /\ Settled = produced - 1
  BY SettledType DEF Refuses, FirstInv, ReplayInv, TypeInv, CallOK, Settled
<1>2. Settled' = produced
  BY RestingCalls DEF Refuses, Settled
<1>3. call.sample \notin newSends /\ call.sample \notin attempted
  BY <1>1 DEF FirstInv, FirstDeliveries, ReplayInv, SamplesOK
<1>4. StoresNothing
  BY StepFiles DEF FirstInv, Refuses, StoresCall
<1>5. \A id \in Files' : card'[id].sample # call.sample
  BY <1>1, <1>4 DEF StoresNothing, FirstInv, ReplayInv, SamplesOK
<1> QED BY <1>1, <1>2, <1>3, <1>5 DEF RefusedIsFresh, Refuses

\* A sample enqueue refused at once is fresh.
LEMMA NewSampleFirst == ASSUME FirstInv, [Next]_vars, NewSample PROVE RefusedIsFresh'
<1>1. PICK size \in Sizes : EnqueueStart(size, Deferred)
  BY DEF NewSample
<1>2. /\ call = Idle /\ produced' = produced + 1 /\ produced \in Nat
      /\ newSends' = newSends /\ attempted' = attempted /\ card' = card
  BY <1>1 DEF NewSample, EnqueueStart, link, media, history, FirstInv, ReplayInv,
             TypeInv, TypeOK
<1>3. Settled = produced
  BY <1>2, RestingCalls DEF Settled
<1>4. CASE call' = Idle
  <2>1. refused' = produced + 1 /\ Settled' = produced + 1
    BY <1>2, <1>4, RestingCalls DEF NewSample, Settled
  <2>2. refused' \notin newSends' /\ refused' \notin attempted'
    BY <1>2, <1>3, <2>1 DEF FirstInv, FirstDeliveries, ReplayInv, SamplesOK
  <2>3. \A id \in Files' : card'[id].sample # refused'
    BY <1>2, <1>3, <2>1 DEF FirstInv, ReplayInv, SamplesOK, Files
  <2> QED BY <1>2, <1>4, <2>1, <2>2, <2>3 DEF RefusedIsFresh
<1>5. CASE call' # Idle
  BY <1>5 DEF NewSample, RefusedIsFresh
<1> QED BY <1>4, <1>5

\* The live path publishes a fresh sample.
LEMMA PublishLiveFirst ==
    ASSUME FirstInv, PublishLive
    PROVE  FirstDeliveries' /\ RefusedIsFresh' /\ OnceAsNew'
<1>1. UNCHANGED vars /\ refused' = 0
  BY DEF PublishLive
<1>2. RefusedIsFresh'
  BY <1>1 DEF RefusedIsFresh
<1>3. Files' = Files /\ Settled' = Settled
  <2>1. card' = card /\ call' = call /\ produced' = produced
    BY <1>1 DEF vars, history
  <2>2. Files' = Files
    BY <2>1 DEF Files
  <2>3. Settled' = Settled
    BY <2>1 DEF Settled
  <2> QED BY <2>2, <2>3
<1>4. CASE UNCHANGED link
  <2>1. UNCHANGED <<newSends, repeated, card, attempted>>
    BY <1>1, <1>4 DEF link, vars, history
  <2>2. FirstDeliveries'
    BY <1>3, <2>1 DEF FirstInv, FirstDeliveries
  <2>3. OnceAsNew'
    BY <2>1 DEF FirstInv, OnceAsNew
  <2> QED BY <1>2, <2>2, <2>3
<1>5. CASE Hand(LiveToken(refused), refused, FALSE)
  <2>1. /\ newSends' = newSends \cup {refused}
        /\ repeated' = (repeated \/ refused \in newSends)
    BY <1>5 DEF Hand
  <2>2. /\ refused \in 1..Settled /\ refused \notin newSends
        /\ \A id \in Files : card[id].sample # refused
    BY DEF PublishLive, FirstInv, RefusedIsFresh
  <2>3. FirstDeliveries'
    BY <1>1, <1>3, <2>1, <2>2 DEF FirstInv, FirstDeliveries, vars, history
  <2>4. OnceAsNew'
    BY <2>1, <2>2 DEF FirstInv, OnceAsNew
  <2> QED BY <1>2, <2>3, <2>4
<1> QED BY <1>4, <1>5 DEF PublishLive

\* The replay path says replayed unless nobody has published the sample yet.
LEMMA PublishOldestFirst ==
    ASSUME FirstInv, [Next]_vars, PublishOldest
    PROVE  FirstDeliveries' /\ RefusedIsFresh' /\ OnceAsNew'
<1>1. /\ call.op = "peeked" /\ call.id \in Files
      /\ card[call.id].sample = call.sample
      /\ attempted' = attempted \cup {call.sample}
      /\ refused' = refused
  BY DEF PublishOldest, MarkAttempted, FirstInv, ReplayInv, TypeInv, CallOK, Files
<1>2. refused = 0
  BY <1>1, RestingCalls DEF FirstInv, RefusedIsFresh
<1>3. RefusedIsFresh'
  BY <1>1, <1>2 DEF RefusedIsFresh
<1>4. call.sample \in 1..Settled
  BY <1>1 DEF FirstInv, ReplayInv, SamplesOK
<1>5. Settled \in Nat /\ Settled' \in Nat /\ Settled <= Settled'
  BY StepGrows DEF FirstInv
<1>6. StoresNothing
  BY <1>1, StepFiles DEF FirstInv, StoresCall
<1>7. newSends' \subseteq newSends \cup {call.sample}
  BY DEF PublishOldest, Hand
<1>8. FirstDeliveries'
  <2>1. newSends' \subseteq 1..Settled'
    BY <1>4, <1>5, <1>7 DEF FirstInv, FirstDeliveries
  <2>2. ASSUME NEW s \in newSends', s \notin attempted', NEW id \in Files'
        PROVE  card'[id].sample # s
    <3>1. s \in newSends /\ s \notin attempted
      BY <1>1, <1>7, <2>2
    <3> QED BY <1>6, <2>2, <3>1 DEF StoresNothing, FirstInv, FirstDeliveries
  <2> QED BY <2>1, <2>2 DEF FirstDeliveries
<1>9. OnceAsNew'
  <2>1. repeated' = (repeated \/ (~call.replayed /\ call.sample \in newSends))
    BY DEF PublishOldest, Hand
  <2>2. ~call.replayed => call.sample \notin attempted
    BY <1>1 DEF FirstInv, ReplayInv, ReplayFlagHonest
  <2>3. ~call.replayed => call.sample \notin newSends
    BY <1>1, <2>2 DEF FirstInv, FirstDeliveries
  <2> QED BY <2>1, <2>3 DEF FirstInv, OnceAsNew
<1> QED BY <1>3, <1>8, <1>9

\* Every step of the application keeps the count of first deliveries.
LEMMA FirstStep == FirstInv /\ [EdgeNext]_edgeVars => FirstInv'
<1> SUFFICES ASSUME FirstInv, [EdgeNext]_edgeVars PROVE FirstInv'
  OBVIOUS
<1>0. [Next]_vars /\ ReplayInv'
  BY EdgeStep, ReplayStep DEF FirstInv, ReplayInv
<1>1. CASE UNCHANGED <<newSends, repeated>> /\ RefusedIsFresh'
  BY <1>0, <1>1, SameNewSends DEF FirstInv, OnceAsNew
<1>2. CASE UNCHANGED <<newSends, repeated, refused, vars>>
  <2>1. RefusedIsFresh'
    BY <1>2 DEF FirstInv, RefusedIsFresh, vars, history, Settled, Files
  <2> QED BY <1>1, <1>2, <2>1
<1>3. CASE UNCHANGED edgeVars
  BY <1>2, <1>3 DEF edgeVars
<1>4. CASE NewSample
  BY <1>0, <1>1, <1>4, NewSampleFirst DEF NewSample, link
<1>5. CASE SpoolStep
  <2>1. UNCHANGED <<newSends, repeated, produced>>
    BY <1>5 DEF SpoolStep, link, BeginAtBoot, UpdateUnavailable, UpdateRetry,
                Begin, ExpireOldest, ExpireDone, EvictOldest, EvictDone,
                WriteTemporary, RenameToRecord, MarkFails, history
  <2>2. CASE Refuses
    <3>1. attempted' = attempted
      BY <1>5, <2>2 DEF SpoolStep, BeginAtBoot, UpdateUnavailable, UpdateRetry,
                Begin, ExpireOldest, ExpireDone, EvictOldest, EvictDone,
                WriteTemporary, RenameToRecord, MarkFails, history
    <3>2. refused' = call.sample
      BY <1>5, <2>2 DEF SpoolStep
    <3> QED BY <1>0, <1>1, <2>1, <2>2, <3>1, <3>2, RefusesFresh
  <2>3. CASE ~Refuses
    BY <1>1, <1>5, <2>1, <2>3 DEF SpoolStep, RefusedIsFresh
  <2> QED BY <2>2, <2>3
<1>6. CASE PublishLive
  BY <1>0, <1>6, PublishLiveFirst DEF FirstInv
<1>7. CASE PublishOldest
  BY <1>0, <1>7, PublishOldestFirst DEF FirstInv
<1>8. CASE PublishFails
  <2>1. refused = 0
    BY <1>8, RestingCalls
       DEF PublishFails, MarkAttempted, FirstInv, RefusedIsFresh
  <2> QED BY <1>1, <1>8, <2>1 DEF PublishFails, link, RefusedIsFresh
<1>9. CASE PeekOldest \/ TakeAck \/ Restart \/ Environment
  BY <1>1, <1>9 DEF PeekOldest, TakeAck, Restart, Environment, link, RefusedIsFresh
<1>10. CASE ExpirePending \/ BrokerReceives \/ PubackArrives \/ Connect
            \/ Disconnect
  BY <1>2, <1>10 DEF ExpirePending, BrokerReceives, PubackArrives, Connect,
                     Disconnect
<1> QED BY <1>3, <1>4, <1>5, <1>6, <1>7, <1>8, <1>9, <1>10 DEF EdgeNext

\* Over all boots, both paths and every failing card operation, a sample is
\* published at most once without replayed.
THEOREM EdgeOnceAsNew == EdgeSpec => []OnceAsNew
<1>1. FirstInv => OnceAsNew
  BY DEF FirstInv
<1> QED BY FirstInitInv, FirstStep, <1>1, PTL DEF EdgeSpec

-----------------------------------------------------------------------------
(* The numbers of records outlive the tokens that carry them               *)

\* Conditions under which no record's number is given to a later record while
\* an answer for the first is still awaited: answers are taken before the next
\* peek, the card leaves at most a header that is being rewritten in doubt, no
\* record grows too old, and the limits leave room for two records, so that
\* eviction never empties the spool.
NumbersLast ==
    /\ AnswerBetween = FALSE
    /\ FirstInDoubt
    /\ MaxEpoch <= MaxAge + 1
    /\ MaxRecords >= 2 /\ \A a, b \in Sizes : a + b <= MaxBytes

\* These conditions are stronger than those of the spool's own theorems.
LEMMA NumbersLastFaults ==
    ASSUME NumbersLast
    PROVE  NoOrphans /\ FirstInDoubt /\ FaultKinds \cap {"read", "corrupt"} = {}
BY DEF NumbersLast, FirstInDoubt, NoOrphans

SameSamples ==
    Files' = Files /\ \A id \in Files : card'[id].sample = card[id].sample

Removes(low) ==
    /\ low \in Files /\ First(low)
    /\ Files' = Files \ {low}
    /\ \A id \in Files' : card'[id].sample = card[id].sample

\* removeOldest removes the first record.
LEMMA UnlinkRemoves ==
    ASSUME TypeInv, IndexInv, ready, Removable,
           NEW dirOk \in Works("dir"), NEW sizeRead \in Works("read"),
           Unlink(dirOk, sizeRead)
    PROVE  Removes(oldest)
<1>1. /\ oldest \in Files /\ oldest = OldestOf(Files)
      /\ Files' = Files \ {oldest}
  BY UnlinkIndex
<1>2. \A id \in Files' : card'[id] = card[id]
  BY <1>1 DEF Unlink, Files, TypeInv, TypeOK
<1>3. First(oldest)
  BY <1>1, OldestIsFirst
<1> QED BY <1>1, <1>2, <1>3 DEF Removes

\* A removal by the eviction loop leaves a record.
LEMMA EvictionLeavesOne ==
    ASSUME NumbersLast, OrderInv, EvictOldest, Files' # Files
    PROVE  Removes(oldest) /\ Files' # {}
<1>0. /\ TypeInv /\ IndexInv /\ ready /\ "read" \notin FaultKinds
      /\ queued \in Nat /\ queued > 0 /\ call.size \in Sizes
  BY NumbersLastFaults
     DEF OrderInv, CardInv, EvictOldest, TypeInv, TypeOK, CallOK
<1>1. PICK dirOk \in Works("dir"), sizeRead \in Works("read") :
        Removable /\ Unlink(dirOk, sizeRead)
  BY DEF EvictOldest, media, Files
<1>2. /\ oldest \in Files /\ oldest = OldestOf(Files)
      /\ Files' = Files \ {oldest}
      /\ Cardinality(Files') = Cardinality(Files) - 1
  BY <1>0, <1>1, UnlinkIndex
<1>3. Removes(oldest)
  BY <1>0, <1>1, UnlinkRemoves
<1>5. Files' # {}
  <2> SUFFICES ASSUME Files' = {} PROVE FALSE
    OBVIOUS
  <2>1. Files = {oldest}
    BY <1>2
  <2>2. Cardinality(Files) = 1
    BY <2>1, FS_Singleton
  <2>3. SizeOnCard = card[oldest].size
    <3>1. SizeOnCard = card[oldest].size + SizeIn(card, Files \ {oldest})
      BY <1>0, <1>2, FilesFinite, FileSizes, SizeInRemove DEF SizeOnCard
    <3>2. Files \ {oldest} = {}
      BY <2>1
    <3>3. SizeIn(card, Files \ {oldest}) = 0
      BY <3>2, SizeInRec, FS_EmptySet
    <3> QED BY <1>0, <1>2, <3>1, <3>3, FileSizes
  <2>4. queued = 1 /\ bytes = card[oldest].size
    BY <1>0, <2>2, <2>3 DEF IndexInv
  <2>5. card[oldest].size \in Sizes
    BY <1>0, <1>2, FileSizes DEF Record
  <2>6. bytes + call.size <= MaxBytes
    BY <1>0, <2>4, <2>5 DEF NumbersLast
  <2>7. ExceedsLimits(call.size)
    BY DEF EvictOldest
  <2>8. queued < MaxRecords
    BY <2>4, Bounds DEF NumbersLast
  <2>9. call.size \in Nat /\ bytes \in Nat /\ MaxBytes \in Nat
    BY <1>0, <2>4, <2>5, SizesAreNumbers, QueueAssumption
  <2> QED BY <1>0, <2>6, <2>7, <2>8, <2>9, Bounds DEF ExceedsLimits
<1> QED BY <1>3, <1>5

\* While no header is torn, nothing expires, and peek drops nothing.
LEMMA NothingExpires ==
    ASSUME NumbersLast, OrderInv, NoTornRecord
    PROVE  ~Expired /\ ~(Peek /\ Files' # Files)
<1>0. /\ TypeInv /\ IndexInv /\ "read" \notin FaultKinds
  BY NumbersLastFaults DEF OrderInv, CardInv
<1>1. ASSUME oldest # 0, card[oldest] # NoFile
      PROVE  card[oldest] \in Record /\ card[oldest].integrity = "ok"
  <2>1. oldest \in Files
    BY <1>0, <1>1, Bounds DEF Files, Ids, TypeInv, TypeOK
  <2> QED BY <1>0, <2>1, FileSizes DEF NoTornRecord
<1>2. ~Expired
  <2> SUFFICES ASSUME Expired PROVE FALSE
    OBVIOUS
  <2>1. oldest # 0 /\ card[oldest] # NoFile
    BY DEF Expired
  <2>2. AgeSeconds(card[oldest].stamp) > MaxAge
    BY <1>1, <2>1 DEF Expired, Damaged
  <2>3. card[oldest].stamp \in 0..MaxEpoch /\ epoch \in 1..MaxEpoch
    BY <1>0, <1>1, <2>1 DEF Record, TypeInv, TypeOK
  <2>4. MaxEpoch \in Nat /\ MaxAge \in Nat
    BY QueueAssumption
  <2> QED BY <2>2, <2>3, <2>4 DEF AgeSeconds, Now, NumbersLast
<1>3. ASSUME Peek, card' # card PROVE FALSE
  <2>1. /\ ready /\ queued > 0 /\ oldest # 0 /\ Removable
    BY <1>3 DEF Peek, media
  <2>2. card[oldest] # NoFile
    BY <2>1 DEF Removable
  <2> QED BY <1>0, <1>1, <1>3, <2>1, <2>2 DEF Peek, media
<1> QED BY <1>2, <1>3 DEF Files

\* A step outside a call of peek tears nothing.
LEMMA NothingTears ==
    ASSUME NumbersLast, TypeInv, NoTornRecord, [Next]_vars, call.op # "peeked"
    PROVE  NoTornRecord'
<1>1. ~Damages
  BY NumbersLastFaults DEF Damages, MarkFails, Corrupt
<1>2. CASE KeepsRecords
  BY <1>1, <1>2 DEF KeepsRecords, NoTornRecord
<1>3. CASE StoresRecord
  BY <1>3, StoredRecord DEF NoTornRecord
<1> QED BY <1>2, <1>3, KeepsOrStores

\* Reopening the spool removes no record, or a torn one.
LEMMA BeginSamples ==
    ASSUME NumbersLast, FifoStoreInv, NEW id, Begin(id)
    PROVE  SameSamples \/ (~NoTornRecord /\ \E low \in Files : Removes(low))
<1>1. CASE card' = card
  BY <1>1 DEF SameSamples, Files
<1>2. CASE Scan
  <2>1. CASE Files' = Files
    BY <1>2, <2>1, ScanTakesFirst, NumbersLastFaults DEF FifoStoreInv, SameSamples
  <2>2. CASE \E low \in Files : /\ First(low) /\ card[low].integrity # "ok"
                                /\ Files' = Files \ {low}
    BY <1>2, <2>2, ScanTakesFirst, NumbersLastFaults
       DEF FifoStoreInv, Removes, NoTornRecord
  <2> QED BY <1>2, <2>1, <2>2, ScanTakesFirst, NumbersLastFaults DEF FifoStoreInv
<1> QED BY <1>1, <1>2 DEF Begin, media

\* What a step of the spool does to the samples on the card.
LEMMA SamplesStep ==
    ASSUME NumbersLast, FifoStoreInv, [Next]_vars
    PROVE  \/ SameSamples
           \/ StoresRecord
           \/ /\ \E low \in Files : Removes(low)
              /\ Files' # {} \/ acked' = acked + 1 \/ ~NoTornRecord
<1>0. OrderInv /\ TypeInv /\ IndexInv /\ NoOrphans /\ "read" \notin FaultKinds
  BY NumbersLastFaults DEF FifoStoreInv, OrderInv, CardInv
<1> USE DEF media, index, clocks, history
<1>1. CASE card' = card
  BY <1>1 DEF SameSamples, Files
<1>2. CASE \E id : Begin(id)
  BY <1>2, BeginSamples
<1>3. CASE EvictOldest
  <2>1. CASE Files' # Files
    BY <1>0, <1>3, <2>1, EvictionLeavesOne DEF Removes
  <2>2. CASE Files' = Files
    <3>1. card' = card
      BY <1>0, <1>3, <2>2, UnlinkIndex DEF EvictOldest, TypeInv, CallOK
    <3> QED BY <1>1, <3>1
  <2> QED BY <2>1, <2>2
<1>4. ASSUME NEW id \in Ids, Acknowledge(id)
      PROVE  Removes(oldest) /\ acked' = acked + 1
  BY <1>0, <1>4, UnlinkRemoves DEF Acknowledge
<1>5. CASE MarkAttempted \/ MarkFails \/ Corrupt
  <2>1. Files' = Files
    BY <1>0, <1>5, HeadersKeepFiles
  <2>2. CASE KeepsRecords
    BY <2>1, <2>2 DEF KeepsRecords, SameSamples
  <2> QED BY <1>0, <2>2, KeepsOrStores
<1>6. CASE Peek \/ ExpireOldest
  <2>1. ready
    BY <1>0, <1>6, RestingCalls DEF Peek, ExpireOldest, TypeInv, CallOK
  <2>2. CASE card' # card
    <3>1. Removable
      <4>1. ExpireOldest => Removable
        BY <1>0 DEF ExpireOldest, Expired, Removable, TypeInv, TypeOK
      <4> QED BY <1>6, <2>2, <4>1 DEF Peek
    <3>2. Removes(oldest)
      BY <1>0, <1>6, <2>1, <2>2, <3>1, UnlinkRemoves DEF Peek, ExpireOldest
    <3>3. ~NoTornRecord
      BY <1>0, <1>6, <3>2, NothingExpires DEF ExpireOldest, Removes
    <3> QED BY <3>2, <3>3 DEF Removes
  <2> QED BY <1>1, <2>2
<1>7. CASE RenameToRecord
  BY <1>1, <1>7 DEF RenameToRecord, EnqueueFailed, StoresRecord
<1>9. CASE UNCHANGED vars \/ UpdateUnavailable \/ UpdateRetry \/ ExpireDone
           \/ BeginAtBoot \/ EvictDone \/ WriteTemporary
  BY <1>1, <1>2, <1>9
     DEF vars, UpdateUnavailable, UpdateRetry, ExpireDone, BeginAtBoot, EvictDone,
         WriteTemporary, EnqueueFailed
<1>10. CASE \/ \E size \in Sizes, deferred \in BOOLEAN : EnqueueStart(size, deferred)
            \/ PowerLoss \/ StorageChanges \/ TimePasses
  BY <1>1, <1>10 DEF EnqueueStart, PowerLoss, StorageChanges, TimePasses
<1>11. (\E id \in Ids : Acknowledge(id)) =>
          \E low \in Files : Removes(low) /\ acked' = acked + 1
  BY <1>4 DEF Removes
<1> QED BY <1>3, <1>5, <1>6, <1>7, <1>9, <1>10, <1>11 DEF Next, LoopStep

\* Some file has this number or a later one, so the next record's is later.
Reserved(id) == \E j \in Files : id <= j

\* A number stays reserved, and its record the same, until it is acknowledged,
\* while no header is torn.
LEMMA ReservedStep ==
    ASSUME NumbersLast, FifoStoreInv, [Next]_vars, acked' = acked, NoTornRecord,
           NEW id \in Ids, Reserved(id)
    PROVE  /\ Reserved(id)'
           /\ id \in Files' => id \in Files /\ card'[id].sample = card[id].sample
<1>0. TypeInv /\ IndexInv /\ acked \in Nat
  BY DEF FifoStoreInv, OrderInv, CardInv, TypeInv, TypeOK
<1>1. Files \subseteq Nat /\ id \in Nat
  BY Bounds DEF Files, Ids
<1>2. PICK j \in Files : id <= j
  BY DEF Reserved
<1>3. CASE SameSamples
  BY <1>2, <1>3 DEF SameSamples, Reserved
<1>4. CASE StoresRecord
  <2>1. /\ ready /\ Files' = Files \cup {next} /\ next \in Ids
        /\ \A i \in Files : card'[i] = card[i]
    BY <1>0, <1>4, StoredRecord
  <2>2. j < next
    BY <1>0, <2>1 DEF IndexInv
  <2>3. id # next
    BY <1>1, <1>2, <2>1, <2>2, Bounds DEF Ids
  <2> QED BY <1>2, <2>1, <2>3 DEF Reserved
<1>5. ASSUME NEW low \in Files, Removes(low), Files' # {}
      PROVE  /\ Reserved(id)'
             /\ id \in Files' => id \in Files /\ card'[id].sample = card[id].sample
  <2>1. PICK k \in Files' : TRUE
    BY <1>5
  <2>2. CASE j = low
    <3>1. k \in Files /\ low <= k
      BY <1>5, <2>1 DEF Removes, First
    <3>2. id <= k
      BY <1>1, <1>2, <2>2, <3>1
    <3> QED BY <1>5, <2>1, <3>2 DEF Removes, Reserved
  <2>3. CASE j # low
    BY <1>2, <1>5, <2>3 DEF Removes, Reserved
  <2> QED BY <2>2, <2>3
<1> QED BY <1>0, <1>3, <1>4, <1>5, SamplesStep

-----------------------------------------------------------------------------
(* A record is removed only after its PUBACK                               *)

Messages == [id : 1..sends, sample : 1..MaxSamples, replayed : BOOLEAN]

\* The link's variables have the values the client and the library give them.
LinkOK ==
    /\ sends \in Nat
    /\ slot.id \in 0..sends
    /\ slot.id = 0 => slot = NoSlot
    /\ slot.id # 0 => slot.token \in Tokens
    /\ ack \in Tokens \cup {Nobody}
    /\ outbox \subseteq Messages
    /\ received \in Seq(1..MaxSamples)

\* The broker answers for what the backend has received.
Answered == \A p \in pubacks : \E m \in outbox : m.id = p /\ m.sample \in ReceivedSet

\* Between peek and publish there is no slot and no answer.
PeekedAlone == call.op = "peeked" => slot = NoSlot /\ ack = Nobody

\* While the slot carries the token of a record, no header is torn, the number is
\* not given away, and the message is about the record that has it.
SlotNames ==
    \A id \in Ids : slot.token = ReplayToken(id) =>
        /\ ack = Nobody
        /\ NoTornRecord /\ Reserved(id)
        /\ id \in Files =>
              \A m \in outbox : m.id = slot.id => m.sample = card[id].sample

\* So the record an answer names is one the backend has.
AckNames ==
    \A id \in Ids : ack = ReplayToken(id) =>
        /\ NoTornRecord /\ Reserved(id)
        /\ id \in Files => card[id].sample \in ReceivedSet

LinkInv == LinkOK /\ Answered /\ PeekedAlone /\ SlotNames /\ AckNames
           /\ RemovedOnlyAfterPuback

RemovalInv == FifoStoreInv /\ FirstInv /\ LinkInv

\* Tokens of different paths differ, and a replay token names one number.
LEMMA TokensDiffer ==
    /\ \A a, b \in Ids : ReplayToken(a) = ReplayToken(b) => a = b
    /\ \A s \in 1..MaxSamples :
          LiveToken(s) \in Tokens /\ \A a \in Ids : LiveToken(s) # ReplayToken(a)
    /\ \A a \in Ids : ReplayToken(a) \in Tokens /\ ReplayToken(a) # Nobody
    /\ \A t \in Tokens : t.kind = "replay" =>
          t.number \in Ids /\ t = ReplayToken(t.number)
    /\ Nobody \notin Tokens
<1>1. \A a, b \in Ids : ReplayToken(a) = ReplayToken(b) => a = b
  <2> SUFFICES ASSUME NEW a \in Ids, NEW b \in Ids, ReplayToken(a) = ReplayToken(b)
               PROVE  a = b
    OBVIOUS
  <2>1. ReplayToken(a).number = a /\ ReplayToken(b).number = b
    BY DEF ReplayToken
  <2> QED BY <2>1
<1>2. ASSUME NEW s \in 1..MaxSamples, NEW a \in Ids
      PROVE  LiveToken(s) # ReplayToken(a)
  <2>1. LiveToken(s).kind = "live" /\ ReplayToken(a).kind = "replay"
    BY DEF ReplayToken, LiveToken
  <2> QED BY <2>1
<1>3. \A s \in 1..MaxSamples : LiveToken(s) \in Tokens
  BY DEF Tokens
<1>4. Nobody \notin Tokens /\ \A a \in Ids : ReplayToken(a) \in Tokens
  BY DeliveryAssumption DEF Tokens
<1>5. ASSUME NEW t \in Tokens, t.kind = "replay"
      PROVE  t.number \in Ids /\ t = ReplayToken(t.number)
  <2>1. PICK a \in Ids : t = ReplayToken(a)
    BY <1>5 DEF Tokens, LiveToken
  <2>2. t.number = a
    BY <2>1 DEF ReplayToken
  <2> QED BY <2>1, <2>2
<1> QED BY <1>1, <1>2, <1>3, <1>4, <1>5

\* Nothing is sent or answered at first.
LEMMA RemovalInit == EdgeInit => RemovalInv
<1> SUFFICES ASSUME EdgeInit PROVE RemovalInv
  OBVIOUS
<1>1. OrderInv /\ FirstInv
  BY OrderInit, FirstInitInv DEF EdgeInit
<1>3. TornIsFirst
  BY RestingCalls DEF EdgeInit, Init, Files, TornIsFirst
<1>2. LinkInv
  <2>1. LinkOK /\ Answered /\ RemovedOnlyAfterPuback
    BY DEF EdgeInit, LinkOK, Answered, RemovedOnlyAfterPuback, NoSlot
  <2>2. SlotNames /\ AckNames /\ PeekedAlone
    BY TokensDiffer DEF EdgeInit, SlotNames, AckNames, PeekedAlone, NoSlot
  <2> QED BY <2>1, <2>2 DEF LinkInv
<1> QED BY <1>1, <1>2, <1>3 DEF RemovalInv, FifoStoreInv

\* A step of the spool that the link does not see keeps what the tokens mean.
LEMMA LinkKept ==
    ASSUME NumbersLast, RemovalInv, [Next]_vars, acked' = acked,
           UNCHANGED <<slot, ack, outbox, sends, received, removed>>,
           pubacks' \subseteq pubacks,
           call'.op = "peeked" => call' = call \/ (slot = NoSlot /\ ack = Nobody)
    PROVE  LinkInv'
<1>1. LinkOK' /\ RemovedOnlyAfterPuback' /\ ReceivedSet' = ReceivedSet
  BY DEF RemovalInv, LinkInv, LinkOK, RemovedOnlyAfterPuback, ReceivedSet, Messages
<1>2. Answered'
  BY <1>1 DEF RemovalInv, LinkInv, Answered
<1>3. PeekedAlone'
  BY DEF RemovalInv, LinkInv, PeekedAlone
<1>4. ASSUME NoTornRecord, NEW id \in Ids,
             slot.token = ReplayToken(id) \/ ack = ReplayToken(id)
      PROVE  NoTornRecord'
  <2>1. call.op # "peeked"
    BY <1>4, TokensDiffer DEF RemovalInv, LinkInv, PeekedAlone, NoSlot
  <2> QED BY <1>4, <2>1, NothingTears DEF RemovalInv, FifoStoreInv, OrderInv, CardInv
<1>5. SlotNames'
  <2> SUFFICES ASSUME NEW id \in Ids, slot.token = ReplayToken(id)
               PROVE  /\ ack = Nobody
                      /\ NoTornRecord' /\ Reserved(id)'
                      /\ id \in Files' =>
                            \A m \in outbox : m.id = slot.id => m.sample = card'[id].sample
    BY DEF SlotNames
  <2>1. NoTornRecord
    BY DEF RemovalInv, LinkInv, SlotNames
  <2> QED BY <1>4, <2>1, ReservedStep DEF RemovalInv, LinkInv, SlotNames
<1>6. AckNames'
  <2> SUFFICES ASSUME NEW id \in Ids, ack = ReplayToken(id)
               PROVE  /\ NoTornRecord' /\ Reserved(id)'
                      /\ id \in Files' => card'[id].sample \in ReceivedSet'
    BY DEF AckNames
  <2>1. NoTornRecord
    BY DEF RemovalInv, LinkInv, AckNames
  <2> QED BY <1>1, <1>4, <2>1, ReservedStep DEF RemovalInv, LinkInv, AckNames
<1> QED BY <1>1, <1>2, <1>3, <1>5, <1>6 DEF LinkInv

\* Only PeekOldest brings a call that has peeked.
LEMMA OnlyPeekPeeks ==
    ASSUME TypeInv, [EdgeNext]_edgeVars, call'.op = "peeked"
    PROVE  PeekOldest \/ call' = call
<1> USE RestingCalls DEF media, index, clocks, history
<1>1. CASE NewSample
  <2>1. PICK size \in Sizes : EnqueueStart(size, Deferred)
    BY <1>1 DEF NewSample
  <2> QED BY <2>1 DEF EnqueueStart, Call
<1>2. CASE SpoolStep
  <2>1. CASE EvictDone \/ WriteTemporary
    <3>1. \/ call'.op \in {"write", "rename"}
          \/ call' = Idle
      BY <2>1 DEF EvictDone, WriteTemporary, EnqueueFailed, TypeInv, TypeOK
    <3> QED BY <3>1
  <2>2. CASE EvictOldest
    BY <2>2 DEF EvictOldest
  <2>3. CASE \/ BeginAtBoot \/ UpdateUnavailable \/ UpdateRetry \/ ExpireOldest
             \/ ExpireDone \/ RenameToRecord \/ MarkFails
    BY <2>3 DEF BeginAtBoot, UpdateUnavailable, UpdateRetry, Begin, ExpireOldest,
                ExpireDone, RenameToRecord, MarkFails, EnqueueFailed
  <2> QED BY <1>2, <2>1, <2>2, <2>3 DEF SpoolStep
<1>3. CASE PublishOldest \/ PublishFails
  BY <1>3 DEF PublishOldest, PublishFails, MarkAttempted
<1>4. CASE Restart \/ Environment
  BY <1>4 DEF Restart, PowerLoss, Environment, StorageChanges, TimePasses, Corrupt
<1>5. CASE TakeAck
  BY <1>5 DEF TakeAck, Acknowledge, vars
<1>6. CASE \/ PublishLive \/ ExpirePending \/ BrokerReceives \/ PubackArrives
           \/ Connect \/ Disconnect \/ UNCHANGED edgeVars
  BY <1>6 DEF PublishLive, ExpirePending, BrokerReceives, PubackArrives, Connect,
              Disconnect, edgeVars, vars
<1> QED BY <1>1, <1>2, <1>3, <1>4, <1>5, <1>6 DEF EdgeNext

\* The replay path gives the token of the record it has peeked.
LEMMA PublishOldestLink ==
    ASSUME RemovalInv, PublishOldest
    PROVE  LinkInv'
<1>1. /\ call.op = "peeked" /\ call' = Idle /\ call.id \in Files /\ call.id \in Ids
      /\ card[call.id].sample = call.sample /\ call.sample \in 1..MaxSamples
      /\ card' = [card EXCEPT ![call.id].attempted = TRUE]
      /\ card[call.id] \in Record /\ card \in [Ids -> Record \cup {NoFile}]
  BY DEF PublishOldest, MarkAttempted, RemovalInv, FifoStoreInv, OrderInv, CardInv,
         TypeInv, TypeOK, CallOK, Files, Record
<1>2. Files' = Files /\ \A id \in Files : card'[id].sample = card[id].sample
  <2>1. card'[call.id] \in Record /\ card'[call.id].sample = card[call.id].sample
    <3>1. card'[call.id] = [card[call.id] EXCEPT !.attempted = TRUE]
      BY <1>1
    <3>2. card'[call.id] \in Record
      BY <1>1, <3>1, RecordUpdate, Zenon
    <3>3. card'[call.id].sample = card[call.id].sample
      BY <1>1, <3>1 DEF Record
    <3> QED BY <3>2, <3>3
  <2>2. \A id \in Ids : id # call.id => card'[id] = card[id]
    BY <1>1
  <2>3. Files' = Files
    BY HeadersKeepFiles
       DEF PublishOldest, RemovalInv, FifoStoreInv, OrderInv, CardInv
  <2> QED BY <1>1, <2>1, <2>2, <2>3 DEF Files
<1>9. NoTornRecord'
  <2>1. NoTornRecord
    BY <1>1 DEF RemovalInv, FifoStoreInv, TornIsFirst
  <2>2. \A id \in Files : card'[id].integrity = card[id].integrity
    BY <1>1 DEF Files, Record
  <2> QED BY <1>2, <2>1, <2>2 DEF NoTornRecord
<1>3. /\ sends' = sends + 1 /\ sends \in Nat
      /\ slot' = [id |-> sends + 1, token |-> ReplayToken(call.id)]
      /\ outbox' = outbox \cup {[id |-> sends + 1, sample |-> call.sample,
                                 replayed |-> call.replayed]}
      /\ ack = Nobody /\ ack' = Nobody /\ slot = NoSlot
      /\ UNCHANGED <<pubacks, received, removed>>
  BY <1>1 DEF PublishOldest, Hand, RemovalInv, LinkInv, LinkOK, PeekedAlone
<1>4. ReceivedSet' = ReceivedSet
  BY <1>3 DEF ReceivedSet
<1>5. LinkOK'
  <2>1. call.replayed \in BOOLEAN
    BY DEF RemovalInv, FifoStoreInv, OrderInv, CardInv, TypeInv, TypeOK
  <2>2. outbox' \subseteq Messages'
    BY <1>1, <1>3, <2>1 DEF RemovalInv, LinkInv, LinkOK, Messages
  <2> QED BY <1>1, <1>3, <2>2, TokensDiffer DEF RemovalInv, LinkInv, LinkOK
<1>6. Answered' /\ RemovedOnlyAfterPuback'
  BY <1>3, <1>4 DEF RemovalInv, LinkInv, Answered, RemovedOnlyAfterPuback
<1>7. PeekedAlone' /\ AckNames'
  BY <1>1, <1>3, RestingCalls, TokensDiffer DEF PeekedAlone, AckNames
<1>8. SlotNames'
  <2> SUFFICES ASSUME NEW id \in Ids, slot'.token = ReplayToken(id)
               PROVE  /\ Reserved(id)'
                      /\ \A m \in outbox' : m.id = sends + 1 => m.sample = card'[id].sample
    BY <1>3, <1>9 DEF SlotNames
  <2>1. id = call.id
    BY <1>1, <1>3, TokensDiffer
  <2>2. \A m \in outbox : m.id # sends + 1
    BY <1>3 DEF RemovalInv, LinkInv, LinkOK, Messages
  <2>3. Reserved(id)'
    BY <1>1, <1>2, <2>1, Bounds DEF Reserved, Ids
  <2> QED BY <1>1, <1>2, <1>3, <2>1, <2>2, <2>3
<1> QED BY <1>5, <1>6, <1>7, <1>8 DEF LinkInv

\* The live path uses a token no record has.
LEMMA PublishLiveLink ==
    ASSUME RemovalInv, PublishLive, Hand(LiveToken(refused), refused, FALSE)
    PROVE  LinkInv'
<1>1. call = Idle /\ UNCHANGED vars /\ refused \in 1..MaxSamples
  BY SettledType DEF PublishLive, RemovalInv, FirstInv, RefusedIsFresh, FifoStoreInv,
                     OrderInv, CardInv, TypeInv, TypeOK
<1>2. call' = call /\ card' = card /\ Files' = Files /\ NoTornRecord' = NoTornRecord
  BY <1>1 DEF vars, Files, NoTornRecord
<1>3. /\ sends' = sends + 1 /\ sends \in Nat
      /\ slot' = [id |-> sends + 1, token |-> LiveToken(refused)]
      /\ outbox' = outbox \cup {[id |-> sends + 1, sample |-> refused,
                                 replayed |-> FALSE]}
      /\ UNCHANGED <<ack, pubacks, received, removed>>
  BY DEF Hand, RemovalInv, LinkInv, LinkOK
<1>4. ReceivedSet' = ReceivedSet
  BY <1>3 DEF ReceivedSet
<1>5. LinkOK'
  <2>1. [id |-> sends + 1, sample |-> refused, replayed |-> FALSE] \in Messages'
    <3>1. sends + 1 \in 1..(sends + 1) /\ FALSE \in BOOLEAN
      BY <1>3
    <3> QED BY <1>1, <1>3, <3>1 DEF Messages
  <2>2. outbox \subseteq Messages'
    BY <1>3 DEF RemovalInv, LinkInv, LinkOK, Messages
  <2>3. outbox' \subseteq Messages'
    BY <1>3, <2>1, <2>2
  <2> QED BY <1>1, <1>3, <2>3, TokensDiffer DEF RemovalInv, LinkInv, LinkOK
<1>6. Answered' /\ RemovedOnlyAfterPuback'
  BY <1>3, <1>4 DEF RemovalInv, LinkInv, Answered, RemovedOnlyAfterPuback
<1>7. PeekedAlone'
  BY <1>1, <1>2, RestingCalls DEF PeekedAlone
<1>8. SlotNames'
  BY <1>1, <1>3, TokensDiffer DEF SlotNames
<1>9. AckNames'
  BY <1>2, <1>3, <1>4 DEF AckNames, Reserved, RemovalInv, LinkInv
<1> QED BY <1>5, <1>6, <1>7, <1>8, <1>9 DEF LinkInv

\* takeTelemetryAck removes the very sample the broker has answered for.
LEMMA TakeAckLink ==
    ASSUME RemovalInv, TakeAck
    PROVE  LinkInv'
<1>1. /\ ack # Nobody /\ ack' = Nobody /\ call = Idle
      /\ UNCHANGED <<slot, outbox, pubacks, sends, received>>
  BY DEF TakeAck
<1>2. call' = call /\ removed' \subseteq ReceivedSet
  <2>1. CASE /\ ack.kind = "replay" /\ Acknowledge(ack.number)
             /\ removed' = removed \cup {card[oldest].sample}
    <3>1. ack.number \in Ids /\ ack = ReplayToken(ack.number)
      BY <1>1, <2>1, TokensDiffer DEF RemovalInv, LinkInv, LinkOK
    <3>2. ack.number = oldest /\ oldest \in Files /\ call' = call
      BY <2>1, <3>1 DEF Acknowledge, Removable, Files
    <3>3. card[oldest].sample \in ReceivedSet
      BY <3>1, <3>2 DEF RemovalInv, LinkInv, AckNames
    <3> QED BY <2>1, <3>2, <3>3 DEF RemovalInv, LinkInv, RemovedOnlyAfterPuback
  <2>2. CASE UNCHANGED <<vars, removed>>
    BY <2>2 DEF vars, RemovalInv, LinkInv, RemovedOnlyAfterPuback
  <2> QED BY <2>1, <2>2 DEF TakeAck
<1>3. ReceivedSet' = ReceivedSet
  BY <1>1 DEF ReceivedSet
<1>4. LinkOK'
  BY <1>1 DEF RemovalInv, LinkInv, LinkOK, Messages
<1>5. Answered' /\ RemovedOnlyAfterPuback'
  BY <1>1, <1>2, <1>3 DEF RemovalInv, LinkInv, Answered, RemovedOnlyAfterPuback
<1>6. PeekedAlone'
  BY <1>1, <1>2, RestingCalls DEF PeekedAlone
<1>7. SlotNames' /\ AckNames'
  BY <1>1, TokensDiffer DEF SlotNames, AckNames, RemovalInv, LinkInv
<1> QED BY <1>4, <1>5, <1>6, <1>7 DEF LinkInv

\* The backend has the samples it had and the new one.
LEMMA ReceivedGrows ==
    ASSUME LinkOK, NEW m \in outbox,
           received' = IF m.sample \in ReceivedSet THEN received
                                                  ELSE Append(received, m.sample)
    PROVE  /\ received' \in Seq(1..MaxSamples)
           /\ ReceivedSet' = ReceivedSet \cup {m.sample}
<1>1. m.sample \in 1..MaxSamples /\ received \in Seq(1..MaxSamples)
  BY DEF LinkOK, Messages
<1>2. CASE m.sample \in ReceivedSet
  BY <1>1, <1>2 DEF ReceivedSet
<1>3. CASE m.sample \notin ReceivedSet
  <2>1. received' = Append(received, m.sample)
    BY <1>3
  <2>2. /\ received' \in Seq(1..MaxSamples)
        /\ DOMAIN received' = 1..(Len(received) + 1) /\ Len(received) \in Nat
        /\ DOMAIN received = 1..Len(received)
        /\ received'[Len(received) + 1] = m.sample
        /\ \A i \in 1..Len(received) : received'[i] = received[i]
    <3>1. Len(received) \in Nat /\ DOMAIN received = 1..Len(received)
      BY <1>1
    <3>2. received' \in Seq(1..MaxSamples) /\ Len(received') = Len(received) + 1
      <4>1. /\ Append(received, m.sample) \in Seq(1..MaxSamples)
            /\ Len(Append(received, m.sample)) = Len(received) + 1
        BY <1>1
      <4> QED BY <2>1, <4>1, Zenon
    <3>3. DOMAIN received' = 1..(Len(received) + 1)
      BY <3>2
    <3>4. received'[Len(received) + 1] = m.sample
      BY <1>1, <2>1
    <3>5. \A i \in 1..Len(received) : received'[i] = received[i]
      BY <1>1, <2>1
    <3> QED BY <3>1, <3>2, <3>3, <3>4, <3>5
  <2>3. ReceivedSet' \subseteq ReceivedSet \cup {m.sample}
    <3>1. ASSUME NEW i \in 1..(Len(received) + 1)
          PROVE  received'[i] \in ReceivedSet \cup {m.sample}
      <4>1. CASE i = Len(received) + 1
        BY <2>2, <4>1
      <4>2. CASE i \in 1..Len(received)
        BY <2>2, <4>2 DEF ReceivedSet
      <4> QED BY <2>2, <4>1, <4>2
    <3> QED BY <2>2, <3>1 DEF ReceivedSet
  <2>4. ReceivedSet \subseteq ReceivedSet'
    BY <2>2 DEF ReceivedSet
  <2>5. m.sample \in ReceivedSet'
    BY <2>2 DEF ReceivedSet
  <2> QED BY <2>2, <2>3, <2>4, <2>5
<1> QED BY <1>2, <1>3

\* The broker answers for what it has passed on.
LEMMA BrokerReceivesLink ==
    ASSUME RemovalInv, BrokerReceives
    PROVE  LinkInv'
<1>1. PICK m \in outbox :
        /\ pubacks' = pubacks \cup {m.id}
        /\ received' = IF m.sample \in ReceivedSet THEN received
                                                   ELSE Append(received, m.sample)
  BY DEF BrokerReceives
<1>2. /\ received' \in Seq(1..MaxSamples)
      /\ ReceivedSet' = ReceivedSet \cup {m.sample}
  BY <1>1, ReceivedGrows DEF RemovalInv, LinkInv
<1>3. /\ UNCHANGED <<slot, ack, outbox, sends, removed>>
      /\ call' = call /\ card' = card /\ Files' = Files
      /\ NoTornRecord' = NoTornRecord
  BY DEF BrokerReceives, vars, Files, NoTornRecord
<1>4. LinkOK' /\ Answered' /\ RemovedOnlyAfterPuback'
  BY <1>1, <1>2, <1>3
     DEF RemovalInv, LinkInv, LinkOK, Messages, Answered, RemovedOnlyAfterPuback
<1>5. PeekedAlone' /\ SlotNames' /\ AckNames'
  BY <1>2, <1>3 DEF RemovalInv, LinkInv, PeekedAlone, SlotNames, AckNames, Reserved
<1> QED BY <1>4, <1>5 DEF LinkInv

\* The answer for the slot's message is an answer for its record.
LEMMA PubackArrivesLink ==
    ASSUME RemovalInv, PubackArrives
    PROVE  LinkInv'
<1>1. PICK id \in pubacks :
        /\ pubacks' = pubacks \ {id}
        /\ outbox' = {m \in outbox : m.id # id}
        /\ Answers(id)
  BY DEF PubackArrives
<1>2. /\ UNCHANGED <<sends, received, removed>>
      /\ call' = call /\ card' = card /\ Files' = Files /\ ReceivedSet' = ReceivedSet
      /\ NoTornRecord' = NoTornRecord
  BY DEF PubackArrives, vars, Files, ReceivedSet, NoTornRecord
<1>3. PICK m \in outbox : m.id = id /\ m.sample \in ReceivedSet
  BY <1>1 DEF RemovalInv, LinkInv, Answered
<1>4. id # 0 /\ sends \in Nat /\ 0 \in 0..sends
  BY <1>3 DEF RemovalInv, LinkInv, LinkOK, Messages
<1>5. Answered' /\ RemovedOnlyAfterPuback'
  BY <1>1, <1>2 DEF RemovalInv, LinkInv, Answered, RemovedOnlyAfterPuback
<1>6. CASE id = slot.id
  <2>1. slot' = NoSlot /\ ack' = slot.token
    BY <1>1, <1>6 DEF Answers
  <2>2. LinkOK'
    BY <1>1, <1>2, <1>4, <1>6, <2>1 DEF RemovalInv, LinkInv, LinkOK, Messages, NoSlot
  <2>3. PeekedAlone' /\ SlotNames'
    BY <1>2, <1>4, <1>6, <2>1, TokensDiffer
       DEF RemovalInv, LinkInv, PeekedAlone, SlotNames, NoSlot
  <2>4. AckNames'
    <3> SUFFICES ASSUME NEW n \in Ids, slot.token = ReplayToken(n)
                 PROVE  /\ NoTornRecord /\ Reserved(n)'
                        /\ n \in Files => card[n].sample \in ReceivedSet
      BY <1>2, <2>1 DEF AckNames
    <3>1. NoTornRecord /\ Reserved(n) /\ (n \in Files => m.sample = card[n].sample)
      BY <1>3, <1>6 DEF RemovalInv, LinkInv, SlotNames
    <3> QED BY <1>2, <1>3, <3>1 DEF Reserved
  <2> QED BY <1>5, <2>2, <2>3, <2>4 DEF LinkInv
<1>7. CASE id # slot.id
  <2>1. UNCHANGED <<slot, ack>>
    BY <1>1, <1>7 DEF Answers
  <2>2. LinkOK' /\ PeekedAlone'
    BY <1>1, <1>2, <2>1 DEF RemovalInv, LinkInv, LinkOK, Messages, PeekedAlone
  <2>3. SlotNames' /\ AckNames'
    BY <1>1, <1>2, <2>1 DEF RemovalInv, LinkInv, SlotNames, AckNames, Reserved
  <2> QED BY <1>5, <2>2, <2>3 DEF LinkInv
<1> QED BY <1>6, <1>7

\* Every step of the application keeps what slot and answer mean.
LEMMA RemovalStep ==
    ASSUME NumbersLast
    PROVE  RemovalInv /\ [EdgeNext]_edgeVars => RemovalInv'
<1> SUFFICES ASSUME RemovalInv, [EdgeNext]_edgeVars PROVE RemovalInv'
  OBVIOUS
<1>0. /\ TypeInv /\ [Next]_vars /\ FifoStoreInv' /\ FirstInv'
      /\ (call'.op = "peeked" => PeekOldest \/ call' = call)
  BY EdgeStep, OrderStep, TornIsFirstStep, FirstStep, NumbersLastFaults, OnlyPeekPeeks
     DEF RemovalInv, FifoStoreInv, OrderInv, CardInv
<1>1. CASE /\ acked' = acked /\ pubacks' \subseteq pubacks
           /\ UNCHANGED <<slot, ack, outbox, sends, received, removed>>
           /\ call'.op = "peeked" => call' = call \/ (slot = NoSlot /\ ack = Nobody)
  BY <1>0, <1>1, LinkKept DEF RemovalInv
<1>2. CASE PublishLive
  <2>1. CASE UNCHANGED link
    BY <1>0, <1>1, <1>2, <2>1 DEF PublishLive, link, vars, history
  <2> QED BY <1>0, <1>2, <2>1, PublishLiveLink DEF PublishLive, RemovalInv
<1>3. CASE PublishOldest
  BY <1>0, <1>3, PublishOldestLink DEF RemovalInv
<1>4. CASE TakeAck
  BY <1>0, <1>4, TakeAckLink DEF RemovalInv
<1>5. CASE ExpirePending
  <2>1. /\ call' = call /\ call = Idle /\ slot' = NoSlot /\ card' = card
        /\ Files' = Files /\ ReceivedSet' = ReceivedSet
        /\ NoTornRecord' = NoTornRecord
        /\ UNCHANGED <<ack, outbox, pubacks, sends, received, removed>>
    BY <1>5 DEF ExpirePending, GivenUp, vars, Files, ReceivedSet, NoTornRecord
  <2>2. LinkOK' /\ Answered' /\ RemovedOnlyAfterPuback'
    BY <2>1 DEF RemovalInv, LinkInv, LinkOK, Messages, Answered,
                RemovedOnlyAfterPuback, NoSlot
  <2>3. PeekedAlone' /\ SlotNames' /\ AckNames'
    BY <2>1, TokensDiffer, RestingCalls
       DEF RemovalInv, LinkInv, PeekedAlone, SlotNames, AckNames, Reserved, NoSlot
  <2> QED BY <1>0, <2>2, <2>3 DEF RemovalInv, LinkInv
<1>6. CASE BrokerReceives
  BY <1>0, <1>6, BrokerReceivesLink DEF RemovalInv
<1>7. CASE PubackArrives
  BY <1>0, <1>7, PubackArrivesLink DEF RemovalInv
<1>8. CASE Restart
  <2>1. /\ slot' = NoSlot /\ ack' = Nobody /\ outbox' = {} /\ pubacks' = {}
        /\ UNCHANGED <<sends, received, removed>> /\ ReceivedSet' = ReceivedSet
    BY <1>8 DEF Restart, ReceivedSet
  <2>2. LinkOK' /\ Answered' /\ RemovedOnlyAfterPuback'
    BY <2>1 DEF RemovalInv, LinkInv, LinkOK, Messages, Answered,
                RemovedOnlyAfterPuback, NoSlot
  <2>3. PeekedAlone' /\ SlotNames' /\ AckNames'
    BY <2>1, TokensDiffer DEF PeekedAlone, SlotNames, AckNames, NoSlot
  <2> QED BY <1>0, <2>2, <2>3 DEF RemovalInv, LinkInv
<1>9. CASE PeekOldest
  <2>1. slot = NoSlot /\ ack = Nobody
    BY <1>9 DEF PeekOldest, Pending, NumbersLast, RemovalInv, LinkInv, LinkOK
  <2> QED BY <1>1, <1>9, <2>1 DEF PeekOldest, Peek, link, history
<1>10. CASE NewSample \/ SpoolStep \/ PublishFails \/ Environment
  <2>1. UNCHANGED link
    BY <1>10 DEF NewSample, SpoolStep, PublishFails, Environment
  <2>3. PeekOldest => slot = NoSlot /\ ack = Nobody
    BY DEF PeekOldest, Pending, NumbersLast, RemovalInv, LinkInv, LinkOK
  <2>2. acked' = acked
    BY <1>10 DEF NewSample, EnqueueStart, SpoolStep, PublishFails, Environment,
         MarkAttempted, StorageChanges, TimePasses, Corrupt, BeginAtBoot,
         UpdateUnavailable, UpdateRetry, Begin, ExpireOldest, ExpireDone,
         EvictOldest, EvictDone, WriteTemporary, RenameToRecord, MarkFails, history
  <2> QED BY <1>0, <1>1, <2>1, <2>2, <2>3 DEF link
<1>11. CASE Connect \/ Disconnect \/ UNCHANGED edgeVars
  BY <1>1, <1>11 DEF Connect, Disconnect, edgeVars, vars, history
<1> QED BY <1>2, <1>3, <1>4, <1>5, <1>6, <1>7, <1>8, <1>9, <1>10, <1>11 DEF EdgeNext

\* A record is removed from the spool only after the broker has answered for
\* that very sample, through any restart, lost answer, failing card operation or
\* torn header, as long as no number returns too early.
THEOREM EdgeRemoval ==
    ASSUME NumbersLast
    PROVE  EdgeSpec => []RemovedOnlyAfterPuback
<1>1. RemovalInv => RemovedOnlyAfterPuback
  BY DEF RemovalInv, LinkInv
<1>2. RemovalInv /\ [EdgeNext]_edgeVars => RemovalInv'
  BY RemovalStep
<1> QED BY RemovalInit, <1>1, <1>2, PTL DEF EdgeSpec

-----------------------------------------------------------------------------
(* The backend gets what the spool keeps in the order it was taken         *)

Held == {card[id].sample : id \in Files}
Sent == {m.sample : m \in outbox} \cup ReceivedSet
Known == Held \cup removed

\* What was given to the library was marked on the card or went out as new.
SentAttempted == Sent \subseteq attempted \cup newSends

\* What was sent and is not lost is no younger than what the spool holds.
SentFirst == \A t \in Sent \cap Known, s \in Held : t <= s

\* Peek offers the oldest sample.
PeekedFirst == call.op = "peeked" => \A s \in Held : call.sample <= s

\* The backend got what is not lost in the order it was taken.
ReceivedSorted ==
    \A i, j \in DOMAIN received :
        i < j /\ received[i] \in Known /\ received[j] \in Known =>
            received[i] < received[j]

FifoParts == SentAttempted /\ SentFirst /\ PeekedFirst /\ ReceivedSorted
FifoInv == RemovalInv /\ FifoParts

\* Samples leave the card in a step of the spool, or enqueue's joins them.
LEMMA HeldStep ==
    ASSUME NumbersLast, FifoStoreInv, [Next]_vars
    PROVE  Held' \subseteq Held \/ (StoresRecord /\ Held' = Held \cup {produced})
<1>1. CASE SameSamples
  <2>1. \A id \in Files' : id \in Files /\ card'[id].sample = card[id].sample
    BY <1>1 DEF SameSamples
  <2> QED BY <2>1 DEF Held
<1>2. CASE \E low \in Files : Removes(low)
  <2>1. \A id \in Files' : id \in Files /\ card'[id].sample = card[id].sample
    BY <1>2 DEF Removes
  <2> QED BY <2>1 DEF Held
<1>3. CASE StoresRecord
  <2>1. /\ Files' = Files \cup {next} /\ card'[next].sample = produced
        /\ next \notin Files
        /\ \A id \in Files : card'[id] = card[id]
    BY <1>3, StoredRecord DEF FifoStoreInv, OrderInv, CardInv
  <2>2. Held' = Held \cup {produced}
    BY <2>1 DEF Held
  <2> QED BY <1>3, <2>2
<1> QED BY <1>1, <1>2, <1>3, SamplesStep

\* The samples that were sent are among the settled ones.
LEMMA SentSettled ==
    ASSUME FifoInv
    PROVE  /\ Sent \subseteq 1..Settled /\ Held \subseteq 1..Settled
           /\ Settled \in Nat /\ removed \subseteq Sent
           /\ call.op = "rename" => Settled = produced - 1 /\ produced \in Nat
<1>1. Settled \in Nat
  BY SettledType DEF FifoInv, RemovalInv, FifoStoreInv, OrderInv, CardInv
<1>2. Sent \subseteq 1..Settled
  BY DEF FifoInv, FifoParts, SentAttempted, RemovalInv, FifoStoreInv, OrderInv, ReplayInv,
         SamplesOK, FirstInv, FirstDeliveries
<1>3. Held \subseteq 1..Settled
  BY DEF Held, FifoInv, RemovalInv, FifoStoreInv, OrderInv, ReplayInv, SamplesOK
<1>4. removed \subseteq Sent
  BY DEF Sent, FifoInv, RemovalInv, LinkInv, RemovedOnlyAfterPuback
<1>5. call.op = "rename" => Settled = produced - 1 /\ produced \in Nat
  BY DEF Settled, FifoInv, RemovalInv, FifoStoreInv, OrderInv, CardInv, TypeInv, TypeOK
<1> QED BY <1>1, <1>2, <1>3, <1>4, <1>5

\* Peek takes the sample that was taken first.
LEMMA PeekIsFirst ==
    ASSUME NumbersLast, OrderInv, Peek
    PROVE  call' = call \/ \A s \in Held : call'.sample <= s
<1> SUFFICES ASSUME call' # call, NEW id \in Files
             PROVE  call'.sample <= card[id].sample
  BY DEF Held
<1>1. /\ ready /\ oldest # 0 /\ card[oldest] # NoFile
      /\ call'.sample = card[oldest].sample
  BY DEF Peek, Call
<1>2. oldest = OldestOf(Files)
  BY <1>1 DEF OrderInv, CardInv, IndexInv
<1>3. oldest \in Files /\ oldest <= id
  BY <1>2, OldestOfFiles DEF Files
<1>4. card[oldest].sample \in Nat /\ card[id].sample \in Nat
  BY <1>3, SettledType DEF OrderInv, CardInv, ReplayInv, SamplesOK
<1>5. oldest \in Nat /\ id \in Nat
  BY <1>3, Bounds DEF Files, Ids
<1> QED BY <1>1, <1>3, <1>4, <1>5 DEF OrderInv, InOrder

\* A step that sends and receives nothing keeps the order.
LEMMA FifoKept ==
    ASSUME NumbersLast, FifoInv, [Next]_vars, newSends \subseteq newSends',
           UNCHANGED received, outbox' \subseteq outbox,
           removed' \subseteq removed \cup Held,
           call'.op = "peeked" => call' = call \/ Peek
    PROVE  FifoParts'
<1>0. FifoStoreInv /\ OrderInv /\ ReplayInv
  BY DEF FifoInv, RemovalInv, FifoStoreInv, OrderInv
<1>1. attempted \subseteq attempted'
  BY <1>0, StepGrows
<1>2. ReceivedSet' = ReceivedSet /\ Sent' \subseteq Sent
  BY DEF ReceivedSet, Sent
<1>3. SentAttempted'
  BY <1>1, <1>2 DEF FifoInv, FifoParts, SentAttempted
<1>4. CASE Held' \subseteq Held
  <2>1. Known' \subseteq Known
    BY <1>4 DEF Known
  <2>2. SentFirst'
    BY <1>2, <1>4, <2>1 DEF FifoInv, FifoParts, SentFirst
  <2>3. ReceivedSorted'
    BY <2>1 DEF FifoInv, FifoParts, ReceivedSorted
  <2>4. PeekedFirst'
    <3>1. CASE call' = call
      BY <1>4, <3>1 DEF FifoInv, FifoParts, PeekedFirst
    <3>2. CASE Peek /\ call' # call
      BY <1>0, <1>4, <3>2, PeekIsFirst DEF PeekedFirst
    <3> QED BY <3>1, <3>2 DEF PeekedFirst
  <2> QED BY <1>3, <2>2, <2>3, <2>4 DEF FifoParts
<1>5. CASE StoresRecord /\ Held' = Held \cup {produced}
  <2>1. /\ call.op = "rename" /\ call'.op # "peeked"
        /\ \A t \in Sent : t < produced /\ t \in Nat
        /\ produced \in Nat /\ \A s \in Held : s \in Nat
    BY <1>5, SentSettled DEF StoresRecord, Peek, Idle, Call
  <2>2. Known' \subseteq Known \cup {produced}
    BY <1>5 DEF Known
  <2>3. \A t \in Sent' \cap Known' : t \in Known /\ t < produced
    BY <1>2, <2>1, <2>2
  <2>4. SentFirst'
    BY <1>2, <1>5, <2>1, <2>3 DEF FifoInv, FifoParts, SentFirst
  <2>5. ReceivedSorted'
    <3>1. \A i \in DOMAIN received : received[i] \in Sent'
      BY <1>2 DEF Sent, ReceivedSet
    <3> QED BY <2>3, <3>1 DEF FifoInv, FifoParts, ReceivedSorted
  <2>6. PeekedFirst'
    BY <2>1 DEF PeekedFirst
  <2> QED BY <1>3, <2>4, <2>5, <2>6 DEF FifoParts
<1> QED BY <1>0, <1>4, <1>5, HeldStep

\* What is given to the library is sent.
LEMMA SentAdds ==
    ASSUME NEW x, outbox' = outbox \cup {x}, ReceivedSet' = ReceivedSet
    PROVE  Sent' = Sent \cup {x.sample}
BY DEF Sent

\* The sample of the live path is neither on the card nor removed.
LEMMA PublishLiveFifo ==
    ASSUME FifoInv, PublishLive, Hand(LiveToken(refused), refused, FALSE)
    PROVE  FifoParts'
<1>1. /\ UNCHANGED vars /\ refused # 0
      /\ newSends' = newSends \cup {refused}
      /\ outbox' = outbox \cup {[id |-> sends + 1, sample |-> refused,
                                 replayed |-> FALSE]}
      /\ UNCHANGED <<received, removed>>
  BY DEF PublishLive, Hand
<1>2. UNCHANGED <<call, card, attempted>> /\ Files' = Files
  BY <1>1 DEF vars, history, Files
<1>3. Held' = Held /\ Known' = Known /\ ReceivedSet' = ReceivedSet
  BY <1>1, <1>2 DEF Held, Known, ReceivedSet
<1>4. Sent' = Sent \cup {refused}
  <2> DEFINE x == [id |-> sends + 1, sample |-> refused, replayed |-> FALSE]
  <2>1. outbox' = outbox \cup {x} /\ x.sample = refused
    BY <1>1
  <2> HIDE DEF x
  <2> QED BY <1>3, <2>1, SentAdds
<1>5. refused \notin Known
  <2>1. refused \notin Held /\ refused \notin attempted \cup newSends
    BY <1>1 DEF Held, FifoInv, RemovalInv, FirstInv, RefusedIsFresh
  <2>2. removed \subseteq attempted \cup newSends
    BY SentSettled DEF FifoInv, FifoParts, SentAttempted
  <2> QED BY <2>1, <2>2 DEF Known
<1>6. SentAttempted' /\ SentFirst'
  BY <1>1, <1>2, <1>3, <1>4, <1>5 DEF FifoInv, FifoParts, SentAttempted, SentFirst
<1>7. PeekedFirst' /\ ReceivedSorted'
  BY <1>1, <1>2, <1>3 DEF FifoInv, FifoParts, PeekedFirst, ReceivedSorted
<1> QED BY <1>6, <1>7 DEF FifoParts

\* The replay path sends what was taken first.
LEMMA PublishOldestFifo ==
    ASSUME NumbersLast, FifoInv, [Next]_vars, PublishOldest
    PROVE  FifoParts'
<1>1. /\ call.op = "peeked" /\ call' = Idle
      /\ attempted' = attempted \cup {call.sample}
      /\ newSends \subseteq newSends'
      /\ outbox' = outbox \cup {[id |-> sends + 1, sample |-> call.sample,
                                 replayed |-> call.replayed]}
      /\ UNCHANGED <<received, removed>>
  BY DEF PublishOldest, MarkAttempted, Hand
<1>2. Held' \subseteq Held
  BY <1>1, HeldStep DEF FifoInv, RemovalInv, StoresRecord
<1>3. Known' \subseteq Known /\ ReceivedSet' = ReceivedSet
  BY <1>1, <1>2 DEF Known, ReceivedSet
<1>4. Sent' = Sent \cup {call.sample}
  <2> DEFINE x == [id |-> sends + 1, sample |-> call.sample, replayed |-> call.replayed]
  <2>1. outbox' = outbox \cup {x} /\ x.sample = call.sample
    BY <1>1
  <2> HIDE DEF x
  <2> QED BY <1>3, <2>1, SentAdds
<1>5. SentAttempted'
  BY <1>1, <1>4 DEF FifoInv, FifoParts, SentAttempted
<1>6. SentFirst'
  BY <1>1, <1>2, <1>3, <1>4 DEF FifoInv, FifoParts, SentFirst, PeekedFirst
<1>7. PeekedFirst' /\ ReceivedSorted'
  BY <1>1, <1>3, RestingCalls DEF FifoInv, FifoParts, PeekedFirst, ReceivedSorted
<1> QED BY <1>5, <1>6, <1>7 DEF FifoParts

\* What arrives for the first time is younger than what arrived before.
LEMMA BrokerReceivesFifo ==
    ASSUME FifoInv, BrokerReceives
    PROVE  FifoParts'
<1>1. PICK m \in outbox :
        received' = IF m.sample \in ReceivedSet THEN received
                                              ELSE Append(received, m.sample)
  BY DEF BrokerReceives
<1>2. ReceivedSet' = ReceivedSet \cup {m.sample} /\ m.sample \in Sent
  BY <1>1, ReceivedGrows DEF FifoInv, RemovalInv, LinkInv, Sent
<1>3. /\ UNCHANGED <<outbox, removed, newSends, call, card, attempted>>
      /\ Files' = Files
  BY DEF BrokerReceives, vars, history, Files
<1>4. Held' = Held /\ Known' = Known
  BY <1>3 DEF Held, Known
<1>5. Sent' = Sent
  BY <1>2, <1>3 DEF Sent
<1>6. SentAttempted' /\ SentFirst' /\ PeekedFirst'
  BY <1>3, <1>4, <1>5 DEF FifoInv, FifoParts, SentAttempted, SentFirst, PeekedFirst
<1>7. ReceivedSorted'
  <2>1. CASE m.sample \in ReceivedSet
    BY <1>1, <1>4, <2>1 DEF FifoInv, FifoParts, ReceivedSorted
  <2>2. CASE m.sample \notin ReceivedSet
    <3>1. received \in Seq(1..MaxSamples) /\ m.sample \in 1..MaxSamples
      BY DEF FifoInv, RemovalInv, LinkInv, LinkOK, Messages
    <3>2. received' = Append(received, m.sample)
      BY <1>1, <2>2
    <3> SUFFICES ASSUME NEW i \in DOMAIN received', NEW j \in DOMAIN received', i < j,
                        received'[i] \in Known, received'[j] \in Known
                 PROVE  received'[i] < received'[j]
      BY <1>4 DEF ReceivedSorted
    <3>3. /\ Len(received) \in Nat /\ DOMAIN received = 1..Len(received)
          /\ i \in 1..Len(received)
          /\ received'[i] = received[i]
          /\ j \in 1..(Len(received) + 1)
      BY <3>1, <3>2
    <3>4. CASE j \in 1..Len(received)
      <4>1. received'[j] = received[j]
        BY <3>1, <3>2, <3>4
      <4> QED BY <3>3, <3>4, <4>1 DEF FifoInv, FifoParts, ReceivedSorted
    <3>5. CASE j = Len(received) + 1
      <4>1. received'[j] = m.sample
        BY <3>1, <3>2, <3>5
      <4>2. m.sample \in Held
        BY <2>2, <4>1 DEF Known, FifoInv, RemovalInv, LinkInv, RemovedOnlyAfterPuback
      <4>3. received[i] \in ReceivedSet
        BY <3>3 DEF ReceivedSet
      <4>4. received[i] \in Sent \cap Known
        BY <3>3, <4>3 DEF Sent
      <4>5. received[i] <= m.sample
        BY <4>2, <4>4 DEF FifoInv, FifoParts, SentFirst
      <4>6. received[i] # m.sample
        BY <2>2, <4>3
      <4>7. received[i] \in Nat /\ m.sample \in Nat
        BY <4>2, <4>4, SentSettled
      <4> QED BY <3>3, <4>1, <4>5, <4>6, <4>7
    <3> QED BY <3>3, <3>4, <3>5
  <2> QED BY <2>1, <2>2
<1> QED BY <1>6, <1>7 DEF FifoParts

\* Nothing was sent at first.
LEMMA FifoInit == EdgeInit => FifoInv
<1> SUFFICES ASSUME EdgeInit PROVE FifoInv
  OBVIOUS
<1>1. FifoParts
  BY RestingCalls
     DEF EdgeInit, Init, FifoParts, SentAttempted, SentFirst, PeekedFirst, ReceivedSorted,
         Sent, ReceivedSet
<1> QED BY <1>1, RemovalInit DEF FifoInv

\* Every step of the application keeps the order.
LEMMA FifoStep ==
    ASSUME NumbersLast
    PROVE  FifoInv /\ [EdgeNext]_edgeVars => FifoInv'
<1> SUFFICES ASSUME FifoInv, [EdgeNext]_edgeVars PROVE FifoInv'
  OBVIOUS
<1>0. /\ TypeInv /\ [Next]_vars /\ RemovalInv'
      /\ (call'.op = "peeked" => PeekOldest \/ call' = call)
  BY EdgeStep, RemovalStep, OnlyPeekPeeks
     DEF FifoInv, RemovalInv, FifoStoreInv, OrderInv, CardInv
<1>1. CASE /\ UNCHANGED <<received, newSends>> /\ outbox' \subseteq outbox
           /\ removed' \subseteq removed \cup Held
  <2>1. call'.op = "peeked" => call' = call \/ Peek
    BY <1>0 DEF PeekOldest
  <2> QED BY <1>0, <1>1, <2>1, FifoKept DEF FifoInv
<1>2. CASE PublishLive
  <2>1. CASE UNCHANGED link
    BY <1>1, <2>1 DEF link
  <2>2. CASE Hand(LiveToken(refused), refused, FALSE)
    BY <1>0, <1>2, <2>2, PublishLiveFifo DEF FifoInv
  <2> QED BY <1>2, <2>1, <2>2 DEF PublishLive
<1>3. CASE PublishOldest
  BY <1>0, <1>3, PublishOldestFifo DEF FifoInv
<1>4. CASE BrokerReceives
  BY <1>0, <1>4, BrokerReceivesFifo DEF FifoInv
<1>5. CASE TakeAck
  <2>1. UNCHANGED <<received, newSends, outbox>>
    BY <1>5 DEF TakeAck
  <2>2. removed' \subseteq removed \cup Held
    <3>1. CASE Acknowledge(ack.number) /\ removed' = removed \cup {card[oldest].sample}
      <4>1. oldest \in Files
        BY <1>0, <3>1, Bounds DEF Acknowledge, Removable, Files, TypeInv, TypeOK, Ids
      <4> QED BY <3>1, <4>1 DEF Held
    <3>2. CASE removed' = removed
      BY <3>2
    <3> QED BY <1>5, <3>1, <3>2 DEF TakeAck
  <2> QED BY <1>1, <2>1, <2>2
<1>6. CASE PubackArrives
  BY <1>1, <1>6 DEF PubackArrives
<1>7. CASE NewSample \/ SpoolStep \/ PeekOldest \/ PublishFails \/ Environment
           \/ UNCHANGED edgeVars
  BY <1>1, <1>7 DEF NewSample, SpoolStep, PeekOldest, PublishFails, Environment, link,
                    edgeVars
<1>8. CASE ExpirePending \/ Connect \/ Disconnect \/ Restart
  BY <1>1, <1>8 DEF ExpirePending, Connect, Disconnect, Restart
<1> QED BY <1>2, <1>3, <1>4, <1>5, <1>6, <1>7, <1>8 DEF EdgeNext

\* The backend first gets the samples that left the spool by acknowledgement in
\* the order they were taken.
THEOREM EdgeOrder ==
    ASSUME NumbersLast
    PROVE  EdgeSpec => []ReplayedInOrder
<1>1. FifoInv => ReplayedInOrder
  BY DEF FifoInv, FifoParts, ReceivedSorted, ReplayedInOrder, Known
<1>2. FifoInv /\ [EdgeNext]_edgeVars => FifoInv'
  BY FifoStep
<1> QED BY FifoInit, <1>1, <1>2, PTL DEF EdgeSpec

-----------------------------------------------------------------------------
(* What vanished was counted                                               *)

\* The counter of dropped samples does not wrap around: it has 32 bits.
CountersLast == CounterSpan > MaxSamples

\* What the spool took and neither has nor gave away after a PUBACK.
Vanished == accepted \ Known
Dropped == droppedBefore + dropped

\* A sample is on the card, acknowledged or counted, never two of them.
EachCountedOnce == Cardinality(Files) + acked + Dropped <= Settled

VanishedCounted == Cardinality(Vanished) <= Dropped

CountInv == FifoInv /\ EachCountedOnce /\ VanishedCounted

\* A count below the span of the counter is what the counter shows.
LEMMA SmallRemainder ==
    ASSUME NEW a \in Nat, NEW C \in Nat \ {0}, a < C
    PROVE  a % C = a
<1>1. PICK q \in Nat, r \in 0..(C - 1) : r = a % C /\ a = C * q + r
  BY Quotient
<1>2. C * q + r = C * 0 + a
  BY <1>1
<1>3. a \in 0..(C - 1)
  OBVIOUS
<1>4. r = a
  BY <1>1, <1>2, <1>3, RemainderUnique
<1> QED BY <1>1, <1>4

\* The counts are numbers.
LEMMA CountTypes ==
    ASSUME TypeInv
    PROVE  /\ Cardinality(Files) \in Nat /\ acked \in Nat
           /\ droppedBefore \in Nat /\ dropped \in Nat
           /\ Settled \in Nat /\ Settled <= produced /\ produced \in Nat
           /\ produced <= MaxSamples /\ CounterSpan \in Nat \ {0} /\ MaxSamples \in Nat
  BY FilesFinite, SettledType, Bounds DEF TypeInv, TypeOK

\* While nothing wraps, the counter counts.
LEMMA CountIsSum ==
    ASSUME CountersLast, TypeInv, NEW n \in Nat, Dropped + n <= produced
    PROVE  /\ Count(n) = dropped + n
           /\ (droppedBefore + dropped) % CounterSpan = droppedBefore + dropped
<1>1. dropped + n \in Nat /\ dropped + n < CounterSpan
  BY CountTypes DEF Dropped, CountersLast
<1>2. droppedBefore + dropped \in Nat /\ droppedBefore + dropped < CounterSpan
  BY CountTypes DEF Dropped, CountersLast
<1>3. (dropped + n) % CounterSpan = dropped + n
  BY <1>1, SmallRemainder, CountTypes
<1>4. (droppedBefore + dropped) % CounterSpan = droppedBefore + dropped
  BY <1>2, SmallRemainder, CountTypes
<1> QED BY <1>3, <1>4 DEF Count

\* Arithmetic of a sum of which one part grows.
LEMMA SumGrows ==
    ASSUME NEW s \in Nat, NEW t \in Nat, NEW d \in Nat, s <= t
    PROVE  d <= d /\ s + d <= t + d
OBVIOUS

\* A count d that grows to e by no more than s grows to t, or by one more when
\* one of the others is gone, leaves room for the m others.
LEMMA Balance ==
    ASSUME NEW s \in Nat, NEW t \in Nat, NEW d \in Nat, NEW e \in Nat,
           NEW m \in Nat
    PROVE  /\ s + e <= t + d /\ m + d <= s => m + e <= t
           /\ s + e <= t + d + 1 /\ m + 1 + d <= s => m + e <= t
OBVIOUS

\* The four things a step of the spool does to the samples and their counts.
QuietCount ==
    /\ SameSamples
    /\ UNCHANGED <<accepted, acked>>
    /\ Dropped' \in Nat /\ Dropped <= Dropped'
    /\ Settled + Dropped' <= Settled' + Dropped

StoredCount ==
    /\ StoresRecord
    /\ accepted' = accepted \cup {produced}
    /\ Settled' = Settled + 1
    /\ UNCHANGED <<acked, dropped, droppedBefore>>

EvictedCount ==
    /\ \E low \in Files : Removes(low)
    /\ UNCHANGED <<accepted, acked>>
    /\ Dropped' \in Nat /\ Dropped + 1 <= Dropped'
    /\ Settled + Dropped' <= Settled' + Dropped + 1

AckedCount ==
    /\ Removes(oldest)
    /\ acked' = acked + 1
    /\ UNCHANGED <<accepted, dropped, droppedBefore>>
    /\ Settled' = Settled

CountOfStep == QuietCount \/ StoredCount \/ EvictedCount \/ AckedCount

\* A step that removes the first record, counts one and settles nothing.
LEMMA OneDropped ==
    ASSUME CountersLast, TypeInv, EachCountedOnce, NEW low \in Files, Removes(low),
           UNCHANGED <<accepted, acked, droppedBefore>>, Settled' = Settled,
           dropped' = Count(1)
    PROVE  CountOfStep
<1>1. Cardinality(Files) \in Nat /\ Cardinality(Files) > 0
  BY FilesFinite, FS_EmptySet
<1>2. Dropped + 1 <= produced /\ Dropped \in Nat /\ Settled \in Nat
  BY <1>1, CountTypes DEF EachCountedOnce, Dropped
<1>3. dropped' = dropped + 1
  BY <1>2, CountIsSum
<1>4. Dropped' = Dropped + 1
  BY <1>3, CountTypes DEF Dropped
<1> QED BY <1>2, <1>4 DEF EvictedCount, CountOfStep

\* Eviction counts the record it removes, and the sample it gives up.
LEMMA EvictCounts ==
    ASSUME CountersLast, OrderInv, EachCountedOnce, [Next]_vars, EvictOldest
    PROVE  CountOfStep
<1>0. /\ TypeInv /\ IndexInv /\ TypeInv' /\ ready
      /\ UNCHANGED <<accepted, acked, droppedBefore, produced>>
      /\ Settled = produced - 1 /\ call.op = "evict"
      /\ Cardinality(Files) > 0
  <2>1. TypeInv /\ IndexInv /\ TypeInv'
    BY TypeStep DEF OrderInv, CardInv
  <2> QED BY <2>1 DEF EvictOldest, TypeInv, CallOK, IndexInv, history, Settled
<1>1. Dropped + 2 <= produced
  BY <1>0, CountTypes DEF EachCountedOnce, Dropped
<1>2. Count(1) = dropped + 1 /\ Count(2) = dropped + 2
  BY <1>0, <1>1, CountIsSum, CountTypes DEF Dropped
<1>3. PICK removed_ \in Works("remove"), dirOk \in Works("dir"),
           sizeRead \in Works("read") :
         \/ /\ Removable /\ removed_
            /\ Unlink(dirOk, sizeRead)
            /\ dropped' = Count(IF Unlinked THEN 1 ELSE 2)
            /\ call' = IF Unlinked THEN call ELSE Idle
         \/ /\ dropped' = Count(1)
            /\ call' = Idle
            /\ UNCHANGED <<media, index>>
  BY DEF EvictOldest
<1>4. CASE /\ dropped' = Count(1) /\ call' = Idle /\ UNCHANGED <<media, index>>
  <2>1. SameSamples
    BY <1>4 DEF media, SameSamples, Files
  <2>2. Settled' = Settled + 1
    BY <1>0, <1>4, RestingCalls, CountTypes DEF Settled
  <2>3. Dropped \in Nat /\ Dropped' = Dropped + 1 /\ Settled \in Nat
    BY <1>0, <1>2, <1>4, CountTypes DEF Dropped
  <2>4. QuietCount
    BY <1>0, <2>1, <2>2, <2>3 DEF QuietCount
  <2> QED BY <2>4 DEF CountOfStep
<1>5. CASE /\ Removable /\ Unlink(dirOk, sizeRead)
           /\ dropped' = Count(IF Unlinked THEN 1 ELSE 2)
           /\ call' = IF Unlinked THEN call ELSE Idle
  <2>2. \E low \in Files : Removes(low)
    BY <1>0, <1>5, UnlinkRemoves DEF Removes
  <2>3. CASE Unlinked
    <3>1. dropped' = dropped + 1 /\ Settled' = Settled
      BY <1>0, <1>2, <1>5, <2>3, CountTypes DEF Settled
    <3> QED BY <1>0, <2>2, <3>1, CountTypes DEF EvictedCount, CountOfStep, Dropped
  <2>4. CASE ~Unlinked
    <3>1. dropped' = dropped + 2 /\ Settled' = Settled + 1
      BY <1>0, <1>2, <1>5, <2>4, RestingCalls, CountTypes DEF Settled
    <3> QED BY <1>0, <2>2, <3>1, CountTypes DEF EvictedCount, CountOfStep, Dropped
  <2> QED BY <2>3, <2>4
<1> QED BY <1>3, <1>4, <1>5

\* A step that changes neither the samples on the card nor a counter.
LEMMA QuietStep ==
    ASSUME TypeInv, TypeInv', SameSamples, UNCHANGED <<accepted, acked>>,
           \/ UNCHANGED <<dropped, droppedBefore>>
           \/ Dropped' = Dropped,
           Settled' \in Nat, Settled <= Settled'
    PROVE  CountOfStep
<1>1. Dropped \in Nat /\ Dropped' = Dropped /\ Settled \in Nat
  BY CountTypes DEF Dropped
<1>2. Dropped <= Dropped' /\ Settled + Dropped' <= Settled' + Dropped
  BY <1>1, SumGrows
<1>3. QuietCount
  BY <1>1, <1>2 DEF QuietCount
<1> QED BY <1>3 DEF CountOfStep

\* Reopening the spool counts the torn record it drops.
LEMMA BeginCounts ==
    ASSUME NumbersLast, CountersLast, FifoStoreInv, EachCountedOnce, TypeInv',
           BeginAtBoot \/ UpdateRetry
    PROVE  CountOfStep
<1>0. TypeInv /\ OrderInv /\ Whole /\ NoOrphans /\ "read" \notin FaultKinds
  BY NumbersLastFaults DEF FifoStoreInv, OrderInv, CardInv
<1>1. /\ UNCHANGED <<droppedBefore, acked, accepted>>
      /\ Settled' = Settled /\ Settled \in Nat
  <2>1. /\ UNCHANGED <<droppedBefore, acked, accepted, produced>>
        /\ call \in {Idle, Booting} /\ call' = Idle
    BY DEF BeginAtBoot, UpdateRetry, Begin, history
  <2> QED BY <1>0, <2>1, RestingCalls, CountTypes DEF Settled
<1>2. CASE UNCHANGED <<card, dropped>>
  <2>1. SameSamples
    BY <1>2 DEF SameSamples, Files
  <2> QED BY <1>0, <1>1, <1>2, <2>1, QuietStep
<1>3. CASE Scan
  <2>1. /\ \A id \in Files' : card'[id] = card[id]
        /\ dropped' = Count(Cardinality(Files) - Cardinality(Files'))
    BY <1>0, <1>3, ScanIndex
  <2>2. CASE Files' = Files
    <3>1. SameSamples
      BY <2>1, <2>2 DEF SameSamples
    <3>2. Cardinality(Files) - Cardinality(Files') = 0
      BY <1>0, <2>2, CountTypes
    <3>3. Dropped + 0 <= produced
      BY <1>0, CountTypes DEF EachCountedOnce, Dropped
    <3>4. dropped' = dropped
      BY <1>0, <2>1, <3>2, <3>3, CountIsSum, CountTypes
    <3> QED BY <1>0, <1>1, <3>1, <3>4, QuietStep
  <2>3. ASSUME NEW low \in Files, First(low), Files' = Files \ {low}
        PROVE  CountOfStep
    <3>1. Removes(low)
      BY <2>1, <2>3 DEF Removes
    <3>2. Cardinality(Files) - Cardinality(Files') = 1
      BY <1>0, <2>3, FilesFinite, OneLess
    <3> QED BY <1>0, <1>1, <2>1, <3>1, <3>2, OneDropped
  <2> QED BY <1>0, <1>3, <2>2, <2>3, ScanTakesFirst DEF FifoStoreInv
<1> QED BY <1>2, <1>3 DEF BeginAtBoot, UpdateRetry, Begin, media

\* Every step of the spool counts what it loses.
LEMMA StepCounts ==
    ASSUME NumbersLast, CountersLast, FifoStoreInv, EachCountedOnce, [Next]_vars
    PROVE  CountOfStep
<1>0. /\ OrderInv /\ TypeInv /\ TypeInv' /\ IndexInv /\ NoOrphans
      /\ Settled \in Nat /\ Settled' \in Nat /\ Settled <= Settled'
      /\ FaultKinds \cap {"read", "corrupt"} = {}
  BY TypeStep, StepGrows, NumbersLastFaults DEF FifoStoreInv, OrderInv, CardInv
<1> USE DEF media, index, clocks, history
<1>1. CASE card' = card /\ UNCHANGED <<accepted, acked, dropped, droppedBefore>>
  <2>1. SameSamples
    BY <1>1 DEF SameSamples, Files
  <2> QED BY <1>0, <1>1, <2>1, QuietStep
<1>2. CASE BeginAtBoot \/ UpdateRetry
  BY <1>0, <1>2, BeginCounts
<1>3. CASE EvictOldest
  BY <1>0, <1>3, EvictCounts
<1>4. CASE EvictDone
  <2>1. CASE UNCHANGED dropped
    BY <1>1, <1>4, <2>1 DEF EvictDone
  <2>2. CASE call' = Idle /\ dropped' = Count(1)
    <3>1. Settled = produced - 1 /\ Settled' = produced /\ produced \in Nat
      BY <1>0, <1>4, <2>2, RestingCalls, CountTypes DEF EvictDone, Settled
    <3>2. Dropped + 1 <= produced
      BY <1>0, <3>1, CountTypes DEF EachCountedOnce, Dropped
    <3>3. dropped' = dropped + 1
      BY <1>0, <2>2, <3>2, CountIsSum
    <3>4. SameSamples
      BY <1>4 DEF EvictDone, SameSamples, Files
    <3> QED BY <1>0, <1>4, <3>1, <3>3, <3>4, CountTypes
            DEF EvictDone, QuietCount, CountOfStep, Dropped
  <2> QED BY <1>4, <2>1, <2>2 DEF EvictDone
<1>5. CASE RenameToRecord
  <2>1. CASE StoresRecord /\ call' = Idle /\ accepted' = accepted \cup {call.sample}
    <3>1. call.sample = produced /\ UNCHANGED <<acked, dropped, droppedBefore, produced>>
      BY <1>0, <1>5, <2>1 DEF RenameToRecord, TypeInv, CallOK
    <3>2. Settled' = Settled + 1
      BY <1>0, <2>1, <3>1, RestingCalls, CountTypes DEF Settled, StoresRecord
    <3> QED BY <2>1, <3>1, <3>2 DEF StoredCount, CountOfStep
  <2>2. CASE EnqueueFailed(tmp)
    BY <1>1, <1>5, <2>2 DEF RenameToRecord, EnqueueFailed
  <2> QED BY <1>5, <2>1, <2>2 DEF RenameToRecord, StoresRecord
<1>6. CASE MarkAttempted \/ MarkFails
  <2>1. Files' = Files
    BY <1>0, <1>6, HeadersKeepFiles
  <2>2. ~StoresRecord
    BY <1>6 DEF MarkAttempted, MarkFails, StoresRecord
  <2>3. SameSamples
    BY <1>0, <2>1, <2>2, KeepsOrStores DEF KeepsRecords, SameSamples
  <2>4. UNCHANGED <<accepted, acked, dropped, droppedBefore>>
    BY <1>6 DEF MarkAttempted, MarkFails
  <2> QED BY <1>0, <2>3, <2>4, QuietStep
<1>7. CASE Peek \/ ExpireOldest
  <2>1. /\ UNCHANGED <<accepted, acked, droppedBefore>>
        /\ ready /\ Settled' = Settled
    BY <1>0, <1>7, RestingCalls
       DEF Peek, ExpireOldest, Settled, TypeInv, CallOK, Call
  <2>2. CASE UNCHANGED <<card, dropped>>
    BY <1>1, <2>1, <2>2
  <2>3. ASSUME NEW dirOk \in Works("dir"), NEW sizeRead \in Works("read"),
               Removable, Unlink(dirOk, sizeRead), dropped' = Count(1)
        PROVE  CountOfStep
    <3>1. Removes(oldest)
      BY <1>0, <2>1, <2>3, UnlinkRemoves
    <3> QED BY <1>0, <2>1, <2>3, <3>1, OneDropped DEF Removes
  <2>4. ExpireOldest => Removable
    BY <1>0 DEF ExpireOldest, Expired, Removable
  <2> QED BY <1>7, <2>2, <2>3, <2>4 DEF Peek, ExpireOldest
<1>8. ASSUME NEW id \in Ids, Acknowledge(id) PROVE CountOfStep
  <2>1. Removes(oldest)
    BY <1>0, <1>8, UnlinkRemoves DEF Acknowledge
  <2>2. Settled' = Settled
    BY <1>8 DEF Settled, Acknowledge
  <2> QED BY <1>8, <2>1, <2>2 DEF Acknowledge, AckedCount, CountOfStep
<1>9. CASE PowerLoss
  <2>1. Dropped + 0 <= produced
    BY <1>0, CountTypes DEF EachCountedOnce, Dropped
  <2>2. Dropped' = Dropped
    BY <1>0, <1>9, <2>1, CountIsSum, CountTypes DEF PowerLoss, Dropped
  <2>3. SameSamples
    BY <1>9 DEF PowerLoss, SameSamples, Files
  <2> QED BY <1>0, <1>9, <2>2, <2>3, QuietStep DEF PowerLoss
<1>10. ~Corrupt
  BY <1>0 DEF Corrupt
<1>11. CASE \/ \E size \in Sizes, deferred \in BOOLEAN : EnqueueStart(size, deferred)
            \/ UNCHANGED vars \/ UpdateUnavailable \/ ExpireDone \/ WriteTemporary
            \/ StorageChanges \/ TimePasses
  BY <1>1, <1>11 DEF EnqueueStart, vars, UpdateUnavailable, ExpireDone, WriteTemporary,
                     EnqueueFailed, StorageChanges, TimePasses
<1> QED BY <1>2, <1>3, <1>4, <1>5, <1>6, <1>7, <1>8, <1>9, <1>10, <1>11
        DEF Next, LoopStep

\* Only takeTelemetryAck acknowledges, and it remembers the sample.
LEMMA OnlyTakeAck ==
    ASSUME [EdgeNext]_edgeVars
    PROVE  /\ removed \subseteq removed'
           /\ acked' = acked \/ removed' = removed \cup {card[oldest].sample}
<1> USE DEF history
<1>1. CASE NewSample \/ SpoolStep \/ PeekOldest \/ PublishFails \/ Environment
  <2>1. acked' = acked
    BY <1>1 DEF NewSample, EnqueueStart, SpoolStep, PeekOldest, Peek, PublishFails,
         Environment, MarkAttempted, StorageChanges, TimePasses, Corrupt, BeginAtBoot,
         UpdateUnavailable, UpdateRetry, Begin, ExpireOldest, ExpireDone,
         EvictOldest, EvictDone, WriteTemporary, RenameToRecord, MarkFails
  <2>2. removed' = removed
    BY <1>1 DEF NewSample, SpoolStep, PeekOldest, PublishFails, Environment, link
  <2> QED BY <2>1, <2>2
<1>2. CASE TakeAck
  BY <1>2 DEF TakeAck, vars
<1>3. CASE PublishLive \/ PublishOldest
  BY <1>3 DEF PublishLive, PublishOldest, MarkAttempted, Hand, vars, link
<1>4. CASE \/ ExpirePending \/ BrokerReceives \/ PubackArrives \/ Connect \/ Disconnect
           \/ Restart \/ UNCHANGED edgeVars
  BY <1>4 DEF ExpirePending, BrokerReceives, PubackArrives, Connect, Disconnect, Restart,
              PowerLoss, edgeVars, vars
<1> QED BY <1>1, <1>2, <1>3, <1>4 DEF EdgeNext

\* A set grows by one at most when it gets an element.
LEMMA OneMore ==
    ASSUME NEW S, IsFiniteSet(S), NEW x
    PROVE  /\ IsFiniteSet(S \cup {x})
           /\ Cardinality(S \cup {x}) <= Cardinality(S) + 1
<1>1. Cardinality(S) \in Nat /\ IsFiniteSet(S \cup {x})
  BY FS_AddElement, FS_CardinalityType
<1>2. Cardinality(S \cup {x}) \in {Cardinality(S), Cardinality(S) + 1}
  BY FS_AddElement
<1> QED BY <1>1, <1>2

\* Nothing has vanished at first.
LEMMA CountInit == EdgeInit => CountInv
<1> SUFFICES ASSUME EdgeInit PROVE CountInv
  OBVIOUS
<1>1. FifoInv
  BY FifoInit
<1>2. Files = {} /\ Cardinality(Files) = 0
  BY FS_EmptySet DEF EdgeInit, Init, Files
<1>3. Vanished = {} /\ Cardinality(Vanished) = 0 /\ Dropped = 0
  BY FS_EmptySet DEF EdgeInit, Init, Vanished, Dropped
<1>4. EachCountedOnce
  BY <1>2, <1>3, RestingCalls DEF EdgeInit, Init, EachCountedOnce, Settled
<1> QED BY <1>1, <1>3, <1>4 DEF CountInv, VanishedCounted

\* Every step of the application counts what vanishes.
LEMMA CountStep ==
    ASSUME NumbersLast, CountersLast
    PROVE  CountInv /\ [EdgeNext]_edgeVars => CountInv'
<1> SUFFICES ASSUME CountInv, [EdgeNext]_edgeVars PROVE CountInv'
  OBVIOUS
<1>0. FifoInv' /\ TypeInv /\ TypeInv' /\ [Next]_vars /\ FifoStoreInv /\ ReplayInv
  BY FifoStep, EdgeStep
     DEF CountInv, FifoInv, RemovalInv, FifoStoreInv, OrderInv, CardInv
<1>1. CountOfStep
  BY <1>0, StepCounts DEF CountInv
<1>2. /\ removed \subseteq removed'
      /\ acked' = acked \/ removed' = removed \cup {card[oldest].sample}
  BY OnlyTakeAck
<1>3. /\ Cardinality(Files) \in Nat /\ acked \in Nat /\ Dropped \in Nat
      /\ Settled \in Nat /\ Settled' \in Nat /\ IsFiniteSet(Files)
  BY <1>0, CountTypes, FilesFinite, StepGrows DEF Dropped
<1>4. IsFiniteSet(accepted) /\ IsFiniteSet(Vanished) /\ Cardinality(Vanished) \in Nat
  <2>1. IsFiniteSet(accepted)
    BY <1>0, ConservationTypes
  <2> QED BY <2>1, FS_Subset, FS_CardinalityType DEF Vanished
<1>5. ASSUME Vanished' \subseteq Vanished, Dropped' \in Nat, Dropped <= Dropped'
      PROVE  VanishedCounted'
  <2>1. Cardinality(Vanished') <= Cardinality(Vanished) /\ Cardinality(Vanished') \in Nat
    BY <1>4, <1>5, FS_Subset, FS_CardinalityType
  <2>2. Cardinality(Vanished') <= Dropped'
    BY <1>3, <1>4, <1>5, <2>1 DEF CountInv, VanishedCounted
  <2> QED BY <2>2 DEF VanishedCounted
<1>6. CASE QuietCount
  <2>1. Files' = Files /\ Held' = Held /\ accepted' = accepted
    BY <1>6 DEF QuietCount, SameSamples, Held
  <2>2. Vanished' \subseteq Vanished
    BY <1>2, <2>1 DEF Vanished, Known
  <2>3. VanishedCounted'
    BY <1>5, <1>6, <2>2 DEF QuietCount
  <2>4. EachCountedOnce'
    <3>1. /\ Dropped' \in Nat /\ Settled + Dropped' <= Settled' + Dropped
          /\ Cardinality(Files') = Cardinality(Files) /\ acked' = acked
      BY <1>6, <2>1 DEF QuietCount
    <3>2. Cardinality(Files) + acked + Dropped <= Settled
      BY DEF CountInv, EachCountedOnce
    <3>4. Cardinality(Files) + acked \in Nat
      BY <1>3
    <3>5. Cardinality(Files) + acked + Dropped' <= Settled'
      BY <1>3, <3>1, <3>2, <3>4, Balance
    <3> QED BY <3>1, <3>5 DEF EachCountedOnce
  <2> QED BY <1>0, <2>3, <2>4 DEF CountInv
<1>7. CASE StoredCount
  <2>1. /\ Files' = Files \cup {next} /\ next \notin Files
        /\ card'[next].sample = produced
        /\ \A id \in Files : card'[id] = card[id]
    BY <1>0, <1>7, StoredRecord DEF StoredCount
  <2>2. Held' = Held \cup {produced}
    BY <2>1 DEF Held
  <2>3. Vanished' \subseteq Vanished
    BY <1>2, <1>7, <2>2 DEF Vanished, Known, StoredCount
  <2>4. Dropped' = Dropped
    BY <1>7 DEF StoredCount, Dropped
  <2>5. VanishedCounted'
    BY <1>3, <1>5, <2>3, <2>4
  <2>6. Cardinality(Files') = Cardinality(Files) + 1
    BY <1>3, <2>1, FS_AddElement
  <2>7. EachCountedOnce'
    BY <1>3, <1>7, <2>4, <2>6 DEF StoredCount, CountInv, EachCountedOnce
  <2> QED BY <1>0, <2>5, <2>7 DEF CountInv
<1>8. ASSUME NEW low \in Files, Removes(low), (AckedCount /\ low = oldest) \/ EvictedCount
      PROVE  CountInv'
  <2>1. /\ Files' = Files \ {low}
        /\ \A id \in Files' : card'[id].sample = card[id].sample
    BY <1>8 DEF Removes
  <2>2. Cardinality(Files') = Cardinality(Files) - 1
    BY <1>3, <2>1, FS_RemoveElement
  <2>7. Cardinality(Files) > 0
    BY <1>3, <2>1, FS_EmptySet
  <2>3. Held \subseteq Held' \cup {card[low].sample}
    <3>1. ASSUME NEW id \in Files
          PROVE  card[id].sample \in Held' \cup {card[low].sample}
      <4>1. CASE id \in Files'
        BY <2>1, <4>1 DEF Held
      <4> QED BY <2>1, <4>1
    <3> QED BY <3>1 DEF Held
  <2>4. CASE AckedCount /\ low = oldest
    <3>1. removed' = removed \cup {card[low].sample}
      BY <1>2, <1>3, <2>4 DEF AckedCount
    <3>2. Vanished' \subseteq Vanished
      BY <2>3, <2>4, <3>1 DEF Vanished, Known, AckedCount
    <3>3. Dropped' = Dropped
      BY <2>4 DEF AckedCount, Dropped
    <3>4. VanishedCounted'
      BY <1>3, <1>5, <3>2, <3>3
    <3>5. EachCountedOnce'
      BY <1>3, <2>2, <2>4, <3>3 DEF AckedCount, CountInv, EachCountedOnce
    <3> QED BY <1>0, <3>4, <3>5 DEF CountInv
  <2>5. CASE EvictedCount
    <3>1. Vanished' \subseteq Vanished \cup {card[low].sample}
      BY <1>2, <2>3, <2>5 DEF Vanished, Known, EvictedCount
    <3>2. /\ IsFiniteSet(Vanished \cup {card[low].sample})
          /\ Cardinality(Vanished \cup {card[low].sample}) <= Cardinality(Vanished) + 1
      BY <1>4, OneMore
    <3>3. Cardinality(Vanished') <= Cardinality(Vanished) + 1
      <4>1. /\ IsFiniteSet(Vanished')
            /\ Cardinality(Vanished') <= Cardinality(Vanished \cup {card[low].sample})
        BY <3>1, <3>2, FS_Subset
      <4> QED BY <1>4, <3>2, <4>1, FS_CardinalityType
    <3>4. VanishedCounted'
      <4>1. IsFiniteSet(Vanished') /\ Cardinality(Vanished') \in Nat
        BY <3>1, <3>2, FS_Subset, FS_CardinalityType
      <4>2. Dropped' \in Nat /\ Dropped + 1 <= Dropped'
        BY <2>5 DEF EvictedCount
      <4> QED BY <1>3, <1>4, <3>3, <4>1, <4>2 DEF CountInv, VanishedCounted
    <3>5. EachCountedOnce'
      <4>1. /\ Dropped' \in Nat /\ Settled + Dropped' <= Settled' + Dropped + 1
            /\ Cardinality(Files') = Cardinality(Files) - 1 /\ acked' = acked
        BY <2>2, <2>5 DEF EvictedCount
      <4>2. /\ (Cardinality(Files) - 1) + acked \in Nat
            /\ (Cardinality(Files) - 1) + acked + 1 + Dropped <= Settled
        BY <1>3, <2>7 DEF CountInv, EachCountedOnce
      <4>3. (Cardinality(Files) - 1) + acked + Dropped' <= Settled'
        BY <1>3, <4>1, <4>2, Balance
      <4> QED BY <4>1, <4>3 DEF EachCountedOnce
    <3> QED BY <1>0, <3>4, <3>5 DEF CountInv
  <2> QED BY <1>8, <2>4, <2>5
<1>9. CASE AckedCount
  BY <1>8, <1>9 DEF AckedCount, Removes
<1>10. CASE EvictedCount
  BY <1>8, <1>10 DEF EvictedCount
<1> QED BY <1>1, <1>6, <1>7, <1>9, <1>10 DEF CountOfStep

\* What the spool accepted is still there, or has reached the backend, or was
\* counted as dropped, through restarts, lost answers, failing removals or headers
\* that tear.
THEOREM EdgeKeepsSamples ==
    ASSUME NumbersLast, CountersLast
    PROVE  EdgeSpec => []NothingVanishes
<1>1. CountInv => NothingVanishes
  <2> SUFFICES ASSUME CountInv PROVE NothingVanishes
    OBVIOUS
  <2> DEFINE lost == {s \in accepted : ~InSpool(s) /\ s \notin ReceivedSet}
  <2>1. TypeInv
    BY DEF CountInv, FifoInv, RemovalInv, FifoStoreInv, OrderInv, CardInv
  <2>2. lost \subseteq Vanished
    BY DEF InSpool, Vanished, Known, Held, CountInv, FifoInv, RemovalInv, LinkInv,
           RemovedOnlyAfterPuback
  <2>3. IsFiniteSet(Vanished)
    BY <2>1, ConservationTypes, FS_Subset DEF Vanished
  <2>4. Cardinality(lost) <= Cardinality(Vanished) /\ IsFiniteSet(lost)
    BY <2>2, <2>3, FS_Subset
  <2>5. Cardinality(lost) <= Dropped
    <3>1. Cardinality(lost) \in Nat /\ Cardinality(Vanished) \in Nat /\ Dropped \in Nat
      BY <2>1, <2>3, <2>4, FS_CardinalityType, CountTypes DEF Dropped
    <3> QED BY <2>4, <3>1 DEF CountInv, VanishedCounted
  <2> QED BY <2>5 DEF NothingVanishes, Dropped
<1>2. CountInv /\ [EdgeNext]_edgeVars => CountInv'
  BY CountStep
<1> QED BY CountInit, <1>1, <1>2, PTL DEF EdgeSpec
=============================================================================
