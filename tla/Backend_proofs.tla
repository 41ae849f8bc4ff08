--------------------------- MODULE Backend_proofs ---------------------------
(***************************************************************************)
(* Theorems about the services of Backend: the acknowledgement of messages *)
(* by ingestion, and the type invariant of all of them, for any messages,  *)
(* transactions, deliveries under way, commands, failures and restarts.    *)
(***************************************************************************)
EXTENDS Backend, FiniteSetTheorems, WellFoundedInduction, TLAPS

\* An identifier belongs to one message for good.  This is what the broker
\* gives up when it uses identifiers again (IdsReused).
IdsDiffer ==
    \A p, q \in Packets : p # q /\ packetId[p] # 0 => packetId[p] # packetId[q]

\* A delivery is of a message that was sent under an identifier.
OfSomePacket ==
    \A d \in Deliveries : ingestion[d].step # "idle" =>
        /\ ingestion[d].packet \in Packets
        /\ packetId[ingestion[d].packet] # 0

\* What _finish_ingestion is about to acknowledge is stored or broke the
\* contract.
OutcomesEarned ==
    \A d \in Deliveries :
        /\ ingestion[d].step = "finish" /\ ingestion[d].outcome = "accepted"
               => Key(d) \in stored
        /\ ingestion[d].step \in {"quarantine", "finish"}
           /\ ingestion[d].outcome = "rejected"
               => ingestion[d].packet \in Rejected
        /\ ingestion[d].step = "quarantine"
               => ingestion[d].outcome \in {"rejected", "failed"}

Coroutines ==
    [step : {"idle", "resolve", "commit", "quarantine", "finish"},
     packet : Packets \cup {NoPacket},
     outcome : {"none", "accepted", "rejected", "failed"}]

\* The part of IngestTypeOK that the steps below need.
Shapes ==
    /\ packetId \in [Packets -> PacketIds \cup {0}]
    /\ ingestion \in [Deliveries -> Coroutines]

IngestInv ==
    Shapes /\ IdsDiffer /\ OfSomePacket /\ OutcomesEarned /\ AckedIsStored

-----------------------------------------------------------------------------
(* The steps, by what they touch                                           *)

\* Free is a coroutine.
LEMMA FreeIsCoroutine == Free \in Coroutines
BY DEF Free, Coroutines

\* The invariant of ingestion holds at the start.
LEMMA IngestInitInv == IngestInit => IngestInv
<1> SUFFICES ASSUME IngestInit PROVE IngestInv
  OBVIOUS
<1>1. Shapes
  BY FreeIsCoroutine DEF IngestInit, Shapes
<1>2. IdsDiffer /\ OfSomePacket /\ OutcomesEarned /\ AckedIsStored
  BY DEF IngestInit, IdsDiffer, OfSomePacket, OutcomesEarned, AckedIsStored,
         Free
<1> QED BY <1>1, <1>2 DEF IngestInv

\* A new coroutine: the message keeps its identifier, or gets one nobody has
\* had.
LEMMA MessageStep ==
    ASSUME IdsReused = FALSE, IngestInv,
           NEW d \in Deliveries, NEW p \in Packets, OnMessage(p, d)
    PROVE  IngestInv'
<1> USE DEF IngestInv
<1>1. UNCHANGED <<held, stored>>
  BY DEF OnMessage, rows
<1>2. PICK id \in PacketIds \cup {0} :
          /\ packetId' = [packetId EXCEPT ![p] = id]
          /\ id # 0
          /\ packetId[p] # 0 => id = packetId[p]
          /\ packetId[p] = 0 => \A q \in Packets : packetId[q] # id
  <2>1. CASE packetId[p] # 0
    <3>1. packetId' = [packetId EXCEPT ![p] = packetId[p]]
      BY <2>1 DEF OnMessage, Shapes
    <3> QED BY <2>1, <3>1 DEF Shapes
  <2>2. CASE packetId[p] = 0
    <3>1. PICK id \in FreeIds : packetId' = [packetId EXCEPT ![p] = id]
      BY <2>2 DEF OnMessage
    <3>2. id \in PacketIds /\ id # 0 /\ \A q \in Packets : packetId[q] # id
      BY <3>1, IngestionAssumption DEF FreeIds
    <3> QED BY <2>2, <3>1, <3>2
  <2> QED BY <2>1, <2>2
<1>3. ingestion' = [ingestion EXCEPT ![d] = [Free EXCEPT !.step = "resolve",
                                                         !.packet = p]]
  BY DEF OnMessage
<1>4. /\ ingestion'[d] = [step |-> "resolve", packet |-> p, outcome |-> "none"]
      /\ \A e \in Deliveries : e # d => ingestion'[e] = ingestion[e]
  BY <1>3 DEF Shapes, Free
<1>5. /\ packetId'[p] = id
      /\ \A q \in Packets : q # p => packetId'[q] = packetId[q]
  BY <1>2 DEF Shapes
<1>6. Shapes'
  <2>1. [Free EXCEPT !.step = "resolve", !.packet = p] \in Coroutines
    BY DEF Free, Coroutines
  <2> QED BY <1>2, <1>3, <2>1 DEF Shapes
<1>7. IdsDiffer'
  BY <1>2, <1>5 DEF IdsDiffer
<1>8. OfSomePacket'
  BY <1>2, <1>4, <1>5 DEF OfSomePacket
<1>9. OutcomesEarned'
  <2> SUFFICES ASSUME NEW e \in Deliveries PROVE OutcomesEarned!(e)'
    BY DEF OutcomesEarned
  <2>1. CASE e = d
    BY <1>4, <2>1
  <2>2. CASE e # d
    BY <1>1, <1>4, <2>2 DEF OutcomesEarned, Key
  <2> QED BY <2>1, <2>2
<1>10. AckedIsStored'
  BY <1>1 DEF AckedIsStored
<1> QED BY <1>6, <1>7, <1>8, <1>9, <1>10

\* A step of IngestionService.ingest: rows are only added, and the coroutine
\* goes to a place its outcome is right for.
LEMMA ServiceStep ==
    ASSUME IngestInv, NEW d \in Deliveries,
           NEW step \in {"commit", "quarantine", "finish"},
           NEW outcome \in {"none", "accepted", "rejected", "failed"},
           ingestion[d].step # "idle",
           Goes(d, step, outcome),
           UNCHANGED <<packetId, held>>, stored \subseteq stored',
           step = "finish" /\ outcome = "accepted" => Key(d) \in stored',
           step \in {"quarantine", "finish"} /\ outcome = "rejected"
               => ingestion[d].packet \in Rejected,
           step = "quarantine" => outcome \in {"rejected", "failed"}
    PROVE  IngestInv'
<1> USE DEF IngestInv
<1>1. /\ ingestion'[d].step = step /\ ingestion'[d].outcome = outcome
      /\ ingestion'[d].packet = ingestion[d].packet
      /\ \A e \in Deliveries : e # d => ingestion'[e] = ingestion[e]
      /\ ingestion' \in [Deliveries -> Coroutines]
  BY DEF Goes, Shapes, Coroutines
<1>2. Shapes' /\ IdsDiffer'
  BY <1>1 DEF Shapes, IdsDiffer
<1>3. OfSomePacket'
  BY <1>1 DEF OfSomePacket
<1>4. OutcomesEarned'
  <2> SUFFICES ASSUME NEW e \in Deliveries PROVE OutcomesEarned!(e)'
    BY DEF OutcomesEarned
  <2>1. CASE e = d
    BY <1>1, <2>1 DEF Key
  <2>2. CASE e # d
    BY <1>1, <2>2 DEF OutcomesEarned, Key
  <2> QED BY <2>1, <2>2
<1>5. AckedIsStored'
  BY DEF AckedIsStored
<1> QED BY <1>2, <1>3, <1>4, <1>5

\* The PUBACK: it takes away the message of the delivery and no other.
LEMMA FinishStep ==
    ASSUME IngestInv, NEW d \in Deliveries, FinishIngestion(d)
    PROVE  IngestInv'
<1> USE DEF IngestInv
<1>1. /\ UNCHANGED <<packetId, stored>>
      /\ ingestion' = [ingestion EXCEPT ![d] = Free]
      /\ ingestion[d].step = "finish"
  BY DEF FinishIngestion, At, rows
<1>2. /\ ingestion'[d] = Free
      /\ \A e \in Deliveries : e # d => ingestion'[e] = ingestion[e]
      /\ ingestion' \in [Deliveries -> Coroutines]
  BY <1>1, FreeIsCoroutine DEF Shapes
<1>3. Shapes' /\ IdsDiffer'
  BY <1>1, <1>2 DEF Shapes, IdsDiffer
<1>4. OfSomePacket'
  BY <1>1, <1>2 DEF OfSomePacket, Free
<1>5. OutcomesEarned'
  <2> SUFFICES ASSUME NEW e \in Deliveries PROVE OutcomesEarned!(e)'
    BY DEF OutcomesEarned
  <2>1. CASE e = d
    BY <1>2, <2>1 DEF Free
  <2>2. CASE e # d
    BY <1>1, <1>2, <2>2 DEF OutcomesEarned, Key
  <2> QED BY <2>1, <2>2
<1>6. AckedIsStored'
  <2> SUFFICES ASSUME NEW p \in Packets, p \notin held'
               PROVE  p \in Rejected \/ SampleOf[p] \in stored
    BY <1>1 DEF AckedIsStored
  <2>1. CASE p \notin held
    BY <2>1 DEF AckedIsStored
  <2>2. CASE p \in held
    <3>1. /\ ingestion[d].outcome \in {"accepted", "rejected"}
          /\ p \in Acknowledged(d)
      BY <2>2 DEF FinishIngestion
    <3>2. packetId[p] = packetId[ingestion[d].packet]
      BY <3>1 DEF Acknowledged
    <3>3. p = ingestion[d].packet
      BY <1>1, <3>2 DEF OfSomePacket, IdsDiffer
    <3> QED BY <1>1, <3>1, <3>3 DEF OutcomesEarned, Key
  <2> QED BY <2>1, <2>2
<1> QED BY <1>3, <1>4, <1>5, <1>6

-----------------------------------------------------------------------------
\* Every step of ingestion keeps it.
LEMMA IngestInvStep ==
    ASSUME IdsReused = FALSE, IngestInv, [IngestNext]_ingestVars
    PROVE  IngestInv'
<1>1. ASSUME NEW d \in Deliveries, NEW p \in Packets, OnMessage(p, d)
      PROVE  IngestInv'
  BY <1>1, MessageStep
<1>2. ASSUME NEW d \in Deliveries, Resolve(d) PROVE IngestInv'
  <2>1. /\ ingestion[d].step = "resolve"
        /\ UNCHANGED <<packetId, held, stored>>
    BY <1>2 DEF Resolve, At, IngestStep, broker, rows
  <2>2. CASE ingestion[d].packet \in Rejected
    <3>1. Goes(d, "quarantine", "rejected")
      BY <1>2, <2>2 DEF Resolve
    <3> QED BY <2>1, <2>2, <3>1, ServiceStep
  <2>3. CASE ingestion[d].packet \notin Rejected /\ Key(d) \in stored
    <3>1. Goes(d, "finish", "accepted")
      BY <1>2, <2>3 DEF Resolve
    <3> QED BY <2>1, <2>3, <3>1, ServiceStep
  <2>4. CASE ingestion[d].packet \notin Rejected /\ Key(d) \notin stored
    <3>1. Goes(d, "commit", "none")
      BY <1>2, <2>4 DEF Resolve
    <3> QED BY <2>1, <3>1, ServiceStep
  <2> QED BY <2>2, <2>3, <2>4
<1>3. ASSUME NEW d \in Deliveries, CommitSample(d) PROVE IngestInv'
  <2>1. /\ ingestion[d].step = "commit"
        /\ UNCHANGED <<packetId, held>>
    BY <1>3 DEF CommitSample, At, IngestStep, broker
  <2>2. CASE Key(d) \in stored
    <3>1. Goes(d, "quarantine", "failed") /\ UNCHANGED stored
      BY <1>3, <2>2 DEF CommitSample
    <3> QED BY <2>1, <3>1, ServiceStep
  <2>3. CASE Key(d) \notin stored
    <3>1. Goes(d, "finish", "accepted") /\ stored' = stored \cup {Key(d)}
      BY <1>3, <2>3 DEF CommitSample
    <3> QED BY <2>1, <3>1, ServiceStep
  <2> QED BY <2>2, <2>3
<1>4. ASSUME NEW d \in Deliveries, DatabaseFails(d) PROVE IngestInv'
  <2>1. /\ ingestion[d].step # "idle"
        /\ UNCHANGED <<packetId, held>>
        /\ Goes(d, "quarantine", "failed")
        /\ stored \subseteq stored'
    BY <1>4 DEF DatabaseFails, At, IngestStep, broker
  <2> QED BY <2>1, ServiceStep
<1>5. ASSUME NEW d \in Deliveries, Quarantine(d) PROVE IngestInv'
  <2>1. /\ ingestion[d].step = "quarantine"
        /\ UNCHANGED <<packetId, held, stored>>
        /\ Goes(d, "finish", ingestion[d].outcome)
    BY <1>5 DEF Quarantine, At, IngestStep, broker
  <2>2. /\ ingestion[d].outcome \in {"rejected", "failed"}
        /\ ingestion[d].outcome = "rejected"
               => ingestion[d].packet \in Rejected
    BY <2>1 DEF IngestInv, OutcomesEarned
  <2> QED BY <2>1, <2>2, ServiceStep
<1>6. ASSUME NEW d \in Deliveries, FinishIngestion(d) PROVE IngestInv'
  BY <1>6, FinishStep
<1>7. CASE BackendRestarts
  <2>1. /\ UNCHANGED <<packetId, held, stored>>
        /\ ingestion' = [d \in Deliveries |-> Free]
    BY <1>7 DEF BackendRestarts, broker, rows
  <2> QED
    BY <2>1, FreeIsCoroutine
       DEF IngestInv, Shapes, IdsDiffer, OfSomePacket, OutcomesEarned,
           AckedIsStored, Free
<1>8. CASE UNCHANGED <<packetId, held, stored, ingestion>>
  BY <1>8 DEF IngestInv, Shapes, IdsDiffer, OfSomePacket, OutcomesEarned, Key,
              AckedIsStored
<1>9. CASE LinkLost \/ Connects \/ Disconnects \/ Reconnects \/ ReconnectRaises
  BY <1>8, <1>9
     DEF LinkLost, Connects, Disconnects, Reconnects, ReconnectRaises,
         broker, rows
<1>10. CASE UNCHANGED ingestVars
  BY <1>8, <1>10 DEF ingestVars
<1> QED
  BY <1>1, <1>2, <1>3, <1>4, <1>5, <1>6, <1>7, <1>9, <1>10
     DEF IngestNext, Proceeds

\* Whatever the other services do, the ingestion takes its own steps or none.
LEMMA BackendIngests == [BackendNext]_backendVars => [IngestNext]_ingestVars
BY DEF BackendNext, ServiceNext, RestBut, backendVars, ingestVars

\* Whatever is sent twice, fails, is repaired or restarted, and in whatever
\* order deliveries of a message overtake each other, the broker is told to
\* forget a message (client.ack in _finish_ingestion) only once its row is
\* stored or it broke the contract.
THEOREM BackendAckedIsStored ==
    ASSUME IdsReused = FALSE
    PROVE  BackendSpec => []AckedIsStored
<1>1. BackendInit => IngestInv
  BY IngestInitInv DEF BackendInit
<1>2. IngestInv /\ [BackendNext]_backendVars => IngestInv'
  BY IngestInvStep, BackendIngests
<1>3. IngestInv => AckedIsStored
  BY DEF IngestInv
<1> QED BY <1>1, <1>2, <1>3, PTL DEF BackendSpec

-----------------------------------------------------------------------------
(* Counting                                                                *)

\* A nonempty set of naturals has a least element.
LEMMA LeastElement ==
    ASSUME NEW S, S \subseteq Nat, S # {}
    PROVE  \E x \in S : \A y \in S : x <= y
<1>1. PICK x \in S : \A y \in S : ~ (<<y, x>> \in OpToRel(<, Nat))
  BY WFMin, NatLessThanWellFounded
<1>2. \A y \in S : ~ (y < x)
  BY <1>1, Zenon DEF OpToRel
<1> QED BY <1>2

\* A function has at most as many values as arguments.
LEMMA FewValues ==
    ASSUME NEW S, IsFiniteSet(S), NEW f, f = [x \in S |-> f[x]]
    PROVE  LET V == {f[x] : x \in S}
           IN  IsFiniteSet(V) /\ Cardinality(V) <= Cardinality(S)
<1> DEFINE V == {f[x] : x \in S}
<1>1. f \in Surjection(S, V)
  BY DEF Surjection
<1> QED BY <1>1, FS_Surjection

\* Two sets have together no more elements than the one and the other.
LEMMA FewInUnion ==
    ASSUME NEW S, IsFiniteSet(S), NEW T, IsFiniteSet(T)
    PROVE  /\ IsFiniteSet(S \cup T)
           /\ Cardinality(S) \in Nat /\ Cardinality(T) \in Nat
           /\ Cardinality(S \cup T) \in Nat
           /\ Cardinality(S \cup T) <= Cardinality(S) + Cardinality(T)
<1>1. IsFiniteSet(S \cup T) /\ IsFiniteSet(S \cap T)
  BY FS_Union, FS_Intersection
<1>2. /\ Cardinality(S) \in Nat /\ Cardinality(T) \in Nat
      /\ Cardinality(S \cup T) \in Nat /\ Cardinality(S \cap T) \in Nat
  BY <1>1, FS_CardinalityType
<1>3. Cardinality(S \cup T) =
        Cardinality(S) + Cardinality(T) - Cardinality(S \cap T)
  BY FS_Union
<1> QED BY <1>1, <1>2, <1>3

\* A set has an element outside every smaller one.
LEMMA OneOutside ==
    ASSUME NEW S, IsFiniteSet(S), NEW T, IsFiniteSet(T),
           Cardinality(T) < Cardinality(S)
    PROVE  S \ T # {}
<1> SUFFICES ASSUME S \subseteq T PROVE FALSE
  OBVIOUS
<1>1. Cardinality(S) <= Cardinality(T)
  BY FS_Subset
<1> QED BY <1>1, FS_CardinalityType

-----------------------------------------------------------------------------
(* The connectivity of a device                                            *)

\* The lookups from which an alert type is asked for twice more, once more.
AsksTwice(k) ==
    {Lookups("unknown", "online")} \cup
    (IF k = "device_offline" THEN {} ELSE {Tail(Lookups("unknown", "online"))})

AsksOnce(k) ==
    {Lookups("unknown", "offline")} \cup
    (IF k = "device_offline" THEN {Tail(Lookups("unknown", "online"))}
                             ELSE {Tail(Lookups("unknown", "offline"))})

LeftToAsk ==
    {<<>>} \cup AsksTwice("telemetry_stale") \cup AsksOnce("telemetry_stale")

\* The transactions that are about to open an alert.
Creators(k) == {t \in Transactions : k \in tx[t].create}

\* Each transaction opens at most one alert of a type, and did not find one
\* open: there are never more of them than transactions.
FewAlerts ==
    \A k \in Kinds :
        Cardinality(active[k]) + Cardinality(Creators(k))
            <= Cardinality(Transactions)

\* A transaction resolves at most as many alerts of a type as it asks for.
ReadsFew(r) ==
    \A k \in Kinds :
        /\ \E a, b \in Alerts : r.resolve[k] \subseteq {a, b}
        /\ r.look \in AsksOnce(k) => \E a \in Alerts : r.resolve[k] \subseteq {a}
        /\ r.look \in AsksTwice(k) => r.resolve[k] = {}

FewResolved == \A t \in Transactions : ReadsFew(tx[t])

\* What a transaction has looked up is forgotten with it.
Orderly ==
    \A t \in Transactions :
        /\ tx[t].look \in LeftToAsk
        /\ tx[t].step # "mark" => /\ tx[t].look = <<>> /\ tx[t].create = {}
                                  /\ tx[t].resolve = Nothing

\* A message reports one of the states it can, and the scan marks nothing but
\* a device that was seen.
KnownCause ==
    /\ \A m \in Messages : tx[m].step # "idle" => tx[m].state \in Reported
    /\ tx[Scan].step = "mark" => seen # Never

TxRecords ==
    [step : {"idle", "load", "mark"}, age : 0..MaxDelay, state : States,
     loaded : States, look : Seq(Kinds), resolve : [Kinds -> SUBSET Alerts],
     create : SUBSET Kinds]

StatusTypes ==
    /\ status \in States
    /\ seen \in 0..Never /\ fromScan \in BOOLEAN
    /\ active \in [Kinds -> SUBSET Alerts]
    /\ tx \in [Transactions -> TxRecords]

StatusInv ==
    /\ StatusTypes
    /\ seen = Never => status \in {"unknown", "offline"}
    /\ FewAlerts /\ FewResolved /\ Orderly /\ KnownCause

-----------------------------------------------------------------------------
\* The suffixes of the lookups, written out.
LEMMA LooksAre ==
    /\ AsksTwice("device_offline") =
          {<<"device_offline", "telemetry_stale",
             "device_offline", "telemetry_stale">>}
    /\ AsksTwice("telemetry_stale") =
          {<<"device_offline", "telemetry_stale",
             "device_offline", "telemetry_stale">>,
           <<"telemetry_stale", "device_offline", "telemetry_stale">>}
    /\ AsksOnce("device_offline") =
          {<<"device_offline", "telemetry_stale">>,
           <<"telemetry_stale", "device_offline", "telemetry_stale">>}
    /\ AsksOnce("telemetry_stale") =
          {<<"device_offline", "telemetry_stale">>, <<"telemetry_stale">>}
BY DEF AsksTwice, AsksOnce, Lookups

\* A lookup is taken from the front, and the type it asks for is asked for
\* once less.
LEMMA LookTaken ==
    ASSUME NEW look \in LeftToAsk, look # <<>>
    PROVE  /\ Head(look) \in Kinds /\ Tail(look) \in LeftToAsk
           /\ Tail(look) \in Seq(Kinds)
           /\ \A k \in Kinds :
                 /\ Tail(look) \in AsksTwice(k) =>
                       look \in AsksTwice(k) /\ k # Head(look)
                 /\ Tail(look) \in AsksOnce(k) =>
                       IF k = Head(look) THEN look \in AsksTwice(k)
                                         ELSE look \in AsksOnce(k)
<1> DEFINE o == "device_offline"
           s == "telemetry_stale"
<1>1. look \in {<<o, s, o, s>>, <<s, o, s>>, <<o, s>>, <<s>>}
  BY LooksAre DEF LeftToAsk
<1>2. CASE look = <<o, s, o, s>>
  BY <1>2, LooksAre DEF LeftToAsk, Kinds
<1>3. CASE look = <<s, o, s>>
  BY <1>3, LooksAre DEF LeftToAsk, Kinds
<1>4. CASE look = <<o, s>>
  BY <1>4, LooksAre DEF LeftToAsk, Kinds
<1>5. CASE look = <<s>>
  BY <1>5, LooksAre DEF LeftToAsk, Kinds
<1> QED BY <1>1, <1>2, <1>3, <1>4, <1>5

\* What mark is about to ask is one of them.
LEMMA LookupsLeft ==
    ASSUME NEW loaded, NEW state
    PROVE  /\ Lookups(loaded, state) \in LeftToAsk
           /\ Lookups(loaded, state) \in Seq(Kinds)
<1>1. CASE state = "online"
  BY <1>1, LooksAre DEF Lookups, LeftToAsk, Kinds
<1>2. CASE state # "online"
  BY <1>2, LooksAre DEF Lookups, LeftToAsk, Kinds
<1> QED BY <1>1, <1>2
-----------------------------------------------------------------------------
\* There are as many transactions as messages under way, and the scan.
LEMMA HowManyTransactions ==
    /\ IsFiniteSet(Transactions)
    /\ Cardinality(Messages) \in Nat
    /\ Cardinality(Transactions) = Cardinality(Messages) + 1
    /\ \A k : IsFiniteSet(Creators(k)) /\ Cardinality(Creators(k)) \in Nat
              /\ Cardinality(Creators(k)) <= Cardinality(Transactions)
<1>1. /\ IsFiniteSet(Transactions)
      /\ Cardinality(Transactions) = Cardinality(Messages) + 1
  BY StatusAssumption, FS_AddElement DEF Transactions, Scan
<1>2. Cardinality(Messages) \in Nat
  BY StatusAssumption, FS_CardinalityType
<1>3. \A k : Creators(k) \in SUBSET Transactions
  BY DEF Creators
<1>4. ASSUME NEW k
      PROVE  IsFiniteSet(Creators(k)) /\ Cardinality(Creators(k)) \in Nat
             /\ Cardinality(Creators(k)) <= Cardinality(Transactions)
  BY <1>1, <1>3, FS_Subset, FS_CardinalityType
<1> QED BY <1>1, <1>2, <1>4

\* A transaction that has not begun.
LEMMA IdleIsTx == Idle \in TxRecords
BY StatusAssumption DEF Idle, TxRecords, States, Nothing, Kinds

\* The numbers of alerts suffice: a transaction has read at most two of the
\* alerts of a type, and as many are open as there are transactions.
LEMMA AlertsSuffice ==
    ASSUME StatusInv, NEW k \in Kinds
    PROVE  Fresh(k) # {}
<1> DEFINE n == Cardinality(Transactions)
<1>1. n \in Nat /\ IsFiniteSet(Transactions) /\ Cardinality(Alerts) > 3 * n
  BY HowManyTransactions, StatusAssumption
<1>2. \A t \in Transactions : \E a, b \in Alerts : tx[t].resolve[k] \subseteq {a, b}
  BY DEF StatusInv, FewResolved, ReadsFew
<1> DEFINE one == [t \in Transactions |->
                      CHOOSE a \in Alerts : \E b \in Alerts :
                          tx[t].resolve[k] \subseteq {a, b}]
<1>3. \A t \in Transactions :
         one[t] \in Alerts /\ \E b \in Alerts : tx[t].resolve[k] \subseteq {one[t], b}
  BY <1>2
<1> HIDE DEF one
<1> DEFINE two == [t \in Transactions |->
                      CHOOSE b \in Alerts : tx[t].resolve[k] \subseteq {one[t], b}]
           Ones == {one[t] : t \in Transactions}
           Twos == {two[t] : t \in Transactions}
           Read == UNION {tx[t].resolve[k] : t \in Transactions}
<1>4. \A t \in Transactions : tx[t].resolve[k] \subseteq {one[t], two[t]}
  BY <1>3
<1>5. two = [t \in Transactions |-> two[t]] /\ one = [t \in Transactions |-> one[t]]
  BY DEF one
<1> HIDE DEF two
<1>6. IsFiniteSet(Ones) /\ Cardinality(Ones) <= n
  BY <1>1, <1>5, FewValues
<1>7. IsFiniteSet(Twos) /\ Cardinality(Twos) <= n
  BY <1>1, <1>5, FewValues
<1>8. Read \subseteq Ones \cup Twos
  BY <1>4
<1>9. IsFiniteSet(active[k]) /\ Cardinality(active[k]) <= n
  <2>1. active[k] \in SUBSET Alerts
    BY DEF StatusInv, StatusTypes
  <2>2. IsFiniteSet(active[k]) /\ Cardinality(active[k]) \in Nat
    BY <2>1, StatusAssumption, FS_Subset, FS_CardinalityType
  <2> QED BY <2>2, HowManyTransactions DEF StatusInv, FewAlerts
<1> DEFINE All == active[k] \cup (Ones \cup Twos)
<1>10. IsFiniteSet(All) /\ Cardinality(All) <= 3 * n
  <2> HIDE DEF Ones, Twos, n
  <2>1. /\ IsFiniteSet(Ones \cup Twos) /\ Cardinality(Ones \cup Twos) \in Nat
        /\ Cardinality(Ones) \in Nat /\ Cardinality(Twos) \in Nat
        /\ Cardinality(Ones \cup Twos) <= Cardinality(Ones) + Cardinality(Twos)
    BY <1>6, <1>7, FewInUnion
  <2>2. /\ IsFiniteSet(All) /\ Cardinality(All) \in Nat
        /\ Cardinality(active[k]) \in Nat
        /\ Cardinality(All) <= Cardinality(active[k]) + Cardinality(Ones \cup Twos)
    BY <1>9, <2>1, FewInUnion
  <2> QED BY <1>1, <1>6, <1>7, <1>9, <2>1, <2>2
<1>11. Alerts \ All # {}
  <2>1. Cardinality(All) < Cardinality(Alerts)
    BY <1>1, <1>10, StatusAssumption, FS_CardinalityType
  <2> QED BY <1>10, <2>1, StatusAssumption, OneOutside
<1> QED BY <1>8, <1>11 DEF Fresh

\* The invariant of the connectivity holds at the start.
LEMMA StatusInitInv == Init => StatusInv
<1> SUFFICES ASSUME Init PROVE StatusInv
  OBVIOUS
<1>1. tx \in [Transactions -> TxRecords]
  BY IdleIsTx DEF Init
<1>2. /\ \A k \in Kinds : active[k] = {} /\ Creators(k) = {}
      /\ \A t \in Transactions : tx[t] = Idle
  BY DEF Init, Nothing, Creators, Idle
<1>3. FewAlerts
  BY <1>2, HowManyTransactions, FS_EmptySet DEF FewAlerts
<1>4. StatusTypes
  <2>1. Never \in 0..Never
    BY StatusAssumption DEF Never, Oldest
  <2>2. Nothing \in [Kinds -> SUBSET Alerts]
    BY DEF Nothing
  <2> QED BY <1>1, <2>1, <2>2 DEF Init, StatusTypes, States
<1>5. Alerts # {}
  BY StatusAssumption, HowManyTransactions, FS_EmptySet
<1>6. FewResolved
  BY <1>2, <1>5 DEF FewResolved, ReadsFew, Idle, Nothing
<1>7. Orderly /\ KnownCause
  BY <1>2 DEF Orderly, KnownCause, Idle, LeftToAsk, Transactions
<1> QED BY <1>3, <1>4, <1>6, <1>7 DEF StatusInv, Init

\* A step that only moves one transaction on: what it has in hand stays within
\* what it has asked for, and an alert it decides to open is not open.
LEMMA OneTransaction ==
    ASSUME StatusInv, NEW t \in Transactions, NEW r \in TxRecords,
           tx' = [tx EXCEPT ![t] = r],
           UNCHANGED <<status, seen, active, fromScan>>,
           r.look \in LeftToAsk,
           r.step # "mark" => /\ r.look = <<>> /\ r.create = {}
                              /\ r.resolve = Nothing,
           t \in Messages /\ r.step # "idle" => r.state \in Reported,
           t = Scan /\ r.step = "mark" => seen # Never,
           \A k \in r.create : k \in tx[t].create \/ active[k] = {},
           ReadsFew(r)
    PROVE  StatusInv'
<1> USE DEF StatusInv
<1>1. /\ tx' \in [Transactions -> TxRecords] /\ tx'[t] = r
      /\ \A u \in Transactions : u # t => tx'[u] = tx[u]
  BY DEF StatusTypes
<1>2. StatusTypes'
  BY <1>1 DEF StatusTypes
<1>3. (seen = Never => status \in {"unknown", "offline"})'
  OBVIOUS
<1>4. FewAlerts'
  <2> SUFFICES ASSUME NEW k \in Kinds
               PROVE  Cardinality(active[k]) + Cardinality(Creators(k)')
                         <= Cardinality(Transactions)
    BY DEF FewAlerts
  <2>1. CASE active[k] = {}
    <3>1. Creators(k)' \in SUBSET Transactions
      BY DEF Creators
    <3>2. Cardinality(Creators(k)') <= Cardinality(Transactions)
      BY <3>1, HowManyTransactions, FS_Subset
    <3>3. Cardinality(Creators(k)') \in Nat
      BY <3>1, HowManyTransactions, FS_Subset, FS_CardinalityType
    <3> QED BY <2>1, <3>2, <3>3, HowManyTransactions, FS_EmptySet
  <2>2. CASE active[k] # {}
    <3>1. Creators(k)' \in SUBSET Creators(k)
      BY <1>1, <2>2 DEF Creators
    <3>2. Cardinality(Creators(k)') <= Cardinality(Creators(k))
      BY <3>1, HowManyTransactions, FS_Subset
    <3>3. Cardinality(Creators(k)') \in Nat
      BY <3>1, HowManyTransactions, FS_Subset, FS_CardinalityType
    <3>4. Cardinality(active[k]) \in Nat
      <4>1. active[k] \in SUBSET Alerts
        BY DEF StatusTypes
      <4> QED BY <4>1, StatusAssumption, FS_Subset, FS_CardinalityType
    <3>5. Cardinality(active[k]) + Cardinality(Creators(k))
             <= Cardinality(Transactions)
      BY DEF FewAlerts
    <3> QED BY <3>2, <3>3, <3>4, <3>5, HowManyTransactions
  <2> QED BY <2>1, <2>2
<1>5. FewResolved'
  BY <1>1 DEF FewResolved
<1>6. Orderly'
  BY <1>1 DEF Orderly
<1>7. KnownCause'
  BY <1>1 DEF KnownCause, Transactions
<1> QED BY <1>2, <1>3, <1>4, <1>5, <1>6, <1>7
\* A transaction that has looked nothing up has nothing to resolve.
LEMMA NothingRead ==
    ASSUME NEW r, r.resolve = Nothing
    PROVE  ReadsFew(r)
<1>1. Alerts # {}
  BY StatusAssumption, HowManyTransactions, FS_EmptySet
<1> QED BY <1>1 DEF Nothing, ReadsFew

\* A type that is asked for now has been asked for once at most.
LEMMA HeadIsAsked ==
    ASSUME NEW look \in LeftToAsk, look # <<>>
    PROVE  look \in AsksTwice(Head(look)) \/ look \in AsksOnce(Head(look))
BY LooksAre DEF LeftToAsk

\* A transaction ends without a trace.
LEMMA IdleKeeps ==
    ASSUME StatusInv, NEW t \in Transactions, tx' = [tx EXCEPT ![t] = Idle],
           UNCHANGED <<status, seen, active, fromScan>>
    PROVE  StatusInv'
<1>1. /\ Idle.step = "idle" /\ Idle.look = <<>> /\ Idle.create = {}
      /\ Idle.resolve = Nothing
  BY DEF Idle
<1>2. <<>> \in LeftToAsk /\ ReadsFew(Idle)
  BY <1>1, NothingRead DEF LeftToAsk
<1> QED BY <1>1, <1>2, IdleIsTx, OneTransaction

\* mark begins.
LEMMA MarkingKeeps ==
    ASSUME StatusInv, NEW t \in Transactions, NEW state \in States,
           tx[t].step = "load", Marking(t, state),
           UNCHANGED <<status, seen, active, fromScan>>,
           t \in Messages => state \in Reported,
           t = Scan => seen # Never
    PROVE  StatusInv'
<1> DEFINE r == [tx[t] EXCEPT !.step = "mark", !.state = state,
                              !.loaded = status, !.look = Lookups(status, state)]
<1>1. tx[t] \in TxRecords /\ tx \in [Transactions -> TxRecords] /\ status \in States
  BY DEF StatusInv, StatusTypes
<1>2. tx' = [tx EXCEPT ![t] = r]
  BY <1>1 DEF Marking
<1>3. tx[t].create = {} /\ tx[t].resolve = Nothing
  BY DEF StatusInv, Orderly
<1>4. /\ r.step = "mark" /\ r.state = state /\ r.look = Lookups(status, state)
      /\ r.create = {} /\ r.resolve = Nothing /\ r \in TxRecords
  BY <1>1, <1>3, LookupsLeft DEF TxRecords
<1> HIDE DEF r
<1>5. ReadsFew(r)
  BY <1>4, NothingRead
<1> QED BY <1>2, <1>4, <1>5, LookupsLeft, OneTransaction

\* A message comes, or the device is read for it.
LEMMA MessageKeeps ==
    ASSUME StatusInv, NEW m \in Messages, Receive(m) \/ LoadForMessage(m)
    PROVE  StatusInv'
<1>1. m \in Transactions /\ m # Scan /\ tx[m] \in TxRecords
  BY StatusAssumption DEF Transactions, Scan, StatusInv, StatusTypes
<1>2. CASE Receive(m)
  <2>1. PICK state \in Reported :
           tx' = [tx EXCEPT ![m] = [Idle EXCEPT !.step = "load", !.state = state]]
    BY <1>2 DEF Receive
  <2> DEFINE r == [Idle EXCEPT !.step = "load", !.state = state]
  <2>2. r \in TxRecords /\ r.step = "load" /\ r.state = state
        /\ r.look = <<>> /\ r.create = {} /\ r.resolve = Nothing
    BY IdleIsTx DEF TxRecords, Idle, Reported, States
  <2> HIDE DEF r
  <2>3. ReadsFew(r) /\ <<>> \in LeftToAsk
    BY <2>2, NothingRead DEF LeftToAsk
  <2>4. tx' = [tx EXCEPT ![m] = r] /\ UNCHANGED <<status, seen, active, fromScan>>
    BY <1>2, <2>1 DEF Receive, r
  <2> QED BY <1>1, <2>2, <2>3, <2>4, OneTransaction
<1>3. CASE LoadForMessage(m)
  <2>1. tx[m].step = "load" /\ tx[m].state \in Reported
    BY <1>3 DEF LoadForMessage, StatusInv, KnownCause
  <2> QED BY <1>1, <1>3, <2>1, MarkingKeeps DEF LoadForMessage, States, Reported
<1> QED BY <1>2, <1>3

\* The scan.
LEMMA ScanKeeps ==
    ASSUME StatusInv, ScanStarts \/ ScanSkips \/ ScanMarks
    PROVE  StatusInv'
<1>1. Scan \in Transactions /\ Scan \notin Messages /\ tx[Scan] \in TxRecords
  BY StatusAssumption DEF Transactions, Scan, StatusInv, StatusTypes
<1>2. CASE ScanStarts
  <2> DEFINE r == [tx[Scan] EXCEPT !.step = "load"]
  <2>1. tx' = [tx EXCEPT ![Scan] = r] /\ tx[Scan].step = "idle"
    BY <1>1, <1>2 DEF ScanStarts, StatusInv, StatusTypes
  <2>2. tx[Scan].look = <<>> /\ tx[Scan].create = {} /\ tx[Scan].resolve = Nothing
    BY <1>1, <2>1 DEF StatusInv, Orderly
  <2>3. r \in TxRecords /\ r.step = "load"
        /\ r.look = <<>> /\ r.create = {} /\ r.resolve = Nothing
    BY <1>1, <2>2 DEF TxRecords
  <2> HIDE DEF r
  <2>4. ReadsFew(r) /\ <<>> \in LeftToAsk
    BY <2>3, NothingRead DEF LeftToAsk
  <2>5. UNCHANGED <<status, seen, active, fromScan>>
    BY <1>2 DEF ScanStarts
  <2> QED BY <1>1, <2>1, <2>3, <2>4, <2>5, OneTransaction
<1>3. CASE ScanSkips
  BY <1>1, <1>3, IdleKeeps DEF ScanSkips
<1>4. CASE ScanMarks
  <2>1. Target(ScanAge) \in States
    BY DEF Target, States
  <2> QED BY <1>1, <1>4, <2>1, MarkingKeeps DEF ScanMarks
<1> QED BY <1>2, <1>3, <1>4

\* One lookup.
LEMMA FindKeeps ==
    ASSUME StatusInv, NEW t \in Transactions, Find(t)
    PROVE  StatusInv'
<1> DEFINE k == Head(tx[t].look)
           rest == [tx[t] EXCEPT !.look = Tail(@)]
<1>1. /\ tx[t].step = "mark" /\ tx[t].look # <<>> /\ tx[t].look \in LeftToAsk
      /\ tx[t] \in TxRecords
      /\ UNCHANGED <<status, seen, active, fromScan>>
  BY DEF Find, StatusInv, StatusTypes, Orderly
<1>2. k \in Kinds /\ Tail(tx[t].look) \in LeftToAsk /\ Tail(tx[t].look) \in Seq(Kinds)
  BY <1>1, LookTaken
<1>3. \A j \in Kinds :
         /\ Tail(tx[t].look) \in AsksTwice(j) => tx[t].look \in AsksTwice(j) /\ j # k
         /\ Tail(tx[t].look) \in AsksOnce(j) =>
               IF j = k THEN tx[t].look \in AsksTwice(j) ELSE tx[t].look \in AsksOnce(j)
  BY <1>1, LookTaken
<1>4. \A j \in Kinds :
         /\ \E a, b \in Alerts : tx[t].resolve[j] \subseteq {a, b}
         /\ tx[t].look \in AsksOnce(j) =>
               \E a \in Alerts : tx[t].resolve[j] \subseteq {a}
         /\ tx[t].look \in AsksTwice(j) => tx[t].resolve[j] = {}
  BY DEF StatusInv, FewResolved, ReadsFew
<1>5. /\ t \in Messages => tx[t].state \in Reported
      /\ t = Scan => seen # Never
  BY <1>1 DEF StatusInv, KnownCause
<1>6. CASE \E a \in active[k] : tx' = [tx EXCEPT ![t] = [rest EXCEPT !.resolve[k] = @ \cup {a}]]
  <2>1. PICK a \in active[k] : tx' = [tx EXCEPT ![t] = [rest EXCEPT !.resolve[k] = @ \cup {a}]]
    BY <1>6
  <2> DEFINE r == [rest EXCEPT !.resolve[k] = @ \cup {a}]
  <2>2. a \in Alerts
    BY <1>2, <2>1 DEF StatusInv, StatusTypes
  <2>3. /\ r.step = "mark" /\ r.look = Tail(tx[t].look)
        /\ r.state = tx[t].state /\ r.create = tx[t].create
        /\ r.resolve = [tx[t].resolve EXCEPT ![k] = @ \cup {a}]
        /\ r \in TxRecords
    BY <1>1, <1>2, <2>2 DEF TxRecords
  <2>4. \A j \in Kinds : r.resolve[j] = IF j = k THEN tx[t].resolve[k] \cup {a}
                                                 ELSE tx[t].resolve[j]
    BY <1>1, <2>3 DEF TxRecords
  <2> HIDE DEF r
  <2>5. tx' = [tx EXCEPT ![t] = r]
    BY <2>1 DEF r
  <2>6. ASSUME NEW j \in Kinds
        PROVE  /\ \E c, b \in Alerts : r.resolve[j] \subseteq {c, b}
               /\ r.look \in AsksOnce(j) => \E c \in Alerts : r.resolve[j] \subseteq {c}
               /\ r.look \in AsksTwice(j) => r.resolve[j] = {}
    <3>1. CASE j # k
      BY <1>3, <1>4, <2>3, <2>4, <3>1
    <3>2. CASE j = k
      <4>1. tx[t].look \in AsksTwice(k) \/ tx[t].look \in AsksOnce(k)
        BY <1>1, HeadIsAsked
      <4>2. PICK c \in Alerts : tx[t].resolve[k] \subseteq {c}
        BY <1>2, <1>4, <2>2, <4>1
      <4>3. r.resolve[j] \subseteq {c, a}
        BY <2>4, <3>2, <4>2
      <4>4. r.look \in AsksOnce(j) => r.resolve[j] \subseteq {a}
        BY <1>2, <1>3, <1>4, <2>3, <2>4, <3>2
      <4> QED BY <1>2, <1>3, <2>2, <2>3, <3>2, <4>3, <4>4
    <3> QED BY <3>1, <3>2
  <2>7. ReadsFew(r)
    BY <2>6 DEF ReadsFew
  <2> QED BY <1>1, <1>2, <1>5, <2>3, <2>5, <2>7, OneTransaction
<1>7. CASE active[k] = {} /\ tx' = [tx EXCEPT ![t] = [rest EXCEPT !.create = @ \cup {k}]]
  <2> DEFINE r == [rest EXCEPT !.create = @ \cup {k}]
  <2>1. /\ r.step = "mark" /\ r.look = Tail(tx[t].look)
        /\ r.state = tx[t].state /\ r.create = tx[t].create \cup {k}
        /\ r.resolve = tx[t].resolve /\ r \in TxRecords
    BY <1>1, <1>2 DEF TxRecords
  <2> HIDE DEF r
  <2>2. tx' = [tx EXCEPT ![t] = r]
    BY <1>7 DEF r
  <2>3. ReadsFew(r)
    BY <1>3, <1>4, <2>1 DEF ReadsFew
  <2> QED BY <1>1, <1>2, <1>5, <1>7, <2>1, <2>2, <2>3, OneTransaction
<1>8. CASE tx' = [tx EXCEPT ![t] = rest]
  <2> DEFINE r == rest
  <2>1. /\ r.step = "mark" /\ r.look = Tail(tx[t].look)
        /\ r.state = tx[t].state /\ r.create = tx[t].create
        /\ r.resolve = tx[t].resolve /\ r \in TxRecords
    BY <1>1, <1>2 DEF TxRecords
  <2> HIDE DEF r
  <2>2. tx' = [tx EXCEPT ![t] = r]
    BY <1>8 DEF r
  <2>3. ReadsFew(r)
    BY <1>3, <1>4, <2>1 DEF ReadsFew
  <2> QED BY <1>1, <1>2, <1>5, <2>1, <2>2, <2>3, OneTransaction
<1> QED BY <1>6, <1>7, <1>8 DEF Find
\* The transaction that commits opens one alert of a type, and only in the
\* place of its intention to.
LEMMA CommitKeepsFew ==
    ASSUME StatusInv, NEW t \in Transactions, Commit(t)
    PROVE  FewAlerts'
<1> SUFFICES ASSUME NEW k \in Kinds
             PROVE  Cardinality(active'[k]) + Cardinality(Creators(k)')
                       <= Cardinality(Transactions)
  BY DEF FewAlerts
<1> DEFINE new == {a \in Fresh(k) : k \in tx[t].create
                                    /\ \A b \in Fresh(k) : a <= b}
<1>1. active'[k] = (active[k] \ tx[t].resolve[k]) \cup new
  BY DEF Commit
<1>2. /\ tx'[t] = Idle
      /\ \A u \in Transactions : u # t => tx'[u] = tx[u]
  BY DEF Commit, StatusInv, StatusTypes
<1>3. Creators(k)' = Creators(k) \ {t}
  BY <1>2 DEF Creators, Idle
<1>4. Cardinality(active[k]) + Cardinality(Creators(k)) <= Cardinality(Transactions)
  BY DEF StatusInv, FewAlerts
<1>5. IsFiniteSet(active[k]) /\ Cardinality(active[k]) \in Nat
  <2>1. active[k] \in SUBSET Alerts
    BY DEF StatusInv, StatusTypes
  <2> QED BY <2>1, StatusAssumption, FS_Subset, FS_CardinalityType
<1>6. active[k] \ tx[t].resolve[k] \in SUBSET active[k]
  OBVIOUS
<1>7. /\ IsFiniteSet(active[k] \ tx[t].resolve[k])
      /\ Cardinality(active[k] \ tx[t].resolve[k]) \in Nat
      /\ Cardinality(active[k] \ tx[t].resolve[k]) <= Cardinality(active[k])
  BY <1>5, <1>6, FS_Subset, FS_CardinalityType
<1>8. IsFiniteSet(Creators(k)) /\ Cardinality(Creators(k)) \in Nat
  BY HowManyTransactions
<1>9. CASE k \in tx[t].create
  <2>1. /\ Cardinality(Creators(k)') = Cardinality(Creators(k)) - 1
    BY <1>3, <1>8, <1>9, FS_RemoveElement DEF Creators
  <2>2. Fresh(k) \subseteq Nat
    BY StatusAssumption DEF Fresh
  <2>3. PICK a \in Fresh(k) : \A b \in Fresh(k) : a <= b
    BY <2>2, AlertsSuffice, LeastElement
  <2>4. a \in new
    BY <1>9, <2>3
  <2>5. new = {a}
    <3>1. ASSUME NEW b \in new PROVE b = a
      <4>1. b \in Nat /\ a \in Nat /\ b <= a /\ a <= b
        BY <2>2, <2>3
      <4> QED BY <4>1
    <3> HIDE DEF new
    <3> QED BY <2>4, <3>1
  <2>6. /\ IsFiniteSet(active'[k]) /\ Cardinality(active'[k]) \in Nat
        /\ Cardinality(active'[k]) <= Cardinality(active[k] \ tx[t].resolve[k]) + 1
    <3> DEFINE kept == active[k] \ tx[t].resolve[k]
    <3>1. active'[k] = kept \cup {a}
      BY <1>1, <2>5
    <3> HIDE DEF kept
    <3>2. /\ IsFiniteSet(kept \cup {a})
          /\ Cardinality(kept \cup {a}) \in {Cardinality(kept), Cardinality(kept) + 1}
      BY <1>7, FS_AddElement DEF kept
    <3> QED BY <1>7, <3>1, <3>2 DEF kept
  <2> QED BY <1>4, <1>5, <1>7, <1>8, <2>1, <2>6, HowManyTransactions
<1>10. CASE k \notin tx[t].create
  <2>1. active'[k] = active[k] \ tx[t].resolve[k]
    BY <1>1, <1>10
  <2>2. Creators(k)' = Creators(k)
    BY <1>3, <1>10 DEF Creators
  <2> QED BY <1>4, <1>5, <1>7, <1>8, <2>1, <2>2, HowManyTransactions
<1> QED BY <1>9, <1>10

\* The commit.
LEMMA CommitKeeps ==
    ASSUME StatusInv, NEW t \in Transactions, Commit(t)
    PROVE  StatusInv'
<1>1. /\ tx' = [tx EXCEPT ![t] = Idle] /\ tx[t].step = "mark"
      /\ tx \in [Transactions -> TxRecords]
  BY DEF Commit, StatusInv, StatusTypes
<1>2. /\ tx' \in [Transactions -> TxRecords] /\ tx'[t] = Idle
      /\ \A u \in Transactions : u # t => tx'[u] = tx[u]
  BY <1>1, IdleIsTx
<1>3. tx[t] \in TxRecords
  BY <1>1
<1>4. /\ tx[t].age \in 0..Never /\ tx[t].age # Never
  BY <1>3, StatusAssumption DEF TxRecords, Never, Oldest
<1>5. StatusTypes'
  <2>1. status' \in States /\ seen' \in 0..Never
    BY <1>3, <1>4 DEF Commit, StatusInv, StatusTypes, TxRecords
  <2>2. fromScan' \in BOOLEAN
    BY DEF Commit, StatusInv, StatusTypes
  <2>3. active' \in [Kinds -> SUBSET Alerts]
    BY DEF Commit, StatusInv, StatusTypes, Fresh
  <2> QED BY <1>2, <2>1, <2>2, <2>3 DEF StatusTypes
<1>6. (seen = Never => status \in {"unknown", "offline"})'
  <2> SUFFICES ASSUME seen' = Never PROVE status' \in {"unknown", "offline"}
    OBVIOUS
  <2>1. ~Contact(tx[t].state) /\ seen = Never
    BY <1>4 DEF Commit
  <2>2. t \in Messages
    BY <1>1, <2>1 DEF StatusInv, KnownCause, Transactions
  <2>3. tx[t].state = "offline"
    BY <1>1, <2>1, <2>2 DEF StatusInv, KnownCause, Reported, Contact
  <2> QED BY <2>1, <2>3 DEF Commit, StatusInv
<1>7. FewResolved'
  <2>1. ReadsFew(Idle)
    BY NothingRead DEF Idle
  <2> QED BY <1>2, <2>1 DEF StatusInv, FewResolved
<1>8. Orderly'
  BY <1>2 DEF StatusInv, Orderly, Idle, LeftToAsk
<1>9. KnownCause'
  <2>1. seen' = Never => seen = Never
    BY <1>4 DEF Commit
  <2> QED BY <1>2, <2>1 DEF StatusInv, KnownCause, Transactions, Idle
<1> QED BY <1>5, <1>6, <1>7, <1>8, <1>9, CommitKeepsFew DEF StatusInv

\* Time passes: of the transactions only the ages change.
LEMMA TickKeeps ==
    ASSUME StatusInv, Tick
    PROVE  StatusInv'
<1> USE DEF StatusInv
<1>1. tx' = [t \in Transactions |->
                IF tx[t].step = "idle" THEN tx[t]
                                       ELSE [tx[t] EXCEPT !.age = @ + 1]]
  BY DEF Tick
<1>2. ASSUME NEW t \in Transactions
      PROVE  /\ tx'[t] \in TxRecords
             /\ tx'[t].step = tx[t].step /\ tx'[t].state = tx[t].state
             /\ tx'[t].look = tx[t].look /\ tx'[t].resolve = tx[t].resolve
             /\ tx'[t].create = tx[t].create
  <2>1. tx[t] \in TxRecords
    BY DEF StatusTypes
  <2>2. CASE tx[t].step = "idle"
    BY <1>1, <2>1, <2>2
  <2>3. CASE tx[t].step # "idle"
    <3>1. tx[t].age + 1 \in 0..MaxDelay
      BY <2>1, <2>3, StatusAssumption DEF Tick, TxRecords
    <3> QED BY <1>1, <2>1, <2>3, <3>1 DEF TxRecords
  <2> QED BY <2>2, <2>3
<1>3. tx' \in [Transactions -> TxRecords]
  BY <1>1, <1>2
<1>4. seen' \in 0..Never /\ (seen' = Never <=> seen = Never)
  BY StatusAssumption DEF Tick, StatusTypes, Older, Never, Oldest
<1>5. StatusTypes'
  BY <1>3, <1>4 DEF StatusTypes, Tick
<1>6. (seen = Never => status \in {"unknown", "offline"})'
  BY <1>4 DEF Tick
<1>7. FewAlerts'
  <2>1. \A k : Creators(k)' = Creators(k)
    BY <1>2 DEF Creators
  <2> QED BY <2>1 DEF FewAlerts, Tick
<1>8. FewResolved'
  BY <1>2 DEF FewResolved, ReadsFew
<1>9. Orderly'
  BY <1>2 DEF Orderly
<1>10. KnownCause'
  BY <1>2, <1>4 DEF KnownCause, Transactions
<1> QED BY <1>5, <1>6, <1>7, <1>8, <1>9, <1>10

\* Every step of the connectivity keeps its invariant.
LEMMA StatusInvStep == StatusInv /\ [Next]_vars => StatusInv'
<1> SUFFICES ASSUME StatusInv, [Next]_vars PROVE StatusInv'
  OBVIOUS
<1>1. CASE \E m \in Messages : Receive(m) \/ LoadForMessage(m)
  BY <1>1, MessageKeeps
<1>2. CASE ScanStarts \/ ScanSkips \/ ScanMarks
  BY <1>2, ScanKeeps
<1>3. ASSUME NEW t \in Transactions, Rollback(t) PROVE StatusInv'
  BY <1>3, IdleKeeps DEF Rollback
<1>4. CASE Tick
  BY <1>4, TickKeeps
<1>5. CASE UNCHANGED vars
  <2>1. UNCHANGED <<status, seen, active, tx, fromScan>>
    BY <1>5 DEF vars
  <2>2. \A k : Creators(k)' = Creators(k)
    BY <2>1 DEF Creators
  <2> QED BY <2>1, <2>2 DEF StatusInv, StatusTypes, FewAlerts, FewResolved,
                            ReadsFew, Orderly, KnownCause
<1> QED BY <1>1, <1>2, <1>3, <1>4, <1>5, FindKeeps, CommitKeeps DEF Next

\* The invariant of the connectivity contains its type invariant.
LEMMA StatusTypeOK == StatusInv => TypeOK
<1> SUFFICES ASSUME StatusInv PROVE TypeOK
  OBVIOUS
<1>1. StatusTypes /\ (seen = Never => status \in {"unknown", "offline"})
  BY DEF StatusInv
<1>2. \A k \in Kinds : Fresh(k) # {}
  BY AlertsSuffice
<1> QED BY <1>1, <1>2 DEF TypeOK, StatusTypes, TxRecords

-----------------------------------------------------------------------------
(* The trips                                                               *)

OpenTrips == {r \in Rows : trips[r].open}

\* The transactions that found no trip, one of which may open one.
Openers == {m \in Points : point[m].step = "commit" /\ point[m].row = NoRow}

\* A transaction opens at most one trip, and has found none active: there are
\* never more of them than transactions.
FewTrips == Cardinality(OpenTrips) + Cardinality(Openers) <= Cardinality(Points)

PointRecords ==
    [step : {"idle", "trip", "commit"}, age : 0..MaxLag, speed : Speeds,
     motion : Ages, stopped : Ages, row : Rows \cup {NoRow}, last : Ages]

TripTypes ==
    /\ motion \in Ages /\ stopped \in Ages
    /\ trips \in [Rows -> [open : BOOLEAN, started : Ages, last : Ages]]
    /\ point \in [Points -> PointRecords]

TripInv == TripTypes /\ FewTrips

\* The rows and the transactions can be counted.
LEMMA TripCounts ==
    /\ IsFiniteSet(OpenTrips) /\ Cardinality(OpenTrips) \in Nat
    /\ IsFiniteSet(Openers) /\ Cardinality(Openers) \in Nat
    /\ Cardinality(Points) \in Nat /\ Cardinality(Rows) \in Nat
<1>1. OpenTrips \in SUBSET Rows /\ Openers \in SUBSET Points
  BY DEF OpenTrips, Openers
<1> QED BY <1>1, TripAssumption, FS_Subset, FS_CardinalityType

\* Ages are numbers, and the greatest stands for none at all.
LEMMA AgesAre ==
    /\ MaxLag \in Nat /\ Aged \in Nat /\ Null = Aged + 1 /\ MaxLag < Aged
    /\ Null \in Ages /\ 0..MaxLag \subseteq Ages /\ Ages \subseteq Nat
    /\ \A age \in Ages : Grow(age) \in Ages
BY TripAssumption DEF Aged, Null, Ages, Grow

\* The numbers of rows suffice: one of them is of no active trip, and read by
\* no transaction.
LEMMA RowsSuffice ==
    ASSUME TripInv
    PROVE  /\ \E r \in Rows : UnusedRow(r)
           /\ FirstUnusedRow \in Rows /\ ~trips[FirstUnusedRow].open
<1> DEFINE rowOf == [m \in Points |-> point[m].row]
           Read == {rowOf[m] : m \in Points}
<1>1. rowOf = [m \in Points |-> rowOf[m]]
  OBVIOUS
<1>2. IsFiniteSet(Read) /\ Cardinality(Read) <= Cardinality(Points)
  <2> HIDE DEF rowOf
  <2> QED BY <1>1, FewValues, TripAssumption
<1>3. /\ IsFiniteSet(OpenTrips \cup Read)
      /\ Cardinality(Read) \in Nat /\ Cardinality(OpenTrips \cup Read) \in Nat
      /\ Cardinality(OpenTrips \cup Read)
            <= Cardinality(OpenTrips) + Cardinality(Read)
  <2> HIDE DEF Read
  <2> QED BY <1>2, FewInUnion, TripCounts
<1>4. Cardinality(OpenTrips \cup Read) < Cardinality(Rows)
  <2> HIDE DEF Read
  <2> QED BY <1>2, <1>3, TripCounts, TripAssumption DEF TripInv, FewTrips
<1>5. Rows \ (OpenTrips \cup Read) # {}
  <2> HIDE DEF Read
  <2> QED BY <1>3, <1>4, OneOutside, TripAssumption
<1> DEFINE Unused == {r \in Rows : UnusedRow(r)}
<1>6. Unused # {}
  BY <1>5 DEF UnusedRow, OpenTrips
<1>7. \E r \in Rows : UnusedRow(r) /\ \A s \in Rows : UnusedRow(s) => r <= s
  <2>1. PICK r \in Unused : \A s \in Unused : r <= s
    BY <1>6, LeastElement, TripAssumption
  <2> QED BY <2>1
<1>8. FirstUnusedRow \in Rows /\ UnusedRow(FirstUnusedRow)
  BY <1>7 DEF FirstUnusedRow
<1> QED BY <1>6, <1>8 DEF UnusedRow

\* Where a trip is active, one of them started last.
LEMMA NewestExists ==
    ASSUME TripInv, Newest = {}
    PROVE  OpenTrips = {}
<1> SUFFICES ASSUME OpenTrips # {} PROVE FALSE
  OBVIOUS
<1> DEFINE S == {trips[r].started : r \in OpenTrips}
<1>1. S \subseteq Nat /\ S # {}
  <2>1. \A r \in Rows : trips[r].started \in Nat
    BY AgesAre DEF TripInv, TripTypes
  <2> QED BY <2>1 DEF OpenTrips
<1>2. PICK x \in S : \A y \in S : x <= y
  <2> HIDE DEF S
  <2> QED BY <1>1, LeastElement
<1>3. PICK r \in OpenTrips : x = trips[r].started
  OBVIOUS
<1>4. r \in Newest
  BY <1>2, <1>3 DEF OpenTrips, Newest
<1> QED BY <1>4

\* A transaction that rests is a transaction.
LEMMA RestingIsPoint == Resting \in PointRecords
BY AgesAre DEF Resting, PointRecords, Speeds

\* The invariant of the trips holds at the start.
LEMMA TripInitInv == TripInit => TripInv
<1> SUFFICES ASSUME TripInit PROVE TripInv
  OBVIOUS
<1>1. TripTypes
  BY AgesAre, RestingIsPoint DEF TripInit, TripTypes, NoTrip
<1>2. OpenTrips = {} /\ Openers = {}
  BY DEF TripInit, OpenTrips, Openers, NoTrip, Resting
<1> QED BY <1>1, <1>2, TripCounts, FS_EmptySet DEF TripInv, FewTrips

\* A step that moves one transaction on without writing: it is about to open
\* a trip only if there is none.
LEMMA OnePoint ==
    ASSUME TripInv, NEW m \in Points, NEW p \in PointRecords,
           point' = [point EXCEPT ![m] = p],
           UNCHANGED <<motion, stopped, trips>>,
           p.step = "commit" /\ p.row = NoRow => OpenTrips = {}
    PROVE  TripInv'
<1>1. /\ point' \in [Points -> PointRecords] /\ point'[m] = p
      /\ \A n \in Points : n # m => point'[n] = point[n]
  BY DEF TripInv, TripTypes
<1>2. TripTypes'
  BY <1>1 DEF TripInv, TripTypes
<1>3. OpenTrips' = OpenTrips
  BY DEF OpenTrips
<1>4. Cardinality(OpenTrips) + Cardinality(Openers') <= Cardinality(Points)
  <2>1. CASE p.step = "commit" /\ p.row = NoRow
    <3>1. Openers' \in SUBSET Points
      BY DEF Openers
    <3>2. Cardinality(Openers') \in Nat /\ Cardinality(Openers') <= Cardinality(Points)
      BY <3>1, TripAssumption, FS_Subset, FS_CardinalityType
    <3> QED BY <2>1, <3>2, FS_EmptySet, TripCounts
  <2>2. CASE ~(p.step = "commit" /\ p.row = NoRow)
    <3>1. Openers' \in SUBSET Openers
      BY <1>1, <2>2 DEF Openers
    <3>2. /\ Cardinality(Openers') \in Nat
          /\ Cardinality(Openers') <= Cardinality(Openers)
      BY <3>1, TripCounts, FS_Subset, FS_CardinalityType
    <3> QED BY <3>2, TripCounts DEF TripInv, FewTrips
  <2> QED BY <2>1, <2>2
<1> QED BY <1>2, <1>3, <1>4 DEF TripInv, FewTrips

\* The device is read, the trip is read, a transaction is refused.
LEMMA ReadsKeep ==
    ASSUME TripInv, NEW m \in Points,
           ReadDevice(m) \/ ReadTrip(m) \/ AbandonPoint(m)
    PROVE  TripInv'
<1>1. /\ point[m] \in PointRecords /\ motion \in Ages /\ stopped \in Ages
      /\ trips \in [Rows -> [open : BOOLEAN, started : Ages, last : Ages]]
  BY DEF TripInv, TripTypes
<1>2. CASE ReadDevice(m)
  <2>1. PICK age \in 0..MaxLag, speed \in Speeds :
           point' = [point EXCEPT ![m] =
                        [Resting EXCEPT !.step = "trip", !.age = age,
                           !.speed = speed, !.motion = motion,
                           !.stopped = stopped]]
    BY <1>2 DEF ReadDevice
  <2> DEFINE p == [Resting EXCEPT !.step = "trip", !.age = age, !.speed = speed,
                                  !.motion = motion, !.stopped = stopped]
  <2>2. p \in PointRecords /\ p.step = "trip"
    BY <1>1, RestingIsPoint DEF PointRecords, Resting
  <2> HIDE DEF p
  <2>3. point' = [point EXCEPT ![m] = p] /\ UNCHANGED <<motion, stopped, trips>>
    BY <1>2, <2>1 DEF ReadDevice, p
  <2> QED BY <2>2, <2>3, OnePoint
<1>3. CASE ReadTrip(m) /\ Newest = {} /\ point' = [point EXCEPT ![m].step = "commit"]
  <2> DEFINE p == [point[m] EXCEPT !.step = "commit"]
  <2>1. p \in PointRecords
    BY <1>1 DEF PointRecords
  <2>2. point' = [point EXCEPT ![m] = p] /\ UNCHANGED <<motion, stopped, trips>>
    BY <1>3 DEF ReadTrip
  <2>3. OpenTrips = {}
    BY <1>3, NewestExists
  <2> HIDE DEF p
  <2> QED BY <2>1, <2>2, <2>3, OnePoint
<1>4. ASSUME NEW r \in Newest, UNCHANGED <<motion, stopped, trips>>,
             point' = [point EXCEPT ![m].step = "commit", ![m].row = r,
                                    ![m].last = trips[r].last]
      PROVE  TripInv'
  <2> DEFINE p == [point[m] EXCEPT !.step = "commit", !.row = r,
                                   !.last = trips[r].last]
  <2>1. r \in Rows /\ r # NoRow
    BY <1>4, TripAssumption DEF Newest, NoRow
  <2>2. p \in PointRecords /\ p.row = r
    BY <1>1, <2>1 DEF PointRecords
  <2>3. point' = [point EXCEPT ![m] = p]
    BY <1>1, <1>4 DEF TripInv, TripTypes, PointRecords
  <2> HIDE DEF p
  <2> QED BY <1>4, <2>1, <2>2, <2>3, OnePoint
<1>5. CASE AbandonPoint(m)
  <2>1. Resting.step = "idle"
    BY DEF Resting
  <2> QED BY <1>5, <2>1, RestingIsPoint, OnePoint DEF AbandonPoint
<1> QED BY <1>2, <1>3, <1>4, <1>5 DEF ReadTrip

\* The commit of a transaction that found no trip: the one it may open takes
\* its place in the count.
LEMMA WithoutTripKeeps ==
    ASSUME TripInv, NEW m \in Points, point[m].step = "commit",
           point[m].row = NoRow, WithoutTrip(point[m]),
           point' = [point EXCEPT ![m] = Resting]
    PROVE  TripInv'
<1>1. /\ point[m] \in PointRecords /\ motion \in Ages /\ stopped \in Ages
      /\ trips \in [Rows -> [open : BOOLEAN, started : Ages, last : Ages]]
  BY DEF TripInv, TripTypes
<1>2. /\ point[m].age \in Ages /\ point[m].motion \in Ages
      /\ point[m].stopped \in Ages
  BY <1>1, AgesAre DEF PointRecords
<1>3. /\ point' \in [Points -> PointRecords]
      /\ Openers' = Openers \ {m} /\ m \in Openers
  BY RestingIsPoint DEF TripInv, TripTypes, Openers, Resting
<1>4. Cardinality(Openers') = Cardinality(Openers) - 1
  BY <1>3, TripCounts, FS_RemoveElement
<1>5. motion' \in Ages /\ stopped' \in Ages
  BY <1>1, <1>2, AgesAre DEF WithoutTrip, Written
<1> DEFINE new == [open |-> TRUE, started |-> point[m].motion,
                   last |-> point[m].age]
<1>6. \/ UNCHANGED trips
      \/ trips' = [trips EXCEPT ![FirstUnusedRow] = new]
  BY DEF WithoutTrip
<1>7. trips' \in [Rows -> [open : BOOLEAN, started : Ages, last : Ages]]
  <2>1. new \in [open : BOOLEAN, started : Ages, last : Ages]
    BY <1>2
  <2> HIDE DEF new
  <2> QED BY <1>1, <1>6, <2>1
<1>8. OpenTrips' = OpenTrips \/ OpenTrips' = OpenTrips \cup {FirstUnusedRow}
  BY <1>1, <1>6, RowsSuffice DEF OpenTrips
<1>9. Cardinality(OpenTrips') <= Cardinality(OpenTrips) + 1
      /\ Cardinality(OpenTrips') \in Nat
  <2>1. /\ IsFiniteSet(OpenTrips \cup {FirstUnusedRow})
        /\ Cardinality(OpenTrips \cup {FirstUnusedRow})
              \in {Cardinality(OpenTrips), Cardinality(OpenTrips) + 1}
    BY TripCounts, FS_AddElement
  <2> QED BY <1>8, <2>1, TripCounts
<1>10. TripTypes'
  BY <1>3, <1>5, <1>7 DEF TripTypes
<1> QED BY <1>4, <1>9, <1>10, TripCounts DEF TripInv, FewTrips

\* The commit of a transaction that found a trip: none is opened.
LEMMA WithTripKeeps ==
    ASSUME TripInv, NEW m \in Points, NEW jump \in BOOLEAN,
           point[m].row # NoRow, WithTrip(point[m], jump),
           point' = [point EXCEPT ![m] = Resting]
    PROVE  TripInv'
<1> DEFINE p == point[m]
<1>1. /\ p \in PointRecords /\ motion \in Ages /\ stopped \in Ages
      /\ trips \in [Rows -> [open : BOOLEAN, started : Ages, last : Ages]]
  BY DEF TripInv, TripTypes
<1>2. p.age \in Ages /\ p.stopped \in Ages /\ p.row \in Rows
  BY <1>1, AgesAre DEF PointRecords
<1>3. /\ point' \in [Points -> PointRecords]
      /\ Openers' = Openers
  BY RestingIsPoint DEF TripInv, TripTypes, Openers, Resting
<1>4. motion' \in Ages /\ stopped' \in Ages
  BY <1>1, <1>2, AgesAre DEF WithTrip, Written, StoppedSince
<1>5. /\ trips' \in [Rows -> [open : BOOLEAN, started : Ages, last : Ages]]
      /\ OpenTrips' \in SUBSET OpenTrips
  <2>1. CASE UNCHANGED trips
    BY <1>1, <2>1 DEF OpenTrips
  <2>2. CASE trips' = [trips EXCEPT ![p.row] =
                          IF ~@.open \/ Completes(p) THEN NoTrip
                          ELSE [@ EXCEPT !.last = p.age]]
    <3> DEFINE new == IF ~trips[p.row].open \/ Completes(p) THEN NoTrip
                      ELSE [trips[p.row] EXCEPT !.last = p.age]
    <3>1. /\ new \in [open : BOOLEAN, started : Ages, last : Ages]
          /\ new.open => trips[p.row].open
      BY <1>1, <1>2, AgesAre DEF NoTrip
    <3>2. trips' = [trips EXCEPT ![p.row] = new]
      BY <1>1, <1>2, <2>2
    <3> HIDE DEF new
    <3> QED BY <1>1, <1>2, <3>1, <3>2 DEF OpenTrips
  <2> QED BY <2>1, <2>2 DEF WithTrip
<1>6. Cardinality(OpenTrips') <= Cardinality(OpenTrips)
      /\ Cardinality(OpenTrips') \in Nat
  BY <1>5, TripCounts, FS_Subset, FS_CardinalityType
<1>7. TripTypes'
  BY <1>3, <1>4, <1>5 DEF TripTypes
<1> QED BY <1>3, <1>6, <1>7, TripCounts DEF TripInv, FewTrips

\* Time passes: only ages change.
LEMMA TripTickKeeps == ASSUME TripInv, TripTick PROVE TripInv'
<1>1. ASSUME NEW m \in Points
      PROVE  /\ point'[m] \in PointRecords
             /\ point'[m].step = point[m].step /\ point'[m].row = point[m].row
  <2>1. point[m] \in PointRecords
    BY DEF TripInv, TripTypes
  <2>2. CASE point[m].step = "idle"
    BY <2>1, <2>2 DEF TripTick
  <2>3. CASE point[m].step # "idle"
    <3>1. /\ point[m].age + 1 \in 0..MaxLag
          /\ Grow(point[m].motion) \in Ages /\ Grow(point[m].stopped) \in Ages
          /\ Grow(point[m].last) \in Ages
      <4>1. point[m].age \in 0..MaxLag /\ point[m].age < MaxLag
        BY <2>1, <2>3 DEF TripTick, PointRecords
      <4>2. point[m].age + 1 \in 0..MaxLag
        BY <4>1, AgesAre
      <4> QED BY <2>1, <4>2, AgesAre DEF PointRecords
    <3> QED BY <2>1, <2>3, <3>1 DEF TripTick, PointRecords
  <2> QED BY <2>2, <2>3
<1>2. ASSUME NEW r \in Rows
      PROVE  /\ trips'[r] \in [open : BOOLEAN, started : Ages, last : Ages]
             /\ trips'[r].open = trips[r].open
  <2>1. trips[r] \in [open : BOOLEAN, started : Ages, last : Ages]
    BY DEF TripInv, TripTypes
  <2>2. Grow(trips[r].started) \in Ages /\ Grow(trips[r].last) \in Ages
    BY <2>1, AgesAre
  <2> QED BY <2>1, <2>2 DEF TripTick
<1>3. TripTypes'
  <2>1. motion' \in Ages /\ stopped' \in Ages
    BY AgesAre DEF TripTick, TripInv, TripTypes
  <2>2. trips' \in [Rows -> [open : BOOLEAN, started : Ages, last : Ages]]
    BY <1>2 DEF TripTick
  <2>3. point' \in [Points -> PointRecords]
    BY <1>1 DEF TripTick
  <2> QED BY <2>1, <2>2, <2>3 DEF TripTypes
<1>4. OpenTrips' = OpenTrips /\ Openers' = Openers
  BY <1>1, <1>2 DEF OpenTrips, Openers
<1> QED BY <1>3, <1>4 DEF TripInv, FewTrips

\* Every step of the trips keeps their invariant.
LEMMA TripInvStep == TripInv /\ [TripNext]_tripVars => TripInv'
<1> SUFFICES ASSUME TripInv, [TripNext]_tripVars PROVE TripInv'
  OBVIOUS
<1>1. ASSUME NEW m \in Points, NEW jump \in BOOLEAN, CommitPoint(m, jump)
      PROVE  TripInv'
  BY <1>1, WithoutTripKeeps, WithTripKeeps DEF CommitPoint
<1>2. CASE UNCHANGED tripVars
  BY <1>2 DEF tripVars, TripInv, TripTypes, FewTrips, OpenTrips, Openers
<1> QED BY <1>1, <1>2, ReadsKeep, TripTickKeeps DEF TripNext

\* The invariant of the trips contains their type invariant.
LEMMA TripTypeCorrect == TripInv => TripTypeOK
BY RowsSuffice DEF TripInv, TripTypes, TripTypeOK, PointRecords

-----------------------------------------------------------------------------
(* The commands                                                            *)

Dispatching ==
    [step : {"idle", "select", "publish"}, late : SUBSET Orders,
     todo : SUBSET Orders, writes : [Orders -> RowStates]]

\* A transaction that has not begun.
LEMMA ClosedIsDispatching ==
    /\ Closed \in Dispatching
    /\ NoWrites \in [Orders -> RowStates]
BY DEF Closed, Dispatching, NoWrites, RowStates

\* The type invariant of the commands holds at the start.
LEMMA CommandInitType == CommandInit => CommandTypeOK
<1> SUFFICES ASSUME CommandInit PROVE CommandTypeOK
  OBVIOUS
<1>1. dispatch \in [Dispatchers -> Dispatching]
  BY ClosedIsDispatching DEF CommandInit
<1>2. row \in [Orders -> [state : RowStates, acked : BOOLEAN]]
  BY DEF CommandInit, NotThere, RowStates
<1>3. /\ acking \in [Orders -> {"idle"} \cup RowStates]
      /\ refusals \in 0..MaxRefusals
  BY CommandAssumption DEF CommandInit
<1> QED BY <1>1, <1>2, <1>3 DEF CommandInit, CommandTypeOK, Dispatching

\* A dispatch keeps it.
LEMMA DispatchesTyped ==
    ASSUME CommandTypeOK, NEW t \in Dispatchers,
           Dispatches(t) \/ RollbackDispatch(t)
    PROVE  CommandTypeOK'
<1>1. /\ dispatch[t] \in Dispatching /\ dispatch \in [Dispatchers -> Dispatching]
      /\ row \in [Orders -> [state : RowStates, acked : BOOLEAN]]
  BY DEF CommandTypeOK, Dispatching
<1>2. CASE Select(t)
  <2> DEFINE todo == {c \in Orders : row[c].state = "queued"
                                       \/ dispatch[t].writes[c] = "queued"}
             new == [dispatch[t] EXCEPT !.step = "publish", !.todo = todo]
  <2>1. new \in Dispatching
    BY <1>1 DEF Dispatching
  <2>2. dispatch' = [dispatch EXCEPT ![t] = new]
    BY <1>1, <1>2 DEF Select, Dispatching
  <2> HIDE DEF new
  <2> QED BY <1>1, <1>2, <2>1, <2>2
             DEF Select, CommandTypeOK, Dispatching, wire
<1>3. CASE CommitDispatch(t)
  <2>1. row' \in [Orders -> [state : RowStates, acked : BOOLEAN]]
    <3>1. ASSUME NEW c \in Orders
          PROVE  row'[c] \in [state : RowStates, acked : BOOLEAN]
      <4>1. /\ row[c] \in [state : RowStates, acked : BOOLEAN]
            /\ dispatch[t].writes[c] \in RowStates
        BY <1>1 DEF Dispatching
      <4> QED BY <1>3, <4>1 DEF CommitDispatch
    <3> QED BY <1>3, <3>1 DEF CommitDispatch
  <2>2. dispatch' \in [Dispatchers -> Dispatching]
    BY <1>1, <1>3, ClosedIsDispatching DEF CommitDispatch
  <2> QED BY <1>3, <2>1, <2>2 DEF CommitDispatch, CommandTypeOK, Dispatching, wire
<1>4. CASE RollbackDispatch(t)
  <2>1. dispatch' \in [Dispatchers -> Dispatching]
    BY <1>1, <1>4, ClosedIsDispatching DEF RollbackDispatch
  <2>2. refusals' \in 0..MaxRefusals
    BY <1>4, CommandAssumption DEF RollbackDispatch, Refused, CommandTypeOK
  <2> QED BY <1>4, <2>1, <2>2
             DEF RollbackDispatch, CommandTypeOK, Dispatching, wire
<1>5. ASSUME NEW c \in Orders, Dispatch(t, c) PROVE CommandTypeOK'
  <2> DEFINE rest == [dispatch[t] EXCEPT !.todo = @ \ {c}]
  <2>1. /\ rest \in Dispatching
        /\ [rest EXCEPT !.writes[c] = "expired"] \in Dispatching
        /\ [rest EXCEPT !.writes[c] = "published"] \in Dispatching
    BY <1>1 DEF Dispatching, RowStates
  <2>2. dispatch' \in [Dispatchers -> Dispatching]
    <3>1. \/ dispatch' = [dispatch EXCEPT ![t] = rest]
          \/ dispatch' = [dispatch EXCEPT ![t] = [rest EXCEPT !.writes[c] = "expired"]]
          \/ dispatch' = [dispatch EXCEPT ![t] = [rest EXCEPT !.writes[c] = "published"]]
      BY <1>5 DEF Dispatch
    <3> HIDE DEF rest
    <3> QED BY <1>1, <2>1, <3>1
  <2>3. toDevice' \in {toDevice, toDevice \cup {c}}
    BY <1>5 DEF Dispatch
  <2>4. UNCHANGED <<row, overdue, mqttUp, answers, acking, refusals, consumed>>
    BY <1>5 DEF Dispatch
  <2> QED BY <2>2, <2>3, <2>4 DEF CommandTypeOK, Dispatching
<1> QED BY <1>2, <1>3, <1>4, <1>5 DEF Dispatches

\* What happens to one command besides.
LEMMA OrdersTyped ==
    ASSUME CommandTypeOK, NEW c \in Orders,
           \/ Create(c) \/ BecomesOverdue(c)
           \/ DeviceAnswers(c) \/ DeviceIgnores(c)
           \/ AckUnmatched(c) \/ AckLoads(c) \/ AckCommits(c) \/ AckFails(c)
    PROVE  CommandTypeOK'
<1>1. CASE Create(c)
  <2> DEFINE new == [step |-> "select", late |-> overdue, todo |-> {},
                     writes |-> [NoWrites EXCEPT ![c] = "queued"]]
  <2>1. new \in Dispatching
    BY ClosedIsDispatching DEF CommandTypeOK, Dispatching, RowStates
  <2>2. dispatch' = [dispatch EXCEPT ![c] = new] /\ c \in Dispatchers
    BY <1>1 DEF Create, Dispatchers
  <2> HIDE DEF new
  <2>3. dispatch' \in [Dispatchers -> Dispatching]
    BY <2>1, <2>2 DEF CommandTypeOK, Dispatching
  <2> QED BY <1>1, <2>3 DEF Create, CommandTypeOK, Dispatching, wire
<1>2. CASE BecomesOverdue(c) \/ DeviceAnswers(c) \/ DeviceIgnores(c)
           \/ AckUnmatched(c)
  BY <1>2 DEF BecomesOverdue, DeviceAnswers, DeviceIgnores, AckUnmatched,
              CommandTypeOK, wire
<1>3. CASE AckLoads(c)
  <2>1. row[c].state \in RowStates
    BY DEF CommandTypeOK
  <2> QED BY <1>3, <2>1 DEF AckLoads, CommandTypeOK
<1>4. CASE AckCommits(c)
  <2> DEFINE new == [state |-> IF acking[c] = "answered" THEN row[c].state
                                                         ELSE "answered",
                     acked |-> TRUE]
  <2>1. new \in [state : RowStates, acked : BOOLEAN]
    BY DEF CommandTypeOK, RowStates
  <2>2. row' = [row EXCEPT ![c] = new]
    BY <1>4 DEF AckCommits, CommandTypeOK
  <2> HIDE DEF new
  <2> QED BY <1>4, <2>1, <2>2 DEF AckCommits, CommandTypeOK, wire
<1>5. CASE AckFails(c)
  <2>1. refusals' \in 0..MaxRefusals
    BY <1>5, CommandAssumption DEF AckFails, Refused, CommandTypeOK
  <2> QED BY <1>5, <2>1 DEF AckFails, CommandTypeOK
<1> QED BY <1>1, <1>2, <1>3, <1>4, <1>5

\* Every step of the commands keeps it.
LEMMA CommandTypeStep ==
    CommandTypeOK /\ [CommandNext]_commandVars => CommandTypeOK'
<1> SUFFICES ASSUME CommandTypeOK, [CommandNext]_commandVars PROVE CommandTypeOK'
  OBVIOUS
<1>1. CASE MaintenanceWakes
  <2> DEFINE new == [Closed EXCEPT !.step = "select", !.late = overdue]
  <2>1. new \in Dispatching
    BY ClosedIsDispatching DEF CommandTypeOK, Dispatching
  <2>2. dispatch' = [dispatch EXCEPT ![Maintenance] = new]
    BY <1>1 DEF MaintenanceWakes
  <2> HIDE DEF new
  <2>3. dispatch' \in [Dispatchers -> Dispatching]
    BY <2>1, <2>2 DEF CommandTypeOK, Dispatching
  <2> QED BY <1>1, <2>3 DEF MaintenanceWakes, CommandTypeOK, Dispatching, wire
<1>2. CASE MqttChanges
  BY <1>2 DEF MqttChanges, CommandTypeOK, wire
<1>3. CASE UNCHANGED commandVars
  BY <1>3 DEF commandVars, CommandTypeOK
<1> QED BY <1>1, <1>2, <1>3, DispatchesTyped, OrdersTyped DEF CommandNext

-----------------------------------------------------------------------------
(* The types of ingestion, whatever the broker does with identifiers       *)

\* A coroutine has a message from its first step to its last.
HasPacket ==
    \A d \in Deliveries :
        ingestion[d].step # "idle" => ingestion[d].packet \in Packets

IngestTypes == IngestTypeOK /\ HasPacket

\* They hold at the start.
LEMMA IngestInitTypes == IngestInit => IngestTypes
<1> SUFFICES ASSUME IngestInit PROVE IngestTypes
  OBVIOUS
<1>1. ingestion \in [Deliveries -> Coroutines] /\ HasPacket
  BY FreeIsCoroutine DEF IngestInit, HasPacket, Free
<1>2. /\ packetId \in [Packets -> PacketIds \cup {0}]
      /\ repairs \in [Stages -> Nat] /\ troubles \in 0..MaxTroubles
  BY IngestionAssumption DEF IngestInit
<1> QED BY <1>1, <1>2 DEF IngestInit, IngestTypes, IngestTypeOK, Coroutines

\* A coroutine goes on to another step.
LEMMA GoesTyped ==
    ASSUME IngestTypes, NEW d \in Deliveries, ingestion[d].step # "idle",
           NEW step \in {"commit", "quarantine", "finish"},
           NEW outcome \in {"none", "accepted", "rejected", "failed"},
           Goes(d, step, outcome)
    PROVE  /\ ingestion' \in [Deliveries -> Coroutines] /\ HasPacket'
           /\ Key(d) \in {SampleOf[p] : p \in Packets}
           /\ ingestion[d].packet \in Packets
<1>1. ingestion \in [Deliveries -> Coroutines]
  BY DEF IngestTypes, IngestTypeOK, Coroutines
<1>2. /\ ingestion'[d].step = step /\ ingestion'[d].packet = ingestion[d].packet
      /\ \A e \in Deliveries : e # d => ingestion'[e] = ingestion[e]
      /\ ingestion' \in [Deliveries -> Coroutines]
  BY <1>1 DEF Goes, Coroutines
<1> QED BY <1>2 DEF IngestTypes, HasPacket, Key

\* A failure is counted.
LEMMA TroubleTyped ==
    ASSUME IngestTypes, Trouble PROVE troubles' \in 0..MaxTroubles
BY IngestionAssumption DEF Trouble, IngestTypes, IngestTypeOK

\* The steps of one delivery keep them.
LEMMA DeliveryTyped ==
    ASSUME IngestTypes, NEW d \in Deliveries,
           \/ \E p \in Packets : OnMessage(p, d)
           \/ Proceeds(d) \/ DatabaseFails(d)
    PROVE  IngestTypes'
<1>1. ingestion \in [Deliveries -> Coroutines]
  BY DEF IngestTypes, IngestTypeOK, Coroutines
<1>2. ASSUME NEW p \in Packets, OnMessage(p, d) PROVE IngestTypes'
  <2> DEFINE new == [Free EXCEPT !.step = "resolve", !.packet = p]
  <2>1. new \in Coroutines /\ new.packet = p
    BY DEF Free, Coroutines
  <2>2. ingestion' = [ingestion EXCEPT ![d] = new]
    BY <1>2 DEF OnMessage
  <2> HIDE DEF new
  <2>3. ingestion' \in [Deliveries -> Coroutines] /\ HasPacket'
    BY <1>1, <2>1, <2>2 DEF IngestTypes, HasPacket
  <2>4. packetId' \in [Packets -> PacketIds \cup {0}]
    <3>1. \/ UNCHANGED packetId
          \/ \E id \in FreeIds : packetId' = [packetId EXCEPT ![p] = id]
      BY <1>2 DEF OnMessage
    <3> QED BY <3>1 DEF FreeIds, IngestTypes, IngestTypeOK
  <2> QED BY <1>2, <2>3, <2>4
             DEF OnMessage, IngestTypes, IngestTypeOK, Coroutines, rows
<1>3. ASSUME ingestion[d].step # "idle",
             NEW step \in {"commit", "quarantine", "finish"},
             NEW outcome \in {"none", "accepted", "rejected", "failed"},
             Goes(d, step, outcome), IngestStep,
             stored' \in {stored, stored \cup {Key(d)}},
             quarantined' \in {quarantined, quarantined \cup {ingestion[d].packet}},
             UNCHANGED troubles \/ Trouble
      PROVE  IngestTypes'
  <2>1. /\ ingestion' \in [Deliveries -> Coroutines] /\ HasPacket'
        /\ Key(d) \in {SampleOf[p] : p \in Packets}
        /\ ingestion[d].packet \in Packets
    BY <1>3, GoesTyped
  <2>2. troubles' \in 0..MaxTroubles
    BY <1>3, TroubleTyped DEF IngestTypes, IngestTypeOK
  <2>3. stored' \subseteq {SampleOf[p] : p \in Packets}
    BY <1>3, <2>1 DEF IngestTypes, IngestTypeOK
  <2>4. quarantined' \subseteq Packets
    BY <1>3, <2>1 DEF IngestTypes, IngestTypeOK
  <2> QED BY <1>3, <2>1, <2>2, <2>3, <2>4
             DEF IngestTypes, IngestTypeOK, Coroutines, IngestStep, broker, link
<1>4. CASE Resolve(d)
  <2>1. /\ ingestion[d].step # "idle" /\ IngestStep
        /\ UNCHANGED <<stored, quarantined, troubles>>
    BY <1>4 DEF Resolve, At, rows
  <2>2. \/ Goes(d, "quarantine", "rejected")
        \/ Goes(d, "finish", "accepted")
        \/ Goes(d, "commit", "none")
    BY <1>4 DEF Resolve
  <2> QED BY <1>3, <2>1, <2>2
<1>5. CASE CommitSample(d)
  <2>1. /\ ingestion[d].step # "idle" /\ IngestStep
        /\ UNCHANGED <<quarantined, troubles>>
    BY <1>5 DEF CommitSample, At
  <2>2. \/ Goes(d, "quarantine", "failed") /\ UNCHANGED stored
        \/ Goes(d, "finish", "accepted") /\ stored' = stored \cup {Key(d)}
    BY <1>5 DEF CommitSample
  <2> QED BY <1>3, <2>1, <2>2
<1>6. CASE DatabaseFails(d)
  <2>1. /\ ingestion[d].step # "idle" /\ IngestStep
        /\ UNCHANGED quarantined /\ Trouble
        /\ stored' \in {stored, stored \cup {Key(d)}}
        /\ Goes(d, "quarantine", "failed")
    BY <1>6 DEF DatabaseFails, At
  <2> QED BY <1>3, <2>1
<1>7. CASE Quarantine(d)
  <2>1. /\ ingestion[d].step # "idle" /\ IngestStep
        /\ UNCHANGED stored /\ (UNCHANGED troubles \/ Trouble)
        /\ quarantined' \in {quarantined, quarantined \cup {ingestion[d].packet}}
        /\ Goes(d, "finish", ingestion[d].outcome)
    BY <1>7 DEF Quarantine, At
  <2>2. ingestion[d].outcome \in {"none", "accepted", "rejected", "failed"}
    BY <1>1 DEF Coroutines
  <2> QED BY <1>3, <2>1, <2>2
<1>8. CASE FinishIngestion(d)
  <2>1. ingestion' \in [Deliveries -> Coroutines] /\ HasPacket'
    BY <1>1, <1>8, FreeIsCoroutine
       DEF FinishIngestion, IngestTypes, HasPacket, Free
  <2>2. held' \subseteq Packets
    BY <1>8 DEF FinishIngestion, IngestTypes, IngestTypeOK
  <2>3. repairs' \in [Stages -> Nat]
    BY <1>8 DEF FinishIngestion, IngestTypes, IngestTypeOK, Stages
  <2> QED BY <1>8, <2>1, <2>2, <2>3
             DEF FinishIngestion, IngestTypes, IngestTypeOK, Coroutines, link, rows
<1> QED BY <1>2, <1>4, <1>5, <1>6, <1>7, <1>8 DEF Proceeds

\* Every step of ingestion keeps them.
LEMMA IngestTypesStep == IngestTypes /\ [IngestNext]_ingestVars => IngestTypes'
<1> SUFFICES ASSUME IngestTypes, [IngestNext]_ingestVars PROVE IngestTypes'
  OBVIOUS
<1> USE DEF IngestTypes, IngestTypeOK, HasPacket
<1>1. CASE LinkLost
  BY <1>1, TroubleTyped DEF LinkLost, broker, rows
<1>2. CASE Connects
  BY <1>2 DEF Connects, broker, rows
<1>3. CASE BackendRestarts
  <2>1. ingestion' \in [Deliveries -> Coroutines] /\ HasPacket'
    BY <1>3, FreeIsCoroutine DEF BackendRestarts, Free
  <2> QED BY <1>3, <2>1, TroubleTyped DEF BackendRestarts, broker, rows, Coroutines
<1>4. CASE Disconnects
  <2>1. repairs' \in [Stages -> Nat]
    BY <1>4 DEF Disconnects, Stages
  <2> QED BY <1>4, <2>1 DEF Disconnects, broker, rows
<1>5. CASE Reconnects
  <2>1. repairs' \in [Stages -> Nat]
    BY <1>5 DEF Reconnects, Stages
  <2> QED BY <1>5, <2>1 DEF Reconnects, broker, rows
<1>6. CASE ReconnectRaises
  <2>1. repairs' \in [Stages -> Nat]
    BY <1>6 DEF ReconnectRaises, Stages
  <2> QED BY <1>6, <2>1, TroubleTyped DEF ReconnectRaises, broker, rows
<1>7. CASE UNCHANGED ingestVars
  BY <1>7 DEF ingestVars
<1> QED BY <1>1, <1>2, <1>3, <1>4, <1>5, <1>6, <1>7, DeliveryTyped DEF IngestNext

-----------------------------------------------------------------------------
(* The services together                                                   *)

\* A service that is not followed rests.
LEMMA ServicesStep ==
    [BackendNext]_backendVars =>
        /\ [Next]_vars /\ [IngestNext]_ingestVars
        /\ [CommandNext]_commandVars /\ [TripNext]_tripVars
        /\ UNCHANGED service
BY DEF BackendNext, ServiceNext, RestBut, backendVars, vars, ingestVars,
       commandVars, tripVars

BackendTypes ==
    service \in Services /\ StatusInv /\ IngestTypes /\ CommandTypeOK /\ TripInv

\* Whatever messages, scans, dispatches, answers and refusals of the database
\* come between the queries of a transaction: the columns and the transactions
\* of the services keep values the code can give them, a device that was never
\* seen is shown unknown or offline, and a commit never opens more alerts or
\* trips than the bounds Alerts and Rows have numbers for (mark and
\* set_connectivity_alert, TripService.process, dispatch_pending_commands,
\* _command_ack, HiveMQService).
THEOREM BackendTypeCorrect == BackendSpec => []BackendTypeOK
<1>1. BackendInit => BackendTypes
  BY StatusInitInv, IngestInitTypes, CommandInitType, TripInitInv
     DEF BackendInit, BackendTypes
<1>2. BackendTypes /\ [BackendNext]_backendVars => BackendTypes'
  BY ServicesStep, StatusInvStep, IngestTypesStep, CommandTypeStep, TripInvStep
     DEF BackendTypes
<1>3. BackendTypes => BackendTypeOK
  BY StatusTypeOK, TripTypeCorrect DEF BackendTypes, BackendTypeOK, IngestTypes
<1> QED BY <1>1, <1>2, <1>3, PTL DEF BackendSpec
=============================================================================
