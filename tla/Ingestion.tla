------------------------------ MODULE Ingestion ------------------------------
(***************************************************************************)
(* How the backend takes messages from the broker: HiveMQService           *)
(* (backend/app/mqtt/client.py) and IngestionService.ingest                *)
(* (backend/app/services/ingestion.py).                                    *)
(*                                                                         *)
(* The session is persistent and acknowledged by hand: the broker keeps a  *)
(* message until the PUBACK for its packet identifier, and sends it once   *)
(* on every connection.  Each delivery is an ingestion of its own, a       *)
(* coroutine that suspends at every query, so two deliveries of a message  *)
(* may be under way together.  An ingestion that fails inside leaves the   *)
(* message unacknowledged and forces a new connection.                     *)
(*                                                                         *)
(* What a message changes besides its row is in DeviceStatus, Trips and    *)
(* CommandRows.                                                            *)
(***************************************************************************)
EXTENDS Naturals, FiniteSets

CONSTANTS
    Packets,         \* bound: messages at the broker
    SampleOf,        \* the deduplication key each one carries
    Rejected,        \* those that break the contract
    PacketIds,       \* packet identifiers of the broker
    Deliveries,      \* bound: ingestions under way at one time, 1..n
    MaxTroubles,     \* bound: failures of the database, of the link, restarts
    IdsReused,       \* the broker gives an identifier again once it is free
    QuarantineFails  \* the row of a quarantined message may be refused

ASSUME IngestionAssumption ==
    /\ IsFiniteSet(Packets) /\ Rejected \subseteq Packets
    /\ DOMAIN SampleOf = Packets
    /\ PacketIds \subseteq Nat \ {0} /\ Deliveries \subseteq Nat
    /\ MaxTroubles \in Nat
    /\ IdsReused \in BOOLEAN /\ QuarantineFails \in BOOLEAN

VARIABLES
    held,            \* messages the broker keeps for the session
    packetId,        \* the identifier of each, 0 before it is first sent
    sent,            \* messages sent on this connection, none without one
    linkUp,          \* the connection; _on_connect sets connected with it
    wanted,          \* paho connects again by itself
    ingestion,       \* the coroutines
    repairs,         \* _reconnect_after_ingestion_failure, by where they stand
    stored,          \* keys of the rows of telemetry, acoustic and events
    quarantined,     \* messages with a row in ingestion_failures
    troubles         \* failures so far

broker == <<held, packetId>>
link == <<sent, linkUp, wanted>>
rows == <<stored, quarantined>>
ingestVars == <<held, packetId, sent, linkUp, wanted, ingestion, repairs,
                stored, quarantined, troubles>>

NoPacket == "no packet"
Free == [step |-> "idle", packet |-> NoPacket, outcome |-> "none"]

\* Where a forced reconnection stands: before disconnect, asleep.
Stages == {"disconnect", "sleep"}

Trouble ==
    /\ troubles < MaxTroubles
    /\ troubles' = troubles + 1

-----------------------------------------------------------------------------
(* The broker and the connection                                           *)

\* Identifiers the broker may give to a message it sends for the first time.
FreeIds ==
    PacketIds \ {packetId[p] : p \in IF IdsReused THEN held ELSE Packets}

\* _on_message: every delivery starts a coroutine, whose place in the model is
\* the first that is free; nothing in the code limits their number.
OnMessage(p, d) ==
    /\ linkUp
    /\ p \in held \ sent
    /\ ingestion[d] = Free /\ \A e \in Deliveries : e < d => ingestion[e] # Free
    /\ \/ /\ packetId[p] # 0
          /\ UNCHANGED packetId
       \/ /\ packetId[p] = 0
          /\ \E id \in FreeIds :
                /\ \A other \in FreeIds : id <= other
                /\ packetId' = [packetId EXCEPT ![p] = id]
    /\ sent' = sent \cup {p}
    /\ ingestion' = [ingestion EXCEPT ![d] = [Free EXCEPT !.step = "resolve",
                                                          !.packet = p]]
    /\ UNCHANGED <<held, linkUp, wanted, repairs, rows, troubles>>

\* _on_disconnect.
LinkLost ==
    /\ linkUp /\ Trouble
    /\ linkUp' = FALSE /\ sent' = {}
    /\ UNCHANGED <<broker, wanted, ingestion, repairs, rows>>

\* _on_connect: a new connection, on which everything held is sent again.
Connects ==
    /\ ~linkUp /\ wanted
    /\ linkUp' = TRUE
    /\ UNCHANGED <<broker, sent, wanted, ingestion, repairs, rows, troubles>>

\* The backend stops and starts again with the same client identifier.
BackendRestarts ==
    /\ Trouble
    /\ linkUp' = FALSE /\ wanted' = TRUE /\ sent' = {}
    /\ ingestion' = [d \in Deliveries |-> Free]
    /\ repairs' = [s \in Stages |-> 0]
    /\ UNCHANGED <<broker, rows>>

-----------------------------------------------------------------------------
(* IngestionService.ingest                                                 *)

Goes(d, step, outcome) ==
    ingestion' = [ingestion EXCEPT ![d].step = step, ![d].outcome = outcome]

At(d, step) == ingestion[d].step = step
Key(d) == SampleOf[ingestion[d].packet]

IngestStep == UNCHANGED <<broker, link, repairs>>

\* Validation, then the query for a row with the same key.
Resolve(d) ==
    /\ At(d, "resolve")
    /\ IF ingestion[d].packet \in Rejected
         THEN Goes(d, "quarantine", "rejected")
         ELSE Goes(d, IF Key(d) \in stored THEN "finish" ELSE "commit",
                   IF Key(d) \in stored THEN "accepted" ELSE "none")
    /\ IngestStep /\ UNCHANGED <<rows, troubles>>

\* The key is unique: a row that came since the query makes the insert fail.
CommitSample(d) ==
    /\ At(d, "commit")
    /\ IF Key(d) \in stored
         THEN Goes(d, "quarantine", "failed") /\ UNCHANGED stored
         ELSE Goes(d, "finish", "accepted") /\ stored' = stored \cup {Key(d)}
    /\ IngestStep /\ UNCHANGED <<quarantined, troubles>>

\* The database refuses a query or the commit, or does not say that it has
\* committed.
DatabaseFails(d) ==
    /\ \/ At(d, "resolve") /\ ingestion[d].packet \notin Rejected
       \/ At(d, "commit")
    /\ Trouble
    /\ Goes(d, "quarantine", "failed")
    /\ stored' \in {stored} \cup
                   (IF At(d, "commit") THEN {stored \cup {Key(d)}} ELSE {})
    /\ IngestStep /\ UNCHANGED quarantined

\* _quarantine: its own failure is logged and forgotten.
Quarantine(d) ==
    /\ At(d, "quarantine")
    /\ Goes(d, "finish", ingestion[d].outcome)
    /\ \/ quarantined' = quarantined \cup {ingestion[d].packet}
          /\ UNCHANGED troubles
       \/ QuarantineFails /\ Trouble /\ UNCHANGED quarantined
    /\ IngestStep /\ UNCHANGED stored

-----------------------------------------------------------------------------
(* HiveMQService._finish_ingestion and _reconnect_after_ingestion_failure  *)

\* The PUBACK names an identifier, not a message; without a connection it is
\* lost.
Acknowledged(d) ==
    IF linkUp THEN {p \in held : packetId[p] = packetId[ingestion[d].packet]}
              ELSE {}

\* Mutants: whatever was tried is acknowledged; a failure is only logged.
FinishAcksAll(d) ==
    /\ At(d, "finish")
    /\ ingestion' = [ingestion EXCEPT ![d] = Free]
    /\ held' = held \ Acknowledged(d)
    /\ UNCHANGED <<packetId, link, repairs, rows, troubles>>

FinishOnlyLogs(d) ==
    /\ At(d, "finish")
    /\ ingestion' = [ingestion EXCEPT ![d] = Free]
    /\ held' = IF ingestion[d].outcome = "failed" THEN held
                                                  ELSE held \ Acknowledged(d)
    /\ UNCHANGED <<packetId, link, repairs, rows, troubles>>

FinishIngestion(d) ==
    /\ At(d, "finish")
    /\ ingestion' = [ingestion EXCEPT ![d] = Free]
    /\ \/ /\ ingestion[d].outcome \in {"accepted", "rejected"}
          /\ held' = held \ Acknowledged(d)
          /\ UNCHANGED repairs
       \/ /\ ingestion[d].outcome = "failed"
          /\ repairs' = [repairs EXCEPT !["disconnect"] = @ + 1]
          /\ UNCHANGED held
    /\ UNCHANGED <<packetId, link, rows, troubles>>

\* client.disconnect: paho does not connect again by itself after it.
Disconnects ==
    /\ repairs["disconnect"] > 0
    /\ repairs' = [repairs EXCEPT !["disconnect"] = @ - 1, !["sleep"] = @ + 1]
    /\ linkUp' = FALSE /\ wanted' = FALSE /\ sent' = {}
    /\ UNCHANGED <<broker, ingestion, rows, troubles>>

\* client.reconnect, a second later: a new connection, also in the place of
\* one that another repair has opened.
Reconnects ==
    /\ repairs["sleep"] > 0
    /\ repairs' = [repairs EXCEPT !["sleep"] = @ - 1]
    /\ linkUp' = TRUE /\ wanted' = TRUE /\ sent' = {}
    /\ UNCHANGED <<broker, ingestion, rows, troubles>>

\* client.reconnect raises: a warning, and nobody tries again.
ReconnectRaises ==
    /\ repairs["sleep"] > 0 /\ Trouble
    /\ repairs' = [repairs EXCEPT !["sleep"] = @ - 1]
    /\ linkUp' = FALSE /\ sent' = {}
    /\ UNCHANGED <<broker, wanted, ingestion, rows>>

-----------------------------------------------------------------------------
IngestInit ==
    /\ held = Packets
    /\ packetId = [p \in Packets |-> 0]
    /\ sent = {} /\ linkUp = FALSE /\ wanted = TRUE
    /\ ingestion = [d \in Deliveries |-> Free]
    /\ repairs = [s \in Stages |-> 0]
    /\ stored = {} /\ quarantined = {}
    /\ troubles = 0

Proceeds(d) == Resolve(d) \/ CommitSample(d) \/ Quarantine(d) \/ FinishIngestion(d)

IngestNext ==
    \/ \E d \in Deliveries :
          \/ \E p \in Packets : OnMessage(p, d)
          \/ Proceeds(d) \/ DatabaseFails(d)
    \/ LinkLost \/ Connects \/ BackendRestarts
    \/ Disconnects \/ Reconnects \/ ReconnectRaises

\* The loop runs its coroutines, the broker sends what it holds, and paho
\* connects while it is left to.
IngestSpec ==
    /\ IngestInit /\ [][IngestNext]_ingestVars
    /\ \A d \in Deliveries : WF_ingestVars(Proceeds(d))
    /\ WF_ingestVars(\E d \in Deliveries, p \in Packets : OnMessage(p, d))
    /\ WF_ingestVars(Connects)
    /\ WF_ingestVars(Disconnects) /\ WF_ingestVars(Reconnects)

-----------------------------------------------------------------------------
IngestTypeOK ==
    /\ held \subseteq Packets /\ sent \subseteq Packets
    /\ packetId \in [Packets -> PacketIds \cup {0}]
    /\ linkUp \in BOOLEAN /\ wanted \in BOOLEAN
    /\ ingestion \in [Deliveries ->
                        [step : {"idle", "resolve", "commit", "quarantine",
                                 "finish"},
                         packet : Packets \cup {NoPacket},
                         outcome : {"none", "accepted", "rejected", "failed"}]]
    /\ repairs \in [Stages -> Nat]
    /\ stored \subseteq {SampleOf[p] : p \in Packets}
    /\ quarantined \subseteq Packets
    /\ troubles \in 0..MaxTroubles

\* A message the broker no longer keeps is in the database, or broke the
\* contract (backend/README.md: "Un mensaje se confirma tras la transaccion de
\* base de datos").
AckedIsStored ==
    \A p \in Packets \ held : p \in Rejected \/ SampleOf[p] \in stored

\* And one that broke the contract is in quarantine ("o despues de registrar un
\* rechazo contractual en cuarentena").
AckedIsRecorded ==
    \A p \in Packets \ held : p \in quarantined \/ SampleOf[p] \in stored

\* paho was disconnected by a repair that did not come through.
Deaf == ~linkUp /\ ~wanted /\ \A s \in Stages : repairs[s] = 0

\* Every message is taken in the end, whatever failed on the way, unless the
\* backend was left without a connection by a repair of its own.
AllTaken == <>(held = {}) \/ <>[]Deaf
=============================================================================
