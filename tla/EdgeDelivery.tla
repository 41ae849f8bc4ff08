---------------------------- MODULE EdgeDelivery ----------------------------
(***************************************************************************)
(* Telemetry from the sample to the broker: AppController                  *)
(* (src/src/app/AppController.cpp: publishTelemetry, processSecureMqtt)    *)
(* joins the spool of OfflineQueue to the one telemetry slot of            *)
(* SecureMqttClient.  The spool keeps its own steps, so power can still be *)
(* lost inside one of its methods; the slot is handed over in one step     *)
(* here, TelemetryHandoff has the interleavings inside it.                 *)
(*                                                                         *)
(* A record is named to the client by its number only                      *)
(* (OfflineQueuePolicy::replayToken); numbers start again when the spool   *)
(* empties.  The message of a sample taken by the live path carries the    *)
(* sample's own sequence number (liveToken).                               *)
(***************************************************************************)
EXTENDS OfflineQueue, Sequences

CONSTANTS
    AnswerBetween,   \* an answer may come between takeTelemetryAck and peek
    MaxSends,        \* bound: telemetry messages given to the library
    Nobody           \* no token

ReplayToken(id) == [kind |-> "replay", number |-> id]
LiveToken(sample) == [kind |-> "live", number |-> sample]
Tokens == {ReplayToken(id) : id \in Ids} \cup {LiveToken(s) : s \in 1..MaxSamples}

ASSUME DeliveryAssumption ==
    /\ AnswerBetween \in BOOLEAN
    /\ MaxSends \in Nat
    /\ Nobody \notin Tokens

VARIABLES
    connected,       \* SecureMqttClient::isConnected()
    slot,            \* the pending message id and its token
    ack,             \* the acknowledged token, until takeTelemetryAck
    refused,         \* the sample enqueue refused, while update goes on
    outbox,          \* messages the library keeps until their PUBACK
    pubacks,         \* message ids whose PUBACK is on its way
    sends,           \* messages given to the library, the last one's id
    newSends,        \* history: samples published with replayed = false
    repeated,        \* history: one of them was published so twice
    received,        \* history: samples in the order the backend got them
    removed          \* history: samples acknowledge removed from the spool

NoSlot == [id |-> 0, token |-> Nobody]
link == <<connected, slot, ack, outbox, pubacks, sends, newSends, repeated,
          received, removed>>
edgeVars == <<vars, connected, slot, ack, refused, outbox, pubacks, sends,
              newSends, repeated, received, removed>>

-----------------------------------------------------------------------------
Pending == slot.id # 0

InSpool(s) == \E id \in Files : card[id].sample = s
ReceivedSet == {received[i] : i \in DOMAIN received}

\* publishTelemetry of the client, one message at a time.
Hand(token, sample, replayed) ==
    /\ sends < MaxSends
    /\ sends' = sends + 1
    /\ slot' = [id |-> sends + 1, token |-> token]
    /\ outbox' = outbox \cup
                   {[id |-> sends + 1, sample |-> sample, replayed |-> replayed]}
    /\ newSends' = IF replayed THEN newSends ELSE newSends \cup {sample}
    /\ repeated' = (repeated \/ (~replayed /\ sample \in newSends))
    /\ UNCHANGED <<connected, ack, pubacks, received, removed>>

-----------------------------------------------------------------------------
(* The main loop                                                           *)

\* A new sample is deferred unless it would be the next thing published.
Deferred == ~connected \/ Pending \/ (ready /\ queued > 0)

NewSample ==
    /\ refused = 0
    /\ \E size \in Sizes : EnqueueStart(size, Deferred)
    /\ refused' = IF call' = Idle THEN produced + 1 ELSE 0
    /\ UNCHANGED link

\* enqueue returned false: it came to its end without keeping the sample.
EndsEnqueue ==                                       \* mutant
    call.op \in {"evict", "write", "rename"} /\ call' = Idle

Refuses ==
    /\ call.op \in {"evict", "write", "rename"}
    /\ call' = Idle /\ call.sample \notin accepted'

\* The steps the spool takes by itself; a sample enqueue gave up goes on to
\* the live path.
SpoolStep ==
    /\ refused = 0
    /\ \/ BeginAtBoot
       \/ UpdateUnavailable \/ UpdateRetry \/ ExpireOldest \/ ExpireDone
       \/ EvictOldest \/ EvictDone \/ WriteTemporary \/ RenameToRecord
       \/ MarkFails
    /\ refused' = IF Refuses THEN call.sample ELSE 0
    /\ UNCHANGED link

\* The live path of publishTelemetry: no spool, so once or never.
PublishLive ==
    /\ refused # 0
    /\ \/ connected /\ ~Pending /\ Hand(LiveToken(refused), refused, FALSE)
       \/ (~connected \/ Pending) /\ UNCHANGED link
    /\ refused' = 0
    /\ UNCHANGED vars

\* The replay path of processSecureMqtt: peek, markAttempted, publish.  An
\* answer that came in earlier was taken at the beginning of the same round.
PeekOldest ==
    /\ refused = 0
    /\ connected /\ ~Pending
    /\ AnswerBetween \/ ack = Nobody
    /\ Peek
    /\ UNCHANGED <<refused, link>>

PublishOldest ==
    /\ MarkAttempted
    /\ Hand(ReplayToken(call.id), call.sample, call.replayed)
    /\ UNCHANGED refused

\* The connection went between the check and publishTo.
PublishFails ==
    /\ MarkAttempted
    /\ ~connected
    /\ UNCHANGED <<refused, link>>

\* takeTelemetryAck: the record named by the token is acknowledged if the
\* spool has it as its oldest and can remove it, otherwise the answer is lost.
CannotRemove == ~Removable \/ FaultKinds \cap {"read", "remove"} # {}

TakeAck ==
    /\ call = Idle /\ refused = 0
    /\ ack # Nobody
    /\ ack' = Nobody
    /\ \/ /\ ack.kind = "replay"
          /\ Acknowledge(ack.number)
          /\ removed' = removed \cup {card[oldest].sample}
       \/ /\ \/ ack.kind = "live" \/ ~ready \/ ack.number # oldest
             \/ CannotRemove
          /\ UNCHANGED <<vars, removed>>
    /\ UNCHANGED <<refused, connected, slot, outbox, pubacks, sends, newSends,
                   repeated, received>>

\* expirePendingTelemetry: the slot, not the record, is given up.
GivenUp == NoSlot

ExpirePending ==
    /\ call = Idle /\ refused = 0
    /\ Pending
    /\ slot' = GivenUp
    /\ UNCHANGED <<vars, refused, connected, ack, outbox, pubacks, sends,
                   newSends, repeated, received, removed>>

-----------------------------------------------------------------------------
(* The library's task, the broker and the backend                          *)

\* The backend keeps one sample per sample_id, however often it comes.
BrokerReceives ==
    /\ connected
    /\ \E m \in outbox :
         /\ m.id \notin pubacks
         /\ pubacks' = pubacks \cup {m.id}
         /\ received' = IF m.sample \in ReceivedSet THEN received
                                                    ELSE Append(received, m.sample)
    /\ UNCHANGED <<vars, refused, connected, slot, ack, outbox, sends, newSends,
                   repeated, removed>>

\* handlePublished
AnswersAnyone(id) ==                                 \* mutant
    /\ slot' = NoSlot
    /\ ack' = IF Pending THEN slot.token ELSE ack

Answers(id) ==
    IF id = slot.id THEN slot' = NoSlot /\ ack' = slot.token
                    ELSE UNCHANGED <<slot, ack>>

PubackArrives ==
    /\ connected
    /\ \E id \in pubacks :
         /\ pubacks' = pubacks \ {id}
         /\ outbox' = {m \in outbox : m.id # id}
         /\ Answers(id)
    /\ UNCHANGED <<vars, refused, connected, sends, newSends, repeated, received,
                   removed>>

Connect ==
    /\ ~connected
    /\ connected' = TRUE
    /\ UNCHANGED <<vars, refused, slot, ack, outbox, pubacks, sends, newSends,
                   repeated, received, removed>>

\* PUBACKs under way are lost; the library keeps and sends again its outbox.
Disconnect ==
    /\ connected
    /\ connected' = FALSE /\ pubacks' = {}
    /\ UNCHANGED <<vars, refused, slot, ack, outbox, sends, newSends, repeated,
                   received, removed>>

\* Power loss takes the client and the library's outbox along.
Restart ==
    /\ PowerLoss
    /\ connected' = FALSE /\ slot' = NoSlot /\ ack' = Nobody /\ refused' = 0
    /\ outbox' = {} /\ pubacks' = {}
    /\ UNCHANGED <<sends, newSends, repeated, received, removed>>

Environment ==
    /\ refused = 0
    /\ StorageChanges \/ TimePasses \/ Corrupt
    /\ UNCHANGED <<refused, link>>

-----------------------------------------------------------------------------
EdgeInit ==
    /\ Init
    /\ connected = FALSE /\ slot = NoSlot /\ ack = Nobody /\ refused = 0
    /\ outbox = {} /\ pubacks = {} /\ sends = 0
    /\ newSends = {} /\ repeated = FALSE /\ received = <<>> /\ removed = {}

EdgeNext ==
    \/ NewSample \/ SpoolStep \/ PublishLive
    \/ PeekOldest \/ PublishOldest \/ PublishFails \/ TakeAck \/ ExpirePending
    \/ BrokerReceives \/ PubackArrives \/ Connect \/ Disconnect
    \/ Restart \/ Environment

EdgeSpec == EdgeInit /\ [][EdgeNext]_edgeVars

-----------------------------------------------------------------------------
\* A record is removed from the spool only after the broker has answered for
\* that very sample ("se elimina unicamente despues del PUBACK").
RemovedOnlyAfterPuback == removed \subseteq ReceivedSet

\* What the spool accepted is still there, or has reached the backend, or was
\* counted as dropped: in no interleaving of restarts, lost answers and
\* repeated sends does a sample vanish unnoticed.
NothingVanishes ==
    Cardinality({s \in accepted : ~InSpool(s) /\ s \notin ReceivedSet})
        <= droppedBefore + dropped

\* A sample goes out at most once as a first delivery, over all boots and both
\* paths; every other send of it says replayed.
OnceAsNew == ~repeated

\* The backend first gets the samples that left the spool by acknowledgement
\* in the order they were taken.
ReplayedInOrder ==
    \A i, j \in DOMAIN received :
        i < j /\ received[i] \in removed /\ received[j] \in removed =>
            received[i] < received[j]
=============================================================================
