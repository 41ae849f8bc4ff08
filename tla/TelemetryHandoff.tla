-------------------------- MODULE TelemetryHandoff --------------------------
(***************************************************************************)
(* How one telemetry message at a time is handed to the MQTT library and   *)
(* its PUBACK handed back: SecureMqttClient::publishTelemetry,             *)
(* handlePublished, takeTelemetryAck and expirePendingTelemetry            *)
(* (src/src/communication/SecureMqttClient.cpp), in the order              *)
(* AppController's loop calls them (src/src/app/AppController.cpp).        *)
(*                                                                         *)
(* publishTelemetry reads the pending slot under the lock, releases it to  *)
(* call the library, and takes it again to store the message id; the       *)
(* library's task runs handlePublished in between or not.  The spool is    *)
(* reduced to the number of its oldest record, which acknowledge advances. *)
(***************************************************************************)
EXTENDS Naturals, FiniteSets

CONSTANTS
    Records,         \* bound: records the spool has to deliver
    LiveSamples,     \* bound: samples published without the spool
    MessageIds,      \* message ids of the library
    PubackTimeout,   \* MQTT_PUBACK_TIMEOUT_MS, in ticks
    EarlyPuback,     \* a PUBACK may arrive before its id is stored
    MillisZero       \* millis() may be zero when the id is stored

ASSUME HandoffAssumption ==
    /\ Records \in Nat /\ LiveSamples \in Nat
    /\ IsFiniteSet(MessageIds) /\ MessageIds \subseteq Nat \ {0}
    /\ PubackTimeout \in Nat \ {0}
    /\ EarlyPuback \in BOOLEAN /\ MillisZero \in BOOLEAN

Replay(n) == [kind |-> "replay", number |-> n]
Live(n) == [kind |-> "live", number |-> n]
Tokens == {Replay(n) : n \in 1..Records} \cup {Live(n) : n \in 1..LiveSamples}

None == [kind |-> "none", number |-> 0]

VARIABLES
    linked,          \* _connected
    slotId,          \* _pendingTelemetryMessageId, 0 when it is -1
    slotToken,       \* _pendingTelemetryToken
    slotAge,         \* ticks since _pendingTelemetryStartedMs
    slotTimed,       \* _pendingTelemetryStartedMs # 0
    ack,             \* _acknowledgedToken, None when not _telemetryAckReady
    place,           \* where AppController::update stands
    sending,         \* the token publishTelemetry was called with
    sentId,          \* the message id the library returned
    oldest,          \* the oldest record of the spool
    lives,           \* samples that took the live path so far
    outbox,          \* messages the library keeps until their PUBACK
    pubacks,         \* message ids whose PUBACK is on its way
    delivered,       \* history: tokens the broker has received
    answered         \* history: ids whose PUBACK came since they were assigned

slot == <<slotId, slotToken, slotAge, slotTimed>>
local == <<place, sending, sentId>>
wire == <<outbox, pubacks>>
handoffVars == <<linked, slotId, slotToken, slotAge, slotTimed, ack, place,
                 sending, sentId, oldest, lives, outbox, pubacks, delivered,
                 answered>>

-----------------------------------------------------------------------------
Pending == slotId # 0

ReleaseSlot ==
    /\ slotId' = 0 /\ slotToken' = None
    /\ slotAge' = 0 /\ slotTimed' = FALSE

\* update: a PUBACK that takes too long frees the slot, not the record.
Overdue == Pending /\ slotTimed /\ slotAge >= PubackTimeout

ExpirePending ==
    /\ place = "update"
    /\ place' = "acks"
    /\ IF Overdue THEN ReleaseSlot ELSE UNCHANGED slot
    /\ UNCHANGED <<linked, ack, sending, sentId, oldest, lives, wire,
                   delivered, answered>>

\* takeTelemetryAck, then acknowledge of the spool: it only removes its
\* oldest record, and a live token removes nothing.
TakeAck ==
    /\ place = "acks"
    /\ place' = "replay"
    /\ ack' = None
    /\ oldest' = IF ack = Replay(oldest) THEN oldest + 1 ELSE oldest
    /\ UNCHANGED <<linked, slot, sending, sentId, lives, wire, delivered,
                   answered>>

Send(token, from, next) ==
    /\ place = from
    /\ linked /\ ~Pending
    /\ sending' = token
    /\ place' = next
    /\ UNCHANGED <<linked, slot, ack, sentId, oldest, wire, delivered,
                   answered>>

\* The replay path; nothing is sent when a condition fails, or when the replay
\* interval has not passed.
SendReplay ==
    /\ oldest <= Records
    /\ Send(Replay(oldest), "replay", "enqueue")
    /\ UNCHANGED lives

SkipReplay ==
    /\ place = "replay"
    /\ place' = "live"
    /\ UNCHANGED <<linked, slot, ack, sending, sentId, oldest, lives, wire,
                   delivered, answered>>

\* The live path, for a sample the spool did not take.
SendLive ==
    /\ lives < LiveSamples
    /\ Send(Live(lives + 1), "live", "enqueue")
    /\ lives' = lives + 1

SkipLive ==
    /\ place = "live"
    /\ place' = "update"
    /\ UNCHANGED <<linked, slot, ack, sending, sentId, oldest, lives, wire,
                   delivered, answered>>

After(token) == IF token.kind = "replay" THEN "live" ELSE "update"

\* publishTo: esp_mqtt_client_enqueue, unless the connection went meanwhile.
UnusedIds == MessageIds \ ({m.id : m \in outbox} \cup pubacks \cup {slotId})

Enqueue ==
    /\ place = "enqueue"
    /\ \/ /\ linked
          /\ \E id \in UnusedIds :
               /\ \A other \in UnusedIds : id <= other
               /\ sentId' = id
               /\ outbox' = outbox \cup {[id |-> id, token |-> sending]}
               /\ answered' = answered \ {id}
          /\ place' = "store"
          /\ UNCHANGED sending
       \/ /\ ~linked \/ UnusedIds = {}
          /\ place' = After(sending)
          /\ sending' = None
          /\ UNCHANGED <<sentId, outbox, answered>>
    /\ UNCHANGED <<linked, slot, ack, oldest, lives, pubacks, delivered>>

StorePending ==
    /\ place = "store"
    /\ slotId' = sentId /\ slotToken' = sending
    /\ slotAge' = 0
    /\ slotTimed' \in IF MillisZero THEN BOOLEAN ELSE {TRUE}
    /\ place' = After(sending)
    /\ sending' = None /\ sentId' = 0
    /\ UNCHANGED <<linked, ack, oldest, lives, wire, delivered, answered>>

-----------------------------------------------------------------------------
(* The library's task and the broker                                       *)

\* QoS 1: the message stays in the outbox until its PUBACK.
BrokerReceives(m) ==
    /\ linked
    /\ delivered' = delivered \cup {m.token}
    /\ pubacks' = pubacks \cup {m.id}
    /\ UNCHANGED <<linked, slot, ack, local, oldest, lives, outbox, answered>>

Arrives(id) ==
    /\ linked /\ id \in pubacks
    /\ EarlyPuback \/ ~(place = "store" /\ id = sentId)
    /\ pubacks' = pubacks \ {id}
    /\ outbox' = {m \in outbox : m.id # id}
    /\ answered' = answered \cup {id}
    /\ UNCHANGED <<linked, local, oldest, lives, delivered>>

\* handlePublished: only the id in the slot counts.
AnyPublished(id) ==                                  \* mutant
    /\ Arrives(id)
    /\ IF Pending
         THEN ack' = slotToken /\ ReleaseSlot
         ELSE UNCHANGED <<ack, slot>>

SilentlyPublished(id) ==                             \* mutant
    /\ Arrives(id)
    /\ IF id = slotId
         THEN UNCHANGED ack /\ ReleaseSlot
         ELSE UNCHANGED <<ack, slot>>

AckKeepsSlot(id) ==                                  \* mutant
    /\ Arrives(id)
    /\ IF id = slotId THEN ack' = slotToken ELSE UNCHANGED ack
    /\ UNCHANGED slot

HandlePublished(id) ==
    /\ Arrives(id)
    /\ IF id = slotId
         THEN ack' = slotToken /\ ReleaseSlot
         ELSE UNCHANGED <<ack, slot>>

\* The library gives up a message it has kept too long (30 s).
OutboxExpires(m) ==
    /\ m.id # sentId /\ ~(m.id = slotId /\ slotAge < PubackTimeout)
    /\ outbox' = outbox \ {m}
    /\ UNCHANGED <<linked, slot, ack, local, oldest, lives, pubacks,
                   delivered, answered>>

\* PUBACKs under way are lost with the connection, the outbox is not.
Disconnect ==
    /\ linked
    /\ linked' = FALSE
    /\ pubacks' = {}
    /\ UNCHANGED <<slot, ack, local, oldest, lives, outbox, delivered, answered>>

Connect ==
    /\ ~linked
    /\ linked' = TRUE
    /\ UNCHANGED <<slot, ack, local, oldest, lives, wire, delivered, answered>>

\* Time passes between two rounds of the loop; an overdue slot is found first.
SlotAges ==
    /\ place = "update" /\ Pending /\ slotAge < PubackTimeout
    /\ slotAge' = slotAge + 1
    /\ UNCHANGED <<linked, slotId, slotToken, slotTimed, ack, local, oldest,
                   lives, wire, delivered, answered>>

-----------------------------------------------------------------------------
HandoffInit ==
    /\ linked = FALSE
    /\ slotId = 0 /\ slotToken = None /\ slotAge = 0 /\ slotTimed = FALSE
    /\ ack = None
    /\ place = "update" /\ sending = None /\ sentId = 0
    /\ oldest = 1 /\ lives = 0
    /\ outbox = {} /\ pubacks = {}
    /\ delivered = {} /\ answered = {}

AppStep ==
    \/ ExpirePending \/ TakeAck
    \/ SendReplay \/ SkipReplay \/ SendLive \/ SkipLive
    \/ Enqueue \/ StorePending

HandoffNext ==
    \/ AppStep
    \/ \E m \in outbox : BrokerReceives(m) \/ OutboxExpires(m)
    \/ \E id \in MessageIds : HandlePublished(id)
    \/ Disconnect \/ Connect \/ SlotAges

HandoffSpec == HandoffInit /\ [][HandoffNext]_handoffVars

\* The loop goes round and uses the replay path, time passes, a broker that
\* keeps being asked answers within the timeout in the end, and messages the
\* client no longer waits for leave the library.
HandoffFairness ==
    /\ WF_handoffVars(AppStep) /\ SF_handoffVars(SlotAges)
    /\ WF_handoffVars(Connect)
    /\ SF_handoffVars(SendReplay)
    /\ SF_handoffVars(Enqueue /\ place' = "store")
    /\ SF_handoffVars(\E m \in outbox : m.id = slotId /\ BrokerReceives(m))
    /\ SF_handoffVars(HandlePublished(slotId))
    /\ WF_handoffVars(\E m \in outbox : OutboxExpires(m))
    /\ SF_handoffVars(\E id \in MessageIds : HandlePublished(id))

HandoffFairSpec == HandoffSpec /\ HandoffFairness

-----------------------------------------------------------------------------
Places == {"update", "acks", "replay", "live", "enqueue", "store"}

HandoffTypeOK ==
    /\ linked \in BOOLEAN /\ slotTimed \in BOOLEAN
    /\ slotId \in {0} \cup MessageIds /\ sentId \in {0} \cup MessageIds
    /\ slotToken \in Tokens \cup {None}
    /\ sending \in Tokens \cup {None} /\ ack \in Tokens \cup {None}
    /\ slotAge \in 0..PubackTimeout
    /\ place \in Places
    /\ oldest \in 1..(Records + 1) /\ lives \in 0..LiveSamples
    /\ outbox \subseteq [id : MessageIds, token : Tokens]
    /\ pubacks \subseteq MessageIds
    /\ delivered \subseteq Tokens /\ answered \subseteq MessageIds

\* A record leaves the spool only after the broker has received it, although
\* late PUBACKs of expired sends keep arriving ("se elimina unicamente despues
\* del PUBACK").
RemovedOnlyIfDelivered == \A n \in 1..(oldest - 1) : Replay(n) \in delivered

\* The send a PUBACK timeout gives up has not been answered, which is what
\* the warning "PUBACK timeout" says.
TimeoutHonest == Overdue => slotId \notin answered

\* Every record is delivered and removed in the end if the connection holds.
QueueDrains == <>[]linked => <>(oldest > Records)
=============================================================================
