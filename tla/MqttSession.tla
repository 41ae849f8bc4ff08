---------------------------- MODULE MqttSession -----------------------------
(***************************************************************************)
(* The connection life cycle of SecureMqttClient                           *)
(* (src/src/communication/SecureMqttClient.cpp): AppController's loop asks *)
(* the ESP-MQTT library for a connection, and the library's own task calls *)
(* the event handlers.  Both threads read and write connected, attempting, *)
(* deadline and backoff without a lock, so each handler and each update is *)
(* split at the points where the other thread can see a difference.        *)
(*                                                                         *)
(* millis() is a counter modulo Span: reached() compares two of its values *)
(* by the sign of their difference, as the code does with 32 bits.  _client *)
(* and _configured are set once before the loop starts and are true here;  *)
(* _lastError and _attemptStartedMs are never read by the client.          *)
(***************************************************************************)
EXTENDS Naturals

CONSTANTS
    Span,            \* 2^32, the number of values of millis()
    BackoffMin,      \* RECONNECT_BACKOFF_MIN_MS
    BackoffMax,      \* RECONNECT_BACKOFF_MAX_MS
    MaxOutage,       \* bound: ticks a due attempt waits for the network
    FastFailure      \* an attempt may be over before the loop has noted it

ASSUME SessionAssumption ==
    /\ BackoffMin \in Nat \ {0} /\ BackoffMax \in Nat /\ BackoffMin <= BackoffMax
    /\ Span \in Nat /\ 2 * BackoffMax < Span
    /\ MaxOutage \in Nat
    /\ FastFailure \in BOOLEAN

VARIABLES
    now,             \* millis()
    networkReady,    \* _wifi.isConnected() && _time.isValid()
    outage,          \* bound: ticks since a due attempt found no network
    started,         \* _started
    connected,       \* _connected
    attempting,      \* _attemptInProgress
    deadline,        \* _nextAttemptMs
    backoff,         \* _backoffMs
    loop,            \* where update stands
    task,            \* where the event handler stands
    client,          \* the library's state
    requested        \* the library was asked to reconnect

flags == <<connected, attempting>>
timing == <<deadline, backoff>>
library == <<client, requested>>
world == <<now, networkReady, outage>>
vars == <<now, networkReady, outage, started, connected, attempting, deadline,
          backoff, loop, task, client, requested>>

-----------------------------------------------------------------------------
\* The signed difference of two 32-bit times is not negative.
ReachedUnsigned(time) == now >= time                 \* mutant
Reached(time) == (now + Span - time) % Span < Span \div 2

IncreasedBackoff == IF 2 * backoff > BackoffMax THEN BackoffMax ELSE 2 * backoff

ScheduleReconnect ==
    /\ deadline' = (now + backoff) % Span
    /\ backoff' = IncreasedBackoff

-----------------------------------------------------------------------------
(* The main loop: update                                                   *)

\* First attempt: esp_mqtt_client_start creates the library's task.
MayStart == loop = "idle" /\ networkReady /\ ~started /\ Reached(deadline)

Start ==
    /\ MayStart
    /\ client' = "connecting"
    /\ loop' = "starting"
    /\ UNCHANGED <<world, started, flags, timing, task, requested>>

StartFails ==
    /\ MayStart
    /\ ScheduleReconnect
    /\ UNCHANGED <<world, started, flags, loop, task, library>>

NoteStarted ==
    /\ loop = "starting"
    /\ started' = TRUE
    /\ attempting' = TRUE
    /\ loop' = "idle"
    /\ UNCHANGED <<world, connected, timing, task, library>>

\* The condition of update reads connected, then the rest of it.
SeeDisconnected ==
    /\ loop = "idle" /\ networkReady
    /\ started /\ ~connected
    /\ loop' = "checking"
    /\ UNCHANGED <<world, started, flags, timing, task, library>>

\* The library accepts a request only while it waits for one.
Reconnect ==
    /\ loop = "checking"
    /\ \/ /\ attempting \/ ~Reached(deadline)
          /\ loop' = "idle"
          /\ UNCHANGED <<timing, requested>>
       \/ /\ ~attempting /\ Reached(deadline) /\ client = "waiting"
          /\ requested' = TRUE
          /\ loop' = "reconnecting"
          /\ UNCHANGED timing
       \/ /\ ~attempting /\ Reached(deadline) /\ client # "waiting"
          /\ ScheduleReconnect
          /\ loop' = "idle"
          /\ UNCHANGED requested
    /\ UNCHANGED <<world, started, flags, task, client>>

NoteAttempt ==
    /\ loop = "reconnecting"
    /\ attempting' = TRUE
    /\ loop' = "idle"
    /\ UNCHANGED <<world, started, connected, timing, task, library>>

-----------------------------------------------------------------------------
(* The library and its task                                                *)

TakeRequest ==
    /\ task = "idle" /\ client = "waiting" /\ requested
    /\ client' = "connecting"
    /\ requested' = FALSE
    /\ UNCHANGED <<world, started, flags, timing, loop, task>>

\* The loop has stored the flag of the attempt it asked for.
Noted == FastFailure \/ loop \notin {"starting", "reconnecting"}

AttemptSucceeds ==
    /\ task = "idle" /\ client = "connecting"
    /\ client' = "connected"
    /\ task' = "connected"
    /\ UNCHANGED <<world, started, flags, timing, loop, requested>>

\* A refused or failed attempt, or the loss of a connection.
ConnectionEnds ==
    /\ task = "idle"
    /\ client \in {"connecting", "connected"} /\ Noted
    /\ client' = "waiting"
    /\ task' = "disconnected"
    /\ UNCHANGED <<world, started, flags, timing, loop, requested>>

\* handleConnected, its first statement and the rest of them.
NoteConnected ==
    /\ task = "connected"
    /\ connected' = TRUE
    /\ task' = "greeting"
    /\ UNCHANGED <<world, started, attempting, timing, loop, library>>

EndAttempt ==
    /\ task = "greeting"
    /\ attempting' = FALSE
    /\ backoff' = BackoffMin
    /\ task' = "idle"
    /\ UNCHANGED <<world, started, connected, deadline, loop, library>>

\* handleDisconnected clears the two flags and only then sets the deadline.
KeepsConnected ==                                    \* mutant
    /\ task = "disconnected"
    /\ task' = "clearing"
    /\ UNCHANGED <<world, started, flags, timing, loop, library>>

NoteDisconnected ==
    /\ task = "disconnected"
    /\ connected' = FALSE
    /\ task' = "clearing"
    /\ UNCHANGED <<world, started, attempting, timing, loop, library>>

KeepsAttempt ==                                      \* mutant
    /\ task = "clearing"
    /\ task' = "scheduling"
    /\ UNCHANGED <<world, started, flags, timing, loop, library>>

ClearAttempt ==
    /\ task = "clearing"
    /\ attempting' = FALSE
    /\ task' = "scheduling"
    /\ UNCHANGED <<world, started, connected, timing, loop, library>>

ScheduleAfterDisconnect ==
    /\ task = "scheduling"
    /\ ScheduleReconnect
    /\ task' = "idle"
    /\ UNCHANGED <<world, started, flags, loop, library>>

-----------------------------------------------------------------------------
(* Surroundings                                                            *)

NetworkChanges ==
    /\ loop = "idle"
    /\ networkReady' = ~networkReady
    /\ UNCHANGED <<now, outage, started, flags, timing, loop, task, library>>

\* The loop comes round many times between two ticks, so that a tick never
\* falls inside a handler or before an attempt that is due.
WantsAttempt == ~connected /\ ~attempting /\ Reached(deadline)

Tick ==
    /\ loop \in {"idle", "checking"}
    /\ task \notin {"greeting", "clearing", "scheduling"}
    /\ ~(networkReady /\ WantsAttempt)
    /\ WantsAttempt => outage < MaxOutage
    /\ now' = (now + 1) % Span
    /\ outage' = IF WantsAttempt THEN outage + 1 ELSE 0
    /\ UNCHANGED <<networkReady, started, flags, timing, loop, task, library>>

-----------------------------------------------------------------------------
Init ==
    /\ now \in 0..BackoffMax
    /\ networkReady \in BOOLEAN
    /\ outage = 0
    /\ started = FALSE /\ connected = FALSE /\ attempting = FALSE
    /\ deadline = 0 /\ backoff = BackoffMin
    /\ loop = "idle" /\ task = "idle"
    /\ client = "stopped" /\ requested = FALSE

LoopStep ==
    \/ Start \/ StartFails \/ NoteStarted
    \/ SeeDisconnected \/ Reconnect \/ NoteAttempt

TaskStep ==
    \/ TakeRequest \/ NoteConnected \/ EndAttempt
    \/ NoteDisconnected \/ ClearAttempt \/ ScheduleAfterDisconnect

AttemptEnds == client = "connecting" /\ (AttemptSucceeds \/ ConnectionEnds)

Next ==
    \/ LoopStep \/ TaskStep
    \/ AttemptSucceeds \/ ConnectionEnds
    \/ NetworkChanges \/ Tick

Spec == Init /\ [][Next]_vars

\* The loop and the library's task are scheduled, the task can be created in
\* the end, an attempt ends (the library has a socket timeout), time passes.
SessionFairness ==
    /\ SF_vars(Start)
    /\ WF_vars(LoopStep) /\ WF_vars(TaskStep)
    /\ WF_vars(AttemptEnds) /\ WF_vars(Tick)

FairSpec == Spec /\ SessionFairness

-----------------------------------------------------------------------------
TypeOK ==
    /\ now \in 0..(Span - 1) /\ deadline \in 0..(Span - 1)
    /\ backoff \in BackoffMin..BackoffMax
    /\ outage \in 0..MaxOutage
    /\ networkReady \in BOOLEAN /\ requested \in BOOLEAN
    /\ started \in BOOLEAN /\ connected \in BOOLEAN /\ attempting \in BOOLEAN
    /\ loop \in {"idle", "starting", "checking", "reconnecting"}
    /\ task \in {"idle", "connected", "greeting", "disconnected", "clearing",
                "scheduling"}
    /\ client \in {"stopped", "waiting", "connecting", "connected"}

InAttempt == requested \/ client = "connecting" \/ task = "connected"

\* The attempt flag always stands for an attempt whose end will clear it:
\* nothing else does (_attemptStartedMs is never looked at), and while it is
\* set the loop asks for no connection.
NotStranded ==
    attempting /\ loop # "starting" => InAttempt \/ task # "idle" \/ connected

\* publishTo trusts connected: it is only true while the library has a
\* connection or is telling the client that it lost it.
ConnectedHonest ==
    connected => client = "connected" \/ task = "disconnected"

\* Once the network is there the next attempt is at most one backoff away.
DeadlineNear ==
    networkReady /\ ~connected /\ ~attempting /\ loop = "idle" /\ task = "idle" =>
        Reached(deadline) \/ (deadline + Span - now) % Span <= BackoffMax

\* With the network there the session is always tried again.
Reconnects == []<>(~networkReady \/ connected \/ InAttempt)
=============================================================================
