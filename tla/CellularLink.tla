----------------------------- MODULE CellularLink -----------------------------
(***************************************************************************)
(* The cellular link: the state machine of SIM800LModem                    *)
(* (src/src/communication/SIM800LModem.cpp) and, over it, the plain MQTT   *)
(* client MQTTClientCustom, in the order AppController's loop updates them *)
(* in the cellular build (src/src/app/AppController.cpp).                  *)
(*                                                                         *)
(* The modem, the network and the broker are external: how far the line    *)
(* reaches changes at any time, a modem that resets may lock its SIM       *)
(* again.  A pass may last, or come late, by MaxStall ticks; time wraps at *)
(* Wrap, as millis() does at 2^32.  Names, addresses and signal readings   *)
(* are left out.                                                           *)
(***************************************************************************)
EXTENDS Integers

CONSTANTS
    Wrap,            \* 2^32, in ticks
    ActionInterval,  \* SIM800_ACTION_INTERVAL_MS
    StatusInterval,  \* SIM800_STATUS_INTERVAL_MS
    BackoffMin,      \* RECONNECT_BACKOFF_MIN_MS
    BackoffMax,      \* RECONNECT_BACKOFF_MAX_MS
    MaxStall         \* bound: ticks between two passes of the loop

\* How far the line reaches: nothing answers, no SIM, no network, no GPRS, all.
Reach == 0..4
NoAnswer == 0
NoSim == 1
NoNetwork == 2
NoGprs == 3
AllGood == 4

States == {"AtSync", "SimCheck", "Registering", "GprsConnecting", "Online",
           "AtReady", "Backoff"}

VARIABLES
    linkNow,         \* millis()
    line,            \* external: how far the line reaches
    hasPin,          \* the SIM asks for a PIN, and CELLULAR_SIM_PIN is set
    simLocked,       \* external: it has not been given since the modem reset
    atOnly,          \* _mode is AtOnly
    apnConfigured,   \* _configured of the modem
    state,           \* _state
    nextActionMs,    \* _nextActionMs
    modemBackoff,    \* _backoffMs of the modem
    simReady,        \* _status.simReady
    registered,      \* _status.networkRegistered
    gprs,            \* _status.gprsConnected
    clientUp,        \* the MQTT library's connected()
    wasUp,           \* _wasConnected
    nextAttemptMs,   \* _nextAttemptMs of the client
    clientBackoff,   \* _backoffMs of the client
    linkPassMs       \* nowMs of the last pass

world == <<line, hasPin, simLocked, atOnly, apnConfigured>>
modem == <<state, nextActionMs, modemBackoff, simReady, registered, gprs>>
client == <<clientUp, wasUp, nextAttemptMs, clientBackoff>>
linkVars == <<linkNow, line, hasPin, simLocked, atOnly, apnConfigured, state,
              nextActionMs, modemBackoff, simReady, registered, gprs,
              clientUp, wasUp, nextAttemptMs, clientBackoff, linkPassMs>>

Ticks == 0..(Wrap - 1)
Since(then, at) == (at - then) % Wrap         \* uint32_t subtraction
Reached(deadline) == Since(deadline, linkNow) < Wrap \div 2   \* signed >= 0
After(delay) == (linkNow + delay) % Wrap
DoubledForEver(b) == 2 * b                    \* mutant
Doubled(b) == IF 2 * b > BackoffMax THEN BackoffMax ELSE 2 * b

\* What the modem's calls say.
SimIsReady == line >= NoNetwork /\ ~simLocked
OnNetwork == line >= NoGprs /\ ~simLocked
HasGprs == line = AllGood /\ ~simLocked

-----------------------------------------------------------------------------
\* begin of the modem and of the client.
LinkInit ==
    /\ linkNow = 0 /\ linkPassMs = 0
    /\ line \in Reach /\ hasPin \in BOOLEAN /\ simLocked = hasPin
    /\ atOnly \in BOOLEAN /\ apnConfigured \in BOOLEAN
    /\ (atOnly => apnConfigured)
    /\ state = "AtSync" /\ nextActionMs = linkNow /\ modemBackoff = BackoffMin
    /\ simReady = FALSE /\ registered = FALSE /\ gprs = FALSE
    /\ clientUp = FALSE /\ wasUp = FALSE
    /\ nextAttemptMs = 0 /\ clientBackoff = BackoffMin

LinkTick ==
    /\ Since(linkPassMs, linkNow) < MaxStall
    /\ linkNow' = (linkNow + 1) % Wrap
    /\ UNCHANGED <<world, modem, client, linkPassMs>>

LineChanges ==
    /\ line' \in Reach \ {line}
    /\ UNCHANGED <<linkNow, hasPin, simLocked, atOnly, apnConfigured, modem,
                   client, linkPassMs>>

\* A supply dip resets the modem: a SIM with a PIN is locked again.
ModemResets ==
    /\ hasPin /\ ~simLocked /\ simLocked' = TRUE
    /\ UNCHANGED <<linkNow, line, hasPin, atOnly, apnConfigured, modem, client,
                   linkPassMs>>

\* The connection to the broker is lost.
BrokerLost ==
    /\ clientUp /\ clientUp' = FALSE
    /\ UNCHANGED <<linkNow, world, modem, wasUp, nextAttemptMs, clientBackoff,
                   linkPassMs>>

-----------------------------------------------------------------------------
\* scheduleBackoff
KeepsGprs ==                                         \* mutant
    /\ gprs' = gprs
    /\ state' = "Backoff"
    /\ nextActionMs' = After(modemBackoff)
    /\ modemBackoff' = Doubled(modemBackoff)

ScheduleBackoff ==
    /\ gprs' = FALSE
    /\ state' = "Backoff"
    /\ nextActionMs' = After(modemBackoff)
    /\ modemBackoff' = Doubled(modemBackoff)

Go(next, delay) ==
    /\ state' = next /\ nextActionMs' = After(delay)
    /\ UNCHANGED modemBackoff

\* performStep, by state.
AtSync ==
    /\ state = "AtSync"
    /\ \/ line > NoAnswer /\ Go("SimCheck", 0) /\ UNCHANGED gprs
       \/ line = NoAnswer /\ ScheduleBackoff
    /\ UNCHANGED <<simLocked, simReady, registered>>

\* The PIN is given when the SIM is not ready and there is one.
SimCheck ==
    /\ state = "SimCheck"
    /\ simLocked' = (simLocked /\ line < NoNetwork)
    /\ simReady' = (line >= NoNetwork)
    /\ \/ ~simReady' /\ ScheduleBackoff
       \/ simReady' /\ atOnly /\ Go("AtReady", StatusInterval) /\ UNCHANGED gprs
       \/ simReady' /\ ~atOnly /\ Go("Registering", 0) /\ UNCHANGED gprs
    /\ UNCHANGED registered

Registering ==
    /\ state = "Registering"
    /\ registered' = OnNetwork
    /\ \/ OnNetwork /\ Go("GprsConnecting", 0)
       \/ ~OnNetwork /\ Go("Registering", ActionInterval)
    /\ UNCHANGED <<simLocked, simReady, gprs>>

GprsConnecting ==
    /\ state = "GprsConnecting"
    /\ \/ /\ apnConfigured /\ HasGprs
          /\ gprs' = TRUE /\ state' = "Online"
          /\ nextActionMs' = After(StatusInterval)
          /\ modemBackoff' = BackoffMin
       \/ ~(apnConfigured /\ HasGprs) /\ ScheduleBackoff
    /\ UNCHANGED <<simLocked, simReady, registered>>

Online ==
    /\ state = "Online"
    /\ registered' = OnNetwork
    /\ \/ HasGprs /\ gprs' = TRUE /\ Go("Online", StatusInterval)
       \/ ~HasGprs /\ ScheduleBackoff
    /\ UNCHANGED <<simLocked, simReady>>

AtReady ==
    /\ state = "AtReady"
    /\ simReady' = SimIsReady
    /\ Go("AtReady", StatusInterval)
    /\ UNCHANGED <<simLocked, registered, gprs>>

StaysInBackoff ==                                    \* mutant
    /\ state = "Backoff"
    /\ Go("Backoff", 0)
    /\ UNCHANGED <<simLocked, simReady, registered, gprs>>

Backoff ==
    /\ state = "Backoff"
    /\ Go("AtSync", 0)
    /\ UNCHANGED <<simLocked, simReady, registered, gprs>>

PerformStep ==
    \/ AtSync \/ SimCheck \/ Registering \/ GprsConnecting \/ Online
    \/ AtReady \/ Backoff

\* SIM800LModem::update
ModemUpdate ==
    \/ Reached(nextActionMs) /\ PerformStep
    \/ ~Reached(nextActionMs) /\ UNCHANGED <<modem, simLocked>>

\* When a lost line is noticed the modem's sockets are stopped, and with them
\* the client's connection.
StillUp == clientUp /\ ~(state = "Online" /\ state' = "Backoff")

\* MQTTClientCustom::update, after the modem's, with its new gprsConnected.
WithoutBearer ==
    /\ ~gprs'
    /\ clientUp' = FALSE /\ wasUp' = FALSE
    /\ UNCHANGED <<nextAttemptMs, clientBackoff>>

StaysUp ==
    /\ gprs' /\ StillUp
    /\ clientUp' = TRUE /\ wasUp' = TRUE
    /\ clientBackoff' = BackoffMin
    /\ UNCHANGED nextAttemptMs

Waits ==
    /\ gprs' /\ ~StillUp /\ ~Reached(nextAttemptMs)
    /\ clientUp' = FALSE /\ wasUp' = FALSE
    /\ UNCHANGED <<nextAttemptMs, clientBackoff>>

Attempts(accepts) ==
    /\ gprs' /\ ~StillUp /\ Reached(nextAttemptMs)
    /\ wasUp' = FALSE
    /\ clientUp' = accepts
    /\ IF accepts
       THEN nextAttemptMs' = linkNow /\ clientBackoff' = BackoffMin
       ELSE /\ nextAttemptMs' = After(clientBackoff)
            /\ clientBackoff' = Doubled(clientBackoff)

ClientUpdate ==
    \/ WithoutBearer
    \/ StaysUp
    \/ Waits
    \/ \E accepts \in BOOLEAN : Attempts(accepts)

\* One pass of the loop in the cellular build.
LinkPass ==
    /\ ModemUpdate /\ ClientUpdate
    /\ linkPassMs' = linkNow
    /\ UNCHANGED <<linkNow, line, hasPin, atOnly, apnConfigured>>

LinkNext ==
    \/ LinkTick
    \/ LineChanges
    \/ ModemResets
    \/ BrokerLost
    \/ LinkPass

LinkFairness == WF_linkVars(LinkPass) /\ WF_linkVars(LinkTick)

LinkSpec == LinkInit /\ [][LinkNext]_linkVars /\ LinkFairness

-----------------------------------------------------------------------------
\* Type invariant.
LinkTypeOK ==
    /\ {linkNow, linkPassMs, nextActionMs, nextAttemptMs} \subseteq Ticks
    /\ line \in Reach /\ state \in States
    /\ {hasPin, simLocked, atOnly, apnConfigured, simReady, registered, gprs,
        clientUp, wasUp} \subseteq BOOLEAN
    /\ {modemBackoff, clientBackoff} \subseteq BackoffMin..BackoffMax

\* The client holds a connection only over a bearer the modem is watching: the
\* pass that notices the loss of the network drops both.
ClientNeedsBearer == (clientUp => gprs) /\ (gprs <=> state = "Online")

\* Once the line stays good the modem is online, and stays, whatever state and
\* whatever backoff the outage left it in; a modem without an APN or in the
\* diagnostic mode never is, and neither is one whose SIM was locked again
\* behind its back.
ComesOnline ==
    <>[](line = AllGood /\ ~simLocked /\ ~atOnly /\ apnConfigured)
        => <>[](state = "Online")

\* docs/tests.md: when the network is switched off and on again WiFi and MQTT
\* reconnect by themselves.  With a bearer and no connection, the next attempt
\* is due or at most the largest backoff away.
AttemptNear ==
    (gprs /\ ~clientUp) =>
        (Reached(nextAttemptMs) \/ Since(linkNow, nextAttemptMs) <= BackoffMax)
=============================================================================
