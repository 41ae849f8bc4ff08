------------------------------ MODULE WiFiManager ------------------------------
(***************************************************************************)
(* WiFiManagerCustom (src/src/communication/WiFiManagerCustom.cpp), the    *)
(* reconnection timer of the Wi-Fi builds.                                 *)
(*                                                                         *)
(* The radio and the access point are external: the radio associates while *)
(* it has been asked to and the access point is there, and again by itself *)
(* (setAutoReconnect) until WiFi.disconnect is called.  A pass may last,   *)
(* or come late, by MaxStall ticks; time wraps at Wrap, as millis() does   *)
(* at 2^32.                                                                *)
(***************************************************************************)
EXTENDS Integers

CONSTANTS
    Wrap,            \* 2^32, in ticks
    ConnectTimeout,  \* WIFI_CONNECT_TIMEOUT_MS
    BackoffMin,      \* RECONNECT_BACKOFF_MIN_MS
    BackoffMax,      \* RECONNECT_BACKOFF_MAX_MS
    MaxStall         \* bound: ticks between two passes of the loop

VARIABLES
    wifiNow,         \* millis()
    apUp,            \* external: the access point is there
    radioOn,         \* external: the radio tries, or is associated
    associated,      \* external: WiFi.status() == WL_CONNECTED
    wasConnected,    \* _wasConnected
    connecting,      \* _connecting
    attemptMs,       \* _attemptStartedMs, of use while connecting
    nextTryMs,       \* _nextAttemptMs
    wifiBackoff,     \* _backoffMs
    wifiPassMs       \* nowMs of the last pass

air == <<apUp, radioOn, associated>>
manager == <<wasConnected, connecting, attemptMs, nextTryMs, wifiBackoff>>
wifiVars == <<wifiNow, apUp, radioOn, associated, wasConnected, connecting,
              attemptMs, nextTryMs, wifiBackoff, wifiPassMs>>

Ticks == 0..(Wrap - 1)
Since(then, at) == (at - then) % Wrap         \* uint32_t subtraction
Reached(deadline) == Since(deadline, wifiNow) < Wrap \div 2   \* signed >= 0
After(delay) == (wifiNow + delay) % Wrap
Doubled(b) == IF 2 * b > BackoffMax THEN BackoffMax ELSE 2 * b

-----------------------------------------------------------------------------
\* begin, with an SSID configured: the first attempt starts.
WifiInit ==
    /\ wifiNow = 0 /\ wifiPassMs = 0
    /\ apUp \in BOOLEAN /\ radioOn = TRUE /\ associated = FALSE
    /\ wasConnected = FALSE
    /\ connecting = TRUE /\ attemptMs = 0
    /\ nextTryMs = 0
    /\ wifiBackoff = BackoffMin

WifiTick ==
    /\ Since(wifiPassMs, wifiNow) < MaxStall
    /\ wifiNow' = (wifiNow + 1) % Wrap
    /\ UNCHANGED <<air, manager, wifiPassMs>>

AccessPointChanges ==
    /\ apUp' = ~apUp
    /\ associated' = FALSE
    /\ UNCHANGED <<wifiNow, radioOn, manager, wifiPassMs>>

Associates ==
    /\ apUp /\ radioOn /\ ~associated
    /\ associated' = TRUE
    /\ UNCHANGED <<wifiNow, apUp, radioOn, manager, wifiPassMs>>

-----------------------------------------------------------------------------
SeesConnected ==
    /\ associated
    /\ wasConnected' = TRUE /\ connecting' = FALSE
    /\ attemptMs' = 0
    /\ wifiBackoff' = BackoffMin
    /\ UNCHANGED <<radioOn, nextTryMs>>

\* The rest of update: a loss is noticed, or an attempt times out, and then an
\* attempt that is due starts.
TimesOut == connecting /\ Since(attemptMs, wifiNow) >= ConnectTimeout

StartsIfDue(idle) ==
    LET starts == idle /\ Since(nextTryMs', wifiNow) < Wrap \div 2 IN
    /\ connecting' = (starts \/ ~idle)
    /\ attemptMs' = IF starts THEN wifiNow ELSE IF idle THEN 0 ELSE attemptMs
    /\ radioOn' = (starts \/ (radioOn /\ ~TimesOut))

LossKeepsDeadline ==                                 \* mutant
    /\ ~associated
    /\ wasConnected' = FALSE
    /\ IF TimesOut
       THEN /\ nextTryMs' = After(wifiBackoff)
            /\ wifiBackoff' = Doubled(wifiBackoff)
       ELSE UNCHANGED <<nextTryMs, wifiBackoff>>
    /\ StartsIfDue(~connecting \/ TimesOut)

TimeoutStaysConnecting ==                            \* mutant
    /\ ~associated
    /\ wasConnected' = FALSE
    /\ IF wasConnected \/ TimesOut
       THEN nextTryMs' = After(wifiBackoff)
       ELSE UNCHANGED nextTryMs
    /\ wifiBackoff' = IF TimesOut THEN Doubled(wifiBackoff) ELSE wifiBackoff
    /\ StartsIfDue(~connecting)

SeesDisconnected ==
    /\ ~associated
    /\ wasConnected' = FALSE
    /\ IF wasConnected \/ TimesOut
       THEN nextTryMs' = After(wifiBackoff)
       ELSE UNCHANGED nextTryMs
    /\ wifiBackoff' = IF TimesOut THEN Doubled(wifiBackoff) ELSE wifiBackoff
    /\ StartsIfDue(~connecting \/ TimesOut)

\* WiFiManagerCustom::update
WifiPass ==
    /\ SeesConnected \/ SeesDisconnected
    /\ wifiPassMs' = wifiNow
    /\ UNCHANGED <<wifiNow, apUp, associated>>

WifiNext == WifiTick \/ AccessPointChanges \/ Associates \/ WifiPass

\* The loop runs and time passes.  A radio that is given the chance again and
\* again associates in the end: an attempt may time out, not every one.
WifiFairness == WF_wifiVars(WifiPass) /\ WF_wifiVars(WifiTick)
                /\ SF_wifiVars(Associates)

WifiSpec == WifiInit /\ [][WifiNext]_wifiVars /\ WifiFairness

-----------------------------------------------------------------------------
\* Type invariant.
WifiTypeOK ==
    /\ {wifiNow, attemptMs, nextTryMs, wifiPassMs} \subseteq Ticks
    /\ {apUp, radioOn, associated, wasConnected, connecting} \subseteq BOOLEAN
    /\ wifiBackoff \in BackoffMin..BackoffMax

\* Whatever the connection lasted, and however late the passes come, a manager
\* that sees no connection is in an attempt that ends, or its next one is due
\* or at most the largest backoff away: no deadline left over from before the
\* connection reads as one in the far future.
TryNear ==
    ~wasConnected =>
        \/ connecting /\ Since(attemptMs, wifiNow) < ConnectTimeout + MaxStall
        \/ ~connecting /\ (Reached(nextTryMs)
                           \/ Since(wifiNow, nextTryMs) <= BackoffMax)

\* docs/tests.md: after the network is switched off and on again Wi-Fi
\* reconnects by itself.
Reassociates == <>[]apUp => <>[](associated /\ wasConnected)
=============================================================================
