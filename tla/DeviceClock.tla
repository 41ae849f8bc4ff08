------------------------------ MODULE DeviceClock ------------------------------
(***************************************************************************)
(* TimeService (src/src/system/TimeService.cpp): the system clock, set by  *)
(* NTP or, while it is not valid, by the GPS, and the source the device    *)
(* names for it.                                                           *)
(*                                                                         *)
(* The clock is known by who set it last; "unset" is a time before 2024.   *)
(* It is kept over a restart of the firmware and lost without power.  The  *)
(* SNTP task answers whenever it likes once started, also in the middle of *)
(* update, between the last look at the clock and the GPS setting it.      *)
(***************************************************************************)
EXTENDS Integers

CONSTANTS
    Wrap,            \* 2^32, in ticks
    NtpRetry,        \* NTP_SYNC_RETRY_INTERVAL_MS
    MaxStall         \* bound: ticks between two passes of the loop

Setters == {"unset", "gps", "ntp"}
Sources == {"none", "gps", "ntp"}

VARIABLES
    clockNow,        \* millis()
    online,          \* external: the Wi-Fi is connected
    clock,           \* external: who set the system clock
    answered,        \* external: the SNTP status is COMPLETED, and unread
    ntpStarted,      \* _ntpStarted
    ntpStartMs,      \* _lastNtpStartMs, of use once started
    source,          \* _source
    clockPassMs,     \* nowMs of the last pass
    kept,            \* history: the clock was valid at the last begin
    ntpHeard         \* history: NTP has answered since the last begin

service == <<ntpStarted, ntpStartMs, source>>
clockVars == <<clockNow, online, clock, answered, ntpStarted, ntpStartMs, source,
               clockPassMs, kept, ntpHeard>>

Ticks == 0..(Wrap - 1)
Since(then, at) == (at - then) % Wrap         \* uint32_t subtraction
ClockValid == clock # "unset"                 \* systemClockValid

\* source(), for the rest of the device.
NamedSource == IF ClockValid THEN source ELSE "none"

-----------------------------------------------------------------------------
\* begin, after power up.
ClockInit ==
    /\ clockNow = 0 /\ clockPassMs = 0
    /\ online \in BOOLEAN
    /\ clock = "unset" /\ answered = FALSE
    /\ ntpStarted = FALSE /\ ntpStartMs = 0
    /\ source = "none"
    /\ kept = FALSE /\ ntpHeard = FALSE

\* begin, after a restart: the clock goes on, or is lost with the power.
DeviceBegins(clockKept) ==
    /\ clockNow' = 0 /\ clockPassMs' = 0
    /\ clock' = IF clockKept THEN clock ELSE "unset"
    /\ answered' = FALSE
    /\ ntpStarted' = FALSE /\ ntpStartMs' = 0
    /\ source' = IF clock' = "unset" THEN "none" ELSE "ntp"
    /\ kept' = (clock' # "unset") /\ ntpHeard' = FALSE
    /\ UNCHANGED online

ClockTick ==
    /\ Since(clockPassMs, clockNow) < MaxStall
    /\ clockNow' = (clockNow + 1) % Wrap
    /\ UNCHANGED <<online, clock, answered, service, clockPassMs, kept,
                   ntpHeard>>

NetworkChanges ==
    /\ online' = ~online
    /\ UNCHANGED <<clockNow, clock, answered, service, clockPassMs, kept,
                   ntpHeard>>

\* The SNTP task sets the clock.
NtpAnswers ==
    /\ ntpStarted /\ online
    /\ clock' = "ntp" /\ answered' = TRUE /\ ntpHeard' = TRUE
    /\ UNCHANGED <<clockNow, online, service, clockPassMs, kept>>

-----------------------------------------------------------------------------
\* startNtp, when it has not been tried for NtpRetry.
RequestNtp ==
    IF online /\ ~ClockValid
          /\ (~ntpStarted \/ Since(ntpStartMs, clockNow) >= NtpRetry)
    THEN ntpStarted' = TRUE /\ ntpStartMs' = clockNow
    ELSE UNCHANGED <<ntpStarted, ntpStartMs>>

\* The answer is read, which clears it.
TakesRequestForAnswer ==                             \* mutant
    IF ntpStarted'
    THEN source' = (IF ClockValid THEN "ntp" ELSE source) /\ answered' = FALSE
    ELSE UNCHANGED <<source, answered>>

NoticeNtp ==
    IF ntpStarted' /\ answered
    THEN source' = (IF ClockValid THEN "ntp" ELSE source) /\ answered' = FALSE
    ELSE UNCHANGED <<source, answered>>

\* synchronizeFromGps, with the SNTP task at work or not meanwhile: its answer
\* is overwritten and stays unread.
GpsSetsClock(fix, overtaken) ==
    /\ fix /\ ~ClockValid
    /\ clock' = "gps" /\ source' = "gps"
    /\ answered' = overtaken
    /\ ntpHeard' = (ntpHeard \/ overtaken)
    /\ overtaken => (ntpStarted' /\ online)

LeavesClock(fix) ==
    /\ ~fix \/ ClockValid
    /\ NoticeNtp
    /\ UNCHANGED <<clock, ntpHeard>>

\* TimeService::update
ClockPass(fix) ==
    /\ RequestNtp
    /\ \/ \E overtaken \in BOOLEAN : GpsSetsClock(fix, overtaken)
       \/ LeavesClock(fix)
    /\ clockPassMs' = clockNow
    /\ UNCHANGED <<clockNow, online, kept>>

ClockNext ==
    \/ ClockTick \/ NetworkChanges \/ NtpAnswers
    \/ \E clockKept \in BOOLEAN : DeviceBegins(clockKept)
    \/ \E fix \in BOOLEAN : ClockPass(fix)

ClockSpec == ClockInit /\ [][ClockNext]_clockVars

-----------------------------------------------------------------------------
\* Type invariant.
ClockTypeOK ==
    /\ {clockNow, ntpStartMs, clockPassMs} \subseteq Ticks
    /\ {online, answered, ntpStarted, kept, ntpHeard} \subseteq BOOLEAN
    /\ clock \in Setters /\ source \in Sources

\* The source the device names is the one that set its clock, up to an answer
\* of NTP it has not read yet; "ntp" may also be said of a clock kept over a
\* restart, and of one the GPS set in the moment NTP answered.
ClockHonest ==
    /\ NamedSource = "gps" => (clock = "gps" \/ answered)
    /\ NamedSource = "ntp" => (kept \/ ntpHeard)
    /\ ClockValid => source # "none" \/ answered
=============================================================================
