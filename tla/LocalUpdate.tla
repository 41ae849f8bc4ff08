----------------------------- MODULE LocalUpdate -----------------------------
(***************************************************************************)
(* Firmware updates over the local access point: LocalOTAUpdater           *)
(* (src/src/web/LocalOTAUpdater.cpp), driven by LocalWebServer's           *)
(* handleClient and polled by its update.  The web server and the Update   *)
(* library are external: the server delivers an upload in pieces, may      *)
(* start another once it has ended, and may serve the POST handler with or *)
(* without a file; any call of the Update library may fail.                *)
(*                                                                         *)
(* While inProgress, AppController pauses storage, telemetry and acoustic  *)
(* messages.  Time wraps at Wrap, as millis() does at 2^32, and the        *)
(* restart time is compared as a signed difference.                        *)
(***************************************************************************)
EXTENDS Integers

CONSTANTS
    Wrap,            \* 2^32, in ticks
    RestartDelay,    \* 750 ms
    MaxStall,        \* bound: ticks between two passes of the loop
    MaxPosts         \* bound: accepted POSTs between two restarts

VARIABLES
    updateNow,       \* millis()
    uploading,       \* external: between UPLOAD_FILE_START and its end
    updateRunning,   \* external: Update.isRunning()
    bootSlot,        \* external: what the next boot would load
    inProgress,      \* _status.inProgress
    authorized,      \* _uploadAuthorized
    uploadError,     \* _uploadError
    finishedOk,      \* _uploadFinishedOk
    restartPending,  \* _restartPending
    restartAtMs,     \* _restartAtMs, of use while a restart is pending
    servedMs,        \* millis() of the last pass of the loop
    posts,           \* history: accepted POSTs since the last restart
    confirmed,       \* history: Update.end(true) succeeded since it
    booted           \* history: what the last restart loaded

flags == <<inProgress, authorized, uploadError, finishedOk>>
restart == <<restartPending, restartAtMs>>
updateVars == <<updateNow, uploading, updateRunning, bootSlot, inProgress,
                authorized, uploadError, finishedOk, restartPending,
                restartAtMs, servedMs, posts, confirmed, booted>>

Ticks == 0..(Wrap - 1)
Since(then, at) == (at - then) % Wrap         \* uint32_t subtraction
Reached(at) == Since(at, updateNow) < Wrap \div 2   \* int32_t(nowMs - at) >= 0

-----------------------------------------------------------------------------
FreshFlags ==
    /\ inProgress = FALSE /\ authorized = FALSE
    /\ uploadError = FALSE /\ finishedOk = FALSE
    /\ restartPending = FALSE /\ restartAtMs = 0

\* begin, with credentials in place.
UpdateInit ==
    /\ updateNow = 0 /\ servedMs = 0
    /\ uploading = FALSE /\ updateRunning = FALSE /\ bootSlot = "current"
    /\ FreshFlags
    /\ posts = 0 /\ confirmed = FALSE /\ booted = "current"

UpdateTick ==
    /\ Since(servedMs, updateNow) < MaxStall
    /\ updateNow' = (updateNow + 1) % Wrap
    /\ UNCHANGED <<uploading, updateRunning, bootSlot, flags, restart,
                   servedMs, posts, confirmed, booted>>

\* handleUpload, UPLOAD_FILE_START: the flag that pauses the rest is set before
\* Update.begin and stays when that fails.
UploadStarts(auth, isBin, begins) ==
    /\ ~uploading /\ uploading' = TRUE
    /\ authorized' = auth
    /\ finishedOk' = FALSE
    /\ inProgress' = (auth /\ isBin)
    /\ uploadError' = ~(auth /\ isBin /\ begins)
    /\ updateRunning' = (auth /\ isBin /\ begins)
    /\ UNCHANGED <<updateNow, bootSlot, restart, servedMs, posts, confirmed,
                   booted>>

\* UPLOAD_FILE_WRITE: a piece is written over what the slot held.
UploadWrites(auth, writes) ==
    /\ uploading
    /\ authorized' = (authorized /\ auth)
    /\ IF ~(authorized /\ auth) \/ uploadError
       THEN /\ uploadError' = TRUE /\ inProgress' = FALSE
            /\ updateRunning' = FALSE
            /\ UNCHANGED bootSlot
       ELSE /\ uploadError' = ~writes
            /\ bootSlot' = IF bootSlot = "current" THEN bootSlot ELSE "torn"
            /\ UNCHANGED <<inProgress, updateRunning>>
    /\ UNCHANGED <<updateNow, uploading, finishedOk, restart, servedMs, posts,
                   confirmed, booted>>

\* UPLOAD_FILE_END: Update.end(true) checks the image and makes it the one the
\* next boot loads.
ClearsOnlyOnSuccess(auth, ends) ==                   \* mutant
    LET accepted == authorized /\ auth /\ ~uploadError /\ ends IN
    /\ uploading /\ uploading' = FALSE
    /\ authorized' = (authorized /\ auth)
    /\ finishedOk' = (accepted \/ finishedOk)
    /\ uploadError' = IF authorized' /\ ~uploadError THEN ~ends ELSE uploadError
    /\ bootSlot' = IF accepted THEN "accepted" ELSE bootSlot
    /\ confirmed' = (confirmed \/ accepted)
    /\ updateRunning' = FALSE
    /\ inProgress' = (inProgress /\ ~accepted)
    /\ UNCHANGED <<updateNow, restart, servedMs, posts, booted>>

UploadEnds(auth, ends) ==
    LET accepted == authorized /\ auth /\ ~uploadError /\ ends IN
    /\ uploading /\ uploading' = FALSE
    /\ authorized' = (authorized /\ auth)
    /\ finishedOk' = (accepted \/ finishedOk)
    /\ uploadError' = IF authorized' /\ ~uploadError THEN ~ends ELSE uploadError
    /\ bootSlot' = IF accepted THEN "accepted" ELSE bootSlot
    /\ confirmed' = (confirmed \/ accepted)
    /\ updateRunning' = FALSE
    /\ inProgress' = FALSE
    /\ UNCHANGED <<updateNow, restart, servedMs, posts, booted>>

\* UPLOAD_FILE_ABORTED: the client went away.
UploadAborted ==
    /\ uploading /\ uploading' = FALSE
    /\ updateRunning' = FALSE
    /\ uploadError' = TRUE /\ finishedOk' = FALSE /\ inProgress' = FALSE
    /\ UNCHANGED <<updateNow, bootSlot, authorized, restart, servedMs, posts,
                   confirmed, booted>>

\* finishRequest, the handler of the POST.
AcceptsAnyway(auth) ==                               \* mutant
    /\ ~uploading /\ posts < MaxPosts
    /\ IF auth /\ ~uploadError
       THEN /\ restartPending' = TRUE
            /\ restartAtMs' = (updateNow + RestartDelay) % Wrap
            /\ posts' = posts + 1
       ELSE UNCHANGED <<restart, posts>>
    /\ UNCHANGED <<updateNow, uploading, updateRunning, bootSlot, flags,
                   servedMs, confirmed, booted>>

FinishRequest(auth) ==
    /\ ~uploading /\ posts < MaxPosts
    /\ IF auth /\ finishedOk /\ ~uploadError
       THEN /\ restartPending' = TRUE
            /\ restartAtMs' = (updateNow + RestartDelay) % Wrap
            /\ posts' = posts + 1
       ELSE UNCHANGED <<restart, posts>>
    /\ UNCHANGED <<updateNow, uploading, updateRunning, bootSlot, flags,
                   servedMs, confirmed, booted>>

-----------------------------------------------------------------------------
RestartDue == restartPending /\ Reached(restartAtMs)

\* A pass of the loop before the restart is due.
PassWithoutRestart ==
    /\ ~RestartDue
    /\ servedMs' = updateNow
    /\ UNCHANGED <<updateNow, uploading, updateRunning, bootSlot, flags,
                   restart, posts, confirmed, booted>>

\* update: ESP.restart.  The bootloader does not start a torn image; it goes
\* back to the one that ran before.
Restarts ==
    /\ RestartDue
    /\ booted' = bootSlot
    /\ bootSlot' = "current"
    /\ uploading' = FALSE /\ updateRunning' = FALSE
    /\ inProgress' = FALSE /\ authorized' = FALSE
    /\ uploadError' = FALSE /\ finishedOk' = FALSE
    /\ restartPending' = FALSE /\ restartAtMs' = 0
    /\ posts' = 0 /\ confirmed' = FALSE
    /\ servedMs' = updateNow
    /\ UNCHANGED updateNow

UpdateNext ==
    \/ UpdateTick
    \/ \E auth, isBin, begins \in BOOLEAN : UploadStarts(auth, isBin, begins)
    \/ \E auth, writes \in BOOLEAN : UploadWrites(auth, writes)
    \/ \E auth, ends \in BOOLEAN : UploadEnds(auth, ends)
    \/ UploadAborted
    \/ \E auth \in BOOLEAN : FinishRequest(auth)
    \/ PassWithoutRestart
    \/ Restarts

UpdateSpec == UpdateInit /\ [][UpdateNext]_updateVars

-----------------------------------------------------------------------------
\* Type invariant.
UpdateTypeOK ==
    /\ {updateNow, servedMs, restartAtMs} \subseteq Ticks
    /\ {uploading, updateRunning, inProgress, authorized, uploadError,
        finishedOk, restartPending, confirmed} \subseteq BOOLEAN
    /\ bootSlot \in {"current", "accepted", "torn"}
    /\ booted \in {"current", "accepted", "torn"}
    /\ posts \in 0..MaxPosts

\* Storage and telemetry are paused only between the start of an upload and
\* its end, however it ends, so they are never paused for good.
PauseIsUpload == inProgress => uploading

\* The device restarts only if Update.end(true) has accepted an image since it
\* last did, whatever uploads failed or were aborted and whatever POSTs came
\* without a file.
RestartNeedsImage ==
    [][booted' # booted \/ (restartPending /\ ~restartPending')
          => confirmed]_updateVars
=============================================================================
