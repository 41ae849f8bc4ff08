---------------------------- MODULE OfflineQueue ----------------------------
(***************************************************************************)
(* OfflineTelemetryQueue (src/src/storage/OfflineTelemetryQueue.cpp): the  *)
(* durable spool of telemetry samples on the microSD card.  The card keeps *)
(* one file per record, named by the record's number; the object in RAM    *)
(* keeps an index of them (how many, the oldest number, the next number).  *)
(* Every method runs on the main loop, but a method that touches the card  *)
(* several times is several steps here (variable call), because power can  *)
(* be lost between two of them and each card operation can fail by itself. *)
(*                                                                         *)
(* Abstractions.  A payload is its sample number and a size; attempts is   *)
(* the only thing the code asks of it (attempts > 0); the interval timers  *)
(* (30 s between mounts, 1 s between expirations) are left to the          *)
(* scheduler; kFlagLastPublishReplayed, _status.replayed and               *)
(* _status.oldestAgeSeconds only feed reported statistics (the age is read *)
(* again from the card just before its only use) and are left out.         *)
(***************************************************************************)
EXTENDS Naturals, FiniteSets, FiniteSetsExt

CONSTANTS
    MaxRecordId,     \* OfflineQueuePolicy::RECORD_ID_MASK
    MaxRecords,      \* OFFLINE_QUEUE_MAX_RECORDS
    MaxBytes,        \* OFFLINE_QUEUE_MAX_BYTES
    MaxAge,          \* OFFLINE_QUEUE_MAX_AGE_SECONDS
    Sizes,           \* sizes of a record (header and payload)
    FaultKinds,      \* card operations that may fail
    CounterSpan,     \* values of a uint32_t statistics counter
    MaxSamples,      \* bound: samples produced
    MaxBoots,        \* bound: boots of the device
    MaxEpoch,        \* bound: wall-clock time
    NoFile           \* a record number without a file

ASSUME QueueAssumption ==
    /\ MaxRecordId \in Nat \ {0}
    /\ MaxRecords \in Nat \ {0}
    /\ MaxBytes \in Nat
    /\ MaxAge \in Nat
    /\ Sizes \subseteq 1..MaxBytes
    /\ FaultKinds \subseteq {"read", "write", "rewrite", "remove", "dir", "corrupt"}
    /\ CounterSpan \in Nat \ {0}
    /\ MaxSamples \in Nat
    /\ MaxBoots \in Nat \ {0}
    /\ MaxEpoch \in Nat \ {0}

Ids == 1..MaxRecordId

\* QueueRecordHeader and the payload it announces.  integrity "payload" is a
\* checksum mismatch, "header" a magic, version, number or length mismatch.
Record == [sample : 1..MaxSamples, size : Sizes, stamp : 0..MaxEpoch,
           boot : 1..MaxBoots, deferred : BOOLEAN, attempted : BOOLEAN,
           integrity : {"ok", "payload", "header"}]

ASSUME NoFileAssumption == NoFile \notin Record

VARIABLES
    card,            \* the files q_<id>.msg in /spool
    tmp,             \* /spool/tmp.msg
    storageReady,    \* MicroSDLogger::isReady(), as the main loop sees it
    boot,            \* the boot counter DeviceIdentity keeps in NVS
    epoch,           \* wall-clock seconds
    timeValid,       \* TimeService has a valid UTC time in this boot
    ready,           \* _status.ready
    queued,          \* _status.queued
    bytes,           \* _status.bytes
    dropped,         \* _status.dropped
    bootId,          \* _currentBootId
    next,            \* _nextRecordId
    oldest,          \* _oldestRecordId
    call,            \* the method in progress and its arguments
    produced,        \* history: samples produced so far
    accepted,        \* history: samples for which enqueue returned true
    acked,           \* history: records removed by acknowledge
    droppedBefore,   \* history: what dropped counted in earlier boots
    attempted        \* history: samples handed on for publication

media == <<card, tmp>>
index == <<queued, bytes, next, oldest>>
clocks == <<epoch, timeValid>>
history == <<produced, accepted, acked, droppedBefore, attempted>>
vars == <<card, tmp, storageReady, boot, epoch, timeValid, ready, queued,
          bytes, dropped, bootId, next, oldest, call, history>>

-----------------------------------------------------------------------------
Files == {id \in Ids : card[id] # NoFile}

\* The record to serve first among the files S, zero if there is none.
YoungestOf(S) == IF S = {} THEN 0 ELSE Max(S)        \* mutant
OldestOf(S) == IF S = {} THEN 0 ELSE Min(S)

\* The number after the files S.
NextAfter(S) == IF S = {} THEN 1 ELSE Max(S) + 1

TotalSize(S) == MapThenSumSet(LAMBDA id : card[id].size, S)

\* _status.dropped after n more records were given up.
Count(n) == (dropped + n) % CounterSpan

\* Outcomes a card operation may have.
Works(kind) == IF kind \in FaultKinds THEN BOOLEAN ELSE {TRUE}

\* TimeService::epochSeconds: zero until the time is known.
Now == IF timeValid THEN epoch ELSE 0

\* OfflineQueuePolicy::ageSeconds
AgeSeconds(stamp) ==
    IF stamp = 0 \/ Now <= stamp THEN 0 ELSE Now - stamp

\* OfflineQueuePolicy::exceedsLimits
ExceedsLimitsByOne(size) ==                          \* mutant
    queued > MaxRecords \/ bytes + size > MaxBytes
ExceedsLimits(size) == queued >= MaxRecords \/ bytes + size > MaxBytes

\* OfflineQueuePolicy::shouldMarkReplayed
IgnoresAttempts(r) == r.deferred \/ r.boot # bootId  \* mutant
ShouldMarkReplayed(r) == r.deferred \/ r.attempted \/ r.boot # bootId

Call(op, sample, size, deferred, id, replayed) ==
    [op |-> op, sample |-> sample, size |-> size, deferred |-> deferred,
     id |-> id, replayed |-> replayed]
Idle == Call("idle", 0, 0, FALSE, 0, FALSE)
Booting == Call("boot", 0, 0, FALSE, 0, FALSE)
Expiring == Call("expire", 0, 0, FALSE, 0, FALSE)

-----------------------------------------------------------------------------
(* removeOldest: the file, then the index.  It fails when nothing is       *)
(* indexed, when SD.remove fails, or when findOldest cannot read /spool.   *)

Removable == oldest # 0 /\ queued # 0 /\ card[oldest] # NoFile

\* bytes after a removal; a file whose size could not be read counts nothing.
BytesLeft(sizeRead) ==
    LET size == IF sizeRead THEN card[oldest].size ELSE 0
    IN  IF size <= bytes THEN bytes - size ELSE 0

\* Numbering restarts when the spool empties.
AlwaysRestarts == 1                                  \* mutant
NextLeft == IF queued = 1 THEN 1 ELSE next

Unlink(dirOk, sizeRead) ==
    /\ card' = [card EXCEPT ![oldest] = NoFile]
    /\ queued' = queued - 1
    /\ bytes' = BytesLeft(sizeRead)
    /\ next' = NextLeft
    /\ oldest' = IF queued = 1 \/ ~dirOk THEN 0 ELSE OldestOf(Files \ {oldest})
    /\ UNCHANGED tmp

Unlinked == queued' = 0 \/ oldest' # 0

UncountedInvalid(S) == 0                             \* mutant
Counted(S) == Cardinality(S)

\* scanRecords once /spool is open: unreadable and malformed files are
\* removed and counted, the others are indexed.
Scan ==
    \E unread \in IF "read" \in FaultKinds THEN SUBSET Files ELSE {{}} :
      LET invalid == {id \in Files : card[id].integrity = "header"} \cup unread
          valid == Files \ invalid
      IN  \E kept \in IF "remove" \in FaultKinds THEN SUBSET invalid ELSE {{}} :
            /\ card' = [id \in Ids |->
                          IF id \in invalid \ kept THEN NoFile ELSE card[id]]
            /\ queued' = Cardinality(valid)
            /\ bytes' = TotalSize(valid)
            /\ oldest' = OldestOf(valid)
            /\ next' = NextAfter(valid)
            /\ dropped' = Count(Counted(invalid))
            /\ ready' = (NextAfter(valid) <= MaxRecordId)

\* begin(id): needs a boot number and a card; clears tmp.msg, then scans.
Begin(id) ==
    /\ bootId' = id
    /\ \/ /\ id = 0 \/ ~storageReady \/ "dir" \in FaultKinds
          /\ ready' = FALSE
          /\ UNCHANGED <<media, index, dropped>>
       \/ /\ id # 0 /\ storageReady
          /\ tmp' = NoFile
          /\ \/ Scan
             \/ /\ "dir" \in FaultKinds
                /\ ready' = FALSE
                /\ queued' = 0 /\ bytes' = 0 /\ oldest' = 0 /\ next' = 1
                /\ UNCHANGED <<card, dropped>>
    /\ call' = Idle
    /\ UNCHANGED <<storageReady, boot, clocks, history>>

\* AppController::begin starts the queue only if the card mounted at boot.
BeginAtBoot ==
    /\ call = Booting
    /\ IF storageReady
         THEN Begin(boot)
         ELSE /\ call' = Idle
              /\ UNCHANGED <<media, storageReady, boot, clocks, ready, index,
                             dropped, bootId, history>>

-----------------------------------------------------------------------------
(* update                                                                  *)

\* update with the card gone.
UpdateUnavailable ==
    /\ call = Idle
    /\ ~storageReady
    /\ ready' = FALSE
    /\ UNCHANGED <<media, storageReady, boot, clocks, index, dropped, bootId,
                   call, history>>

\* update, not ready, SD_RETRY_INTERVAL_MS after the last attempt.
UpdateRetry ==
    /\ call = Idle
    /\ storageReady
    /\ ~ready
    /\ Begin(bootId)

\* The age is read without looking at the magic: what is left of a damaged
\* header may give any age once the time is known.
Damaged == card[oldest].integrity = "header"

Expired ==
    /\ queued > 0 /\ oldest # 0
    /\ card[oldest] # NoFile
    /\ AgeSeconds(card[oldest].stamp) > MaxAge \/ (Damaged /\ timeValid)

\* A header that cannot be read has age zero.
StillYoung == Expired => "read" \in FaultKinds \/ Damaged

\* One turn of the expiry loop.
ExpireOldest ==
    /\ call = Expiring \/ (call = Idle /\ storageReady /\ ready)
    /\ Expired
    /\ \E removed \in Works("remove"), dirOk \in Works("dir"),
          sizeRead \in Works("read") :
         \/ /\ removed
            /\ Unlink(dirOk, sizeRead)
            /\ dropped' = Count(1)
            /\ ready' = Unlinked
            /\ call' = IF Unlinked THEN Expiring ELSE Idle
         \/ /\ ~removed
            /\ ready' = FALSE
            /\ call' = Idle
            /\ UNCHANGED <<media, index, dropped>>
    /\ UNCHANGED <<storageReady, boot, clocks, bootId, history>>

ExpireDone ==
    /\ call = Expiring
    /\ StillYoung
    /\ call' = Idle
    /\ UNCHANGED <<media, storageReady, boot, clocks, ready, index, dropped,
                   bootId, history>>

-----------------------------------------------------------------------------
(* enqueue: make room, write tmp.msg, rename it to the record's name.      *)

EnqueueStart(size, deferred) ==
    /\ call = Idle
    /\ produced < MaxSamples
    /\ produced' = produced + 1
    /\ IF ready /\ next <= MaxRecordId
         THEN call' = Call("evict", produced + 1, size, deferred, 0, FALSE)
         ELSE UNCHANGED call
    /\ UNCHANGED <<media, storageReady, boot, clocks, ready, index, dropped,
                   bootId, accepted, acked, droppedBefore, attempted>>

\* One turn of ensureCapacity's loop; a failed removal refuses the sample.
EvictOldest ==
    /\ call.op = "evict"
    /\ queued > 0 /\ ExceedsLimits(call.size)
    /\ \E removed \in Works("remove"), dirOk \in Works("dir"),
          sizeRead \in Works("read") :
         \/ /\ Removable /\ removed
            /\ Unlink(dirOk, sizeRead)
            /\ dropped' = Count(IF Unlinked THEN 1 ELSE 2)
            /\ call' = IF Unlinked THEN call ELSE Idle
         \/ /\ ~(Removable /\ removed)
            /\ dropped' = Count(1)
            /\ call' = Idle
            /\ UNCHANGED <<media, index>>
    /\ UNCHANGED <<storageReady, boot, clocks, ready, bootId, history>>

EvictDone ==
    /\ call.op = "evict"
    /\ \/ /\ ~ExceedsLimits(call.size)
          /\ call' = [call EXCEPT !.op = "write"]
          /\ UNCHANGED dropped
       \/ /\ ExceedsLimits(call.size) /\ queued = 0
          /\ call' = Idle
          /\ dropped' = Count(1)
    /\ UNCHANGED <<media, storageReady, boot, clocks, ready, index, bootId,
                   history>>

NewRecord(integrity) ==
    [sample |-> call.sample, size |-> call.size, stamp |-> Now,
     boot |-> bootId, deferred |-> call.deferred, attempted |-> FALSE,
     integrity |-> integrity]

\* setUnavailable after a failed card operation, removing tmp.msg if possible.
EnqueueFailed(left) ==
    /\ tmp' \in {NoFile} \cup (IF "remove" \in FaultKinds THEN {left} ELSE {})
    /\ ready' = FALSE
    /\ call' = Idle
    /\ UNCHANGED <<card, index, accepted>>

\* A mutant: the lengths the two writes return are not compared.
WriteUnchecked ==
    /\ call.op = "write"
    /\ \E written \in Works("write") :
         tmp' = NewRecord(IF written THEN "ok" ELSE "payload")
    /\ call' = [call EXCEPT !.op = "rename"]
    /\ UNCHANGED <<card, ready, index, accepted>>
    /\ UNCHANGED <<storageReady, boot, clocks, dropped, bootId, produced,
                   acked, droppedBefore, attempted>>

WriteTemporary ==
    /\ call.op = "write"
    /\ \E written \in Works("write") :
         IF written
           THEN /\ tmp' = NewRecord("ok")
                /\ call' = [call EXCEPT !.op = "rename"]
                /\ UNCHANGED <<card, ready, index, accepted>>
           ELSE EnqueueFailed(NewRecord("payload"))
    /\ UNCHANGED <<storageReady, boot, clocks, dropped, bootId, produced,
                   acked, droppedBefore, attempted>>

\* SD.rename refuses a name that exists.
RenameToRecord ==
    /\ call.op = "rename"
    /\ \E renamed \in Works("write") :
         IF renamed /\ card[next] = NoFile
           THEN /\ card' = [card EXCEPT ![next] = tmp]
                /\ tmp' = NoFile
                /\ oldest' = IF queued = 0 THEN next ELSE oldest
                /\ queued' = queued + 1
                /\ bytes' = bytes + call.size
                /\ next' = next + 1
                /\ accepted' = accepted \cup {call.sample}
                /\ call' = Idle
                /\ UNCHANGED ready
           ELSE EnqueueFailed(tmp)
    /\ UNCHANGED <<storageReady, boot, clocks, dropped, bootId, produced,
                   acked, droppedBefore, attempted>>

-----------------------------------------------------------------------------
(* peek, markAttempted, acknowledge                                        *)

\* peek: a record that cannot be read or verified is dropped; otherwise the
\* caller goes on to markAttempted with what peek returned.
Peek ==
    /\ call = Idle
    /\ ready /\ queued > 0 /\ oldest # 0
    /\ \/ /\ card[oldest] # NoFile
          /\ card[oldest].integrity = "ok"
          /\ call' = Call("peeked", card[oldest].sample, 0, FALSE, oldest,
                          ShouldMarkReplayed(card[oldest]))
          /\ UNCHANGED <<media, index, dropped>>
       \/ /\ \/ card[oldest] = NoFile
             \/ card[oldest].integrity # "ok"
             \/ "read" \in FaultKinds
          /\ \E removed \in Works("remove"), dirOk \in Works("dir"),
                sizeRead \in Works("read") :
               \/ /\ Removable /\ removed
                  /\ Unlink(dirOk, sizeRead)
                  /\ dropped' = Count(1)
               \/ /\ ~(Removable /\ removed)
                  /\ UNCHANGED <<media, index, dropped>>
          /\ UNCHANGED call
    /\ UNCHANGED <<storageReady, boot, clocks, ready, bootId, history>>

\* markAttempted rewrites the header in place; only then does the caller
\* publish.
MarkAttempted ==
    /\ call.op = "peeked"
    /\ call' = Idle
    /\ card[call.id] # NoFile /\ card[call.id].integrity # "header"
    /\ card' = [card EXCEPT ![call.id].attempted = TRUE]
    /\ attempted' = attempted \cup {call.sample}
    /\ UNCHANGED <<tmp, storageReady, boot, clocks, ready, index, dropped,
                   bootId, produced, accepted, acked, droppedBefore>>

\* The header cannot be read, or the write fails and may leave it torn.
MarkFails ==
    /\ call.op = "peeked"
    /\ call' = Idle
    /\ \/ /\ \/ FaultKinds \cap {"read", "rewrite"} # {}
             \/ card[call.id] = NoFile \/ card[call.id].integrity = "header"
          /\ UNCHANGED card
       \/ /\ "rewrite" \in FaultKinds /\ card[call.id] # NoFile
          /\ card' = [card EXCEPT ![call.id].integrity = "header"]
    /\ UNCHANGED <<tmp, storageReady, boot, clocks, ready, index, dropped,
                   bootId, produced, accepted, acked, droppedBefore, attempted>>

\* acknowledge(id): only the oldest record can be acknowledged.
Acknowledge(id) ==
    /\ call = Idle
    /\ ready
    /\ id = oldest
    /\ Removable
    /\ \E dirOk \in Works("dir"), sizeRead \in Works("read") :
          Unlink(dirOk, sizeRead)
    /\ acked' = acked + 1
    /\ UNCHANGED <<storageReady, boot, clocks, ready, dropped, bootId, call,
                   produced, accepted, droppedBefore, attempted>>

-----------------------------------------------------------------------------
(* Surroundings                                                            *)

\* Power loss at any point: RAM is gone, the card is what it was.  A write
\* that was under way leaves part of tmp.msg.
PowerLoss ==
    /\ boot < MaxBoots
    /\ boot' = boot + 1
    /\ storageReady' \in BOOLEAN
    /\ timeValid' = FALSE
    /\ \/ UNCHANGED tmp
       \/ call.op = "write" /\ tmp' = NewRecord("payload")
    /\ ready' = FALSE
    /\ queued' = 0 /\ bytes' = 0 /\ next' = 1 /\ oldest' = 0
    /\ dropped' = 0 /\ droppedBefore' = (droppedBefore + dropped) % CounterSpan
    /\ bootId' = 0
    /\ call' = Booting
    /\ UNCHANGED <<card, epoch, produced, accepted, acked, attempted>>

\* MicroSDLogger::update mounts the card or notices that it is gone.
StorageChanges ==
    /\ call = Idle
    /\ storageReady' = ~storageReady
    /\ UNCHANGED <<media, boot, clocks, ready, index, dropped, bootId, call,
                   history>>

\* Time passes, or TimeService becomes valid.
TimePasses ==
    /\ call = Idle
    /\ \/ epoch < MaxEpoch /\ epoch' = epoch + 1 /\ UNCHANGED timeValid
       \/ ~timeValid /\ timeValid' = TRUE /\ UNCHANGED epoch
    /\ UNCHANGED <<media, storageReady, boot, ready, index, dropped, bootId,
                   call, history>>

\* Bit rot of one stored record.
Corrupt ==
    /\ "corrupt" \in FaultKinds
    /\ \E id \in Files, damage \in {"payload", "header"} :
         /\ card[id].integrity = "ok"
         /\ card' = [card EXCEPT ![id].integrity = damage]
    /\ UNCHANGED <<tmp, storageReady, boot, clocks, ready, index, dropped,
                   bootId, call, history>>

-----------------------------------------------------------------------------
Init ==
    /\ card = [id \in Ids |-> NoFile]
    /\ tmp = NoFile
    /\ storageReady \in BOOLEAN
    /\ boot = 1
    /\ epoch = 1 /\ timeValid = FALSE
    /\ ready = FALSE
    /\ queued = 0 /\ bytes = 0 /\ dropped = 0
    /\ bootId = 0
    /\ next = 1 /\ oldest = 0
    /\ call = Booting
    /\ produced = 0 /\ accepted = {} /\ acked = 0
    /\ droppedBefore = 0 /\ attempted = {}

\* The steps of the device's own program, which its loop keeps taking.
LoopStep ==
    \/ BeginAtBoot
    \/ UpdateUnavailable \/ UpdateRetry \/ ExpireOldest \/ ExpireDone
    \/ EvictOldest \/ EvictDone \/ WriteTemporary \/ RenameToRecord
    \/ MarkAttempted \/ MarkFails

Next ==
    \/ LoopStep
    \/ \E size \in Sizes, deferred \in BOOLEAN : EnqueueStart(size, deferred)
    \/ Peek
    \/ \E id \in Ids : Acknowledge(id)
    \/ PowerLoss \/ StorageChanges \/ TimePasses \/ Corrupt

Spec == Init /\ [][Next]_vars

FairSpec == Spec /\ WF_vars(LoopStep)

-----------------------------------------------------------------------------
(* What the queue must guarantee                                           *)

Operations == {"idle", "boot", "expire", "evict", "write", "rename", "peeked"}

\* Every variable has the values the fields of the class and of the record
\* header can hold; a spool that is ready belongs to a boot.
TypeOK ==
    /\ card \in [Ids -> Record \cup {NoFile}]
    /\ tmp \in Record \cup {NoFile}
    /\ storageReady \in BOOLEAN /\ timeValid \in BOOLEAN /\ ready \in BOOLEAN
    /\ boot \in 1..MaxBoots
    /\ epoch \in 1..MaxEpoch
    /\ queued \in Nat /\ bytes \in Nat /\ dropped \in 0..(CounterSpan - 1)
    /\ bootId \in {0, boot}
    /\ next \in 1..(MaxRecordId + 1)
    /\ oldest \in 0..MaxRecordId
    /\ call \in [op : Operations, sample : 0..MaxSamples, size : Sizes \cup {0},
                 deferred : BOOLEAN, id : 0..MaxRecordId, replayed : BOOLEAN]
    /\ produced \in 0..MaxSamples
    /\ accepted \subseteq 1..MaxSamples /\ attempted \subseteq 1..MaxSamples
    /\ acked \in Nat /\ droppedBefore \in 0..(CounterSpan - 1)

\* What a call in progress may rely on: enqueue holds the newest sample and a
\* free number, and its temporary file is that sample; peek's record is still
\* there for markAttempted.
CallOK ==
    /\ ready => bootId = boot
    /\ call.op = "expire" => ready
    /\ call.op \in {"evict", "write", "rename"} =>
          /\ ready /\ next <= MaxRecordId
          /\ call.sample = produced /\ produced > 0 /\ call.size \in Sizes
    /\ call.op = "rename" =>
          /\ tmp \in Record /\ tmp.sample = produced /\ ~tmp.attempted
          /\ tmp.integrity = "ok"
    /\ call.op = "peeked" =>
          /\ call.id \in Ids /\ card[call.id] # NoFile
          /\ card[call.id].sample = call.sample

\* The samples enqueue has been through are below the one it holds.
Settled == IF call.op \in {"evict", "write", "rename"} THEN produced - 1
                                                     ELSE produced

\* One record per sample; a sample handed on for publication has its attempt
\* written in its record.
SamplesOK ==
    /\ attempted \subseteq 1..Settled
    /\ accepted \subseteq 1..Settled
    /\ \A id \in Files :
          /\ card[id].sample \in 1..Settled
          /\ card[id].sample \in attempted => card[id].attempted
    /\ \A i, j \in Files : card[i].sample = card[j].sample => i = j

\* The index in RAM agrees with the card whenever the spool is in use: the
\* count, the size, the oldest number, and a next number above every file.
IndexMatchesCard ==
    ready =>
        /\ queued = Cardinality(Files)
        /\ bytes = TotalSize(Files)
        /\ oldest = OldestOf(Files)
        /\ \A id \in Files : id < next

\* The limits hold for the card itself, in every boot.
WithinLimits ==
    /\ Cardinality(Files) <= MaxRecords
    /\ TotalSize(Files) <= MaxBytes

\* A sample handed on for publication before, in this boot or an earlier one,
\* is never offered again as a first delivery.
ReplayFlagHonest ==
    call.op = "peeked" /\ call.sample \in attempted => call.replayed

\* No record on the card is partial: power loss and failed writes only ever
\* leave tmp.msg behind.
NoTornRecord == \A id \in Files : card[id].integrity = "ok"

\* Every sample enqueue took is on the card, was removed by an
\* acknowledgement, or is counted in dropped.
Conservation ==
    Cardinality(accepted) % CounterSpan =
        (Cardinality(Files) + acked + droppedBefore + dropped) % CounterSpan

\* An unusable spool is mounted again once the card is there: docs/storage.md
\* says that mounting and the spool are retried periodically.
SpoolComesBack == storageReady ~> (ready \/ ~storageReady)

\* The card behaves as a bounded FIFO store of samples.
Spool == INSTANCE DurableSpool WITH
            Capacity <- MaxRecords,
            Samples <- 1..MaxSamples,
            spool <- {card[id].sample : id \in Files},
            stored <- accepted
ImplementsSpool == Spool!Spec
=============================================================================
