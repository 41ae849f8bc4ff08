---------------------------- MODULE DeviceStatus ----------------------------
(***************************************************************************)
(* The connectivity of one device as the backend shows it: the row of the  *)
(* table devices, the connectivity alerts, the transactions of the         *)
(* messages of that device (backend/app/services/ingestion.py calls        *)
(* DeviceStatusService.mark) and the periodic scan of main.py's            *)
(* maintenance_loop (evaluate_stale_devices).                              *)
(*                                                                         *)
(* Transactions are coroutines of one event loop and suspend at every      *)
(* query.  The database runs at read committed, without row versions: a    *)
(* transaction sees what was committed before each of its queries, and its *)
(* UPDATE carries only the columns that differ from the row it had loaded. *)
(*                                                                         *)
(* Time is kept as ages: seen is the age of last_seen_at, and the age of a *)
(* transaction is the time since its received_at (the scan's utc_now()).   *)
(***************************************************************************)
EXTENDS Naturals, Sequences, FiniteSets

CONSTANTS
    Messages,        \* ingestions that may be under way at one time
    StaleAfter,      \* stale_after_seconds
    OfflineAfter,    \* offline_after_seconds
    MaxDelay,        \* bound: the longest a transaction takes
    Alerts           \* bound: numbers of the rows of active alerts

ASSUME StatusAssumption ==
    /\ StaleAfter \in Nat \ {0} /\ OfflineAfter \in Nat /\ StaleAfter <= OfflineAfter
    /\ MaxDelay \in Nat
    /\ IsFiniteSet(Messages) /\ "scan" \notin Messages
    /\ IsFiniteSet(Alerts) /\ Alerts \subseteq Nat \ {0}
    /\ Cardinality(Alerts) > 3 * (Cardinality(Messages) + 1)

VARIABLES
    status,          \* devices.status
    seen,            \* age of devices.last_seen_at, or Never
    active,          \* alerts of each type that are active or acknowledged
    tx,              \* the transactions
    fromScan         \* history: last_seen_at was written by the scan

vars == <<status, seen, active, tx, fromScan>>

Scan == "scan"
Transactions == Messages \cup {Scan}
States == {"unknown", "online", "stale", "offline", "reconnecting"}

\* States a message gives: telemetry and acoustic say online, a status
\* message one of status-v1, offline being the last will.
Reported == {"online", "reconnecting", "offline"}

Oldest == OfflineAfter + MaxDelay
Never == Oldest + 1
Older(age) == IF age < Oldest THEN age + 1 ELSE age

Kinds == {"device_offline", "telemetry_stale"}
Nothing == [k \in Kinds |-> {}]

\* step: "idle", "load" (the device is not read yet), "mark" (the device is
\* read; look is the lookups left, resolve and create what they led to).
Idle == [step |-> "idle", age |-> 0, state |-> "unknown", loaded |-> "unknown",
         look |-> <<>>, resolve |-> Nothing, create |-> {}]

-----------------------------------------------------------------------------
(* DeviceStatusService.mark                                                *)

\* Mutant: alerts are only looked at when the status changes.
LooksOnlyIfChanged(loaded, state) ==
    IF state = loaded THEN <<>> ELSE <<"device_offline", "telemetry_stale">>

\* The lookups of set_connectivity_alert: online asks for each type twice.
\* They are made whether or not the status changes.
Lookups(loaded, state) ==
    IF state = "online"
    THEN <<"device_offline", "telemetry_stale",
           "device_offline", "telemetry_stale">>
    ELSE <<"device_offline", "telemetry_stale">>

\* An alert type is due in exactly one state.
Due(k, state) == k = (CASE state = "offline" -> "device_offline"
                        [] state = "stale" -> "telemetry_stale"
                        [] OTHER -> "none")

\* Mutants: stale counts as a contact, reconnecting does not.
ContactUnlessOffline(state) == state # "offline"
ContactIfOnline(state) == state = "online"

\* The states that count as a contact and move last_seen_at.
Contact(state) == state \in {"online", "reconnecting"}

\* The state mark is called with, for the device just read.
Marking(t, state) ==
    tx' = [tx EXCEPT ![t].step = "mark",
                     ![t].state = state,
                     ![t].loaded = status,
                     ![t].look = Lookups(status, state)]

\* AlertService._condition: the newest alert of the type that is still open is
\* resolved, or observed once more; a due alert that is not there is new.  Of
\* several open alerts any may be the newest: triggered_at is not the order of
\* the commits.
Find(t) ==
    /\ tx[t].step = "mark" /\ tx[t].look # <<>>
    /\ LET k == Head(tx[t].look)
           rest == [tx[t] EXCEPT !.look = Tail(@)]
       IN  \/ /\ ~Due(k, tx[t].state) /\ active[k] # {}
              /\ \E a \in active[k] :
                    tx' = [tx EXCEPT ![t] = [rest EXCEPT !.resolve[k] = @ \cup {a}]]
           \/ /\ Due(k, tx[t].state) /\ active[k] = {}
              /\ tx' = [tx EXCEPT ![t] = [rest EXCEPT !.create = @ \cup {k}]]
           \/ /\ Due(k, tx[t].state) <=> active[k] # {}
              /\ tx' = [tx EXCEPT ![t] = rest]
    /\ UNCHANGED <<status, seen, active, fromScan>>

\* Numbers that name no open alert, and none that a transaction has in hand.
Fresh(k) ==
    Alerts \ (active[k] \cup UNION {tx[t].resolve[k] : t \in Transactions})

\* The commit: only a status that differs from the loaded one is written.
Commit(t) ==
    /\ tx[t].step = "mark" /\ tx[t].look = <<>>
    /\ status' = IF tx[t].state # tx[t].loaded THEN tx[t].state ELSE status
    /\ seen' = IF Contact(tx[t].state) THEN tx[t].age ELSE seen
    /\ \A k \in tx[t].create : Fresh(k) # {}
    /\ active' = [k \in Kinds |-> (active[k] \ tx[t].resolve[k])
                     \cup {a \in Fresh(k) : k \in tx[t].create
                                            /\ \A b \in Fresh(k) : a <= b}]
    /\ tx' = [tx EXCEPT ![t] = Idle]
    /\ fromScan' = IF Contact(tx[t].state) THEN t = Scan ELSE fromScan

\* The database refuses, in the commit or in a query before it: nothing of the
\* transaction remains.  A message is delivered again, the scan runs again.
Rollback(t) ==
    /\ tx[t].step = "mark" /\ tx[t].look = <<>>
    /\ tx' = [tx EXCEPT ![t] = Idle]
    /\ UNCHANGED <<status, seen, active, fromScan>>

-----------------------------------------------------------------------------
(* IngestionService.ingest                                                 *)

Receive(m) ==
    /\ tx[m].step = "idle"
    /\ \E state \in Reported :
          tx' = [tx EXCEPT ![m] = [Idle EXCEPT !.step = "load", !.state = state]]
    /\ UNCHANGED <<status, seen, active, fromScan>>

LoadForMessage(m) ==
    /\ tx[m].step = "load"
    /\ Marking(m, tx[m].state)
    /\ UNCHANGED <<status, seen, active, fromScan>>

-----------------------------------------------------------------------------
(* DeviceStatusService.evaluate_stale_devices                              *)

\* Time since last_seen_at at the scan's now.  A message may have committed
\* a later contact meanwhile, which makes the difference negative.
ScanAge == IF seen > tx[Scan].age THEN seen - tx[Scan].age ELSE 0

\* Mutant: the age is rounded up.
RoundsUp(age) == CASE age + 1 >= OfflineAfter -> "offline"
                   [] age + 1 >= StaleAfter /\ age + 1 < OfflineAfter -> "stale"
                   [] OTHER -> "online"

\* The status the age calls for.
Target(age) == CASE age >= OfflineAfter -> "offline"
                 [] age >= StaleAfter /\ age < OfflineAfter -> "stale"
                 [] OTHER -> "online"

ScanStarts ==
    /\ tx[Scan].step = "idle"
    /\ tx' = [tx EXCEPT ![Scan].step = "load"]
    /\ UNCHANGED <<status, seen, active, fromScan>>

\* A device that was never seen, or already shows its target, is skipped.
ScanSkips ==
    /\ tx[Scan].step = "load"
    /\ seen = Never \/ status = Target(ScanAge)
    /\ tx' = [tx EXCEPT ![Scan] = Idle]
    /\ UNCHANGED <<status, seen, active, fromScan>>

ScanMarks ==
    /\ tx[Scan].step = "load"
    /\ seen # Never /\ status # Target(ScanAge)
    /\ Marking(Scan, Target(ScanAge))
    /\ UNCHANGED <<status, seen, active, fromScan>>

-----------------------------------------------------------------------------
\* A unit of time; no transaction takes more than MaxDelay.
Tick ==
    /\ \A t \in Transactions : tx[t].step # "idle" => tx[t].age < MaxDelay
    /\ seen' = IF seen = Never THEN Never ELSE Older(seen)
    /\ tx' = [t \in Transactions |->
                 IF tx[t].step = "idle" THEN tx[t]
                                        ELSE [tx[t] EXCEPT !.age = @ + 1]]
    /\ UNCHANGED <<status, active, fromScan>>

Init ==
    /\ status = "unknown"
    /\ seen = Never /\ fromScan = FALSE
    /\ active = Nothing
    /\ tx = [t \in Transactions |-> Idle]

Next ==
    \/ \E m \in Messages : Receive(m) \/ LoadForMessage(m)
    \/ ScanStarts \/ ScanSkips \/ ScanMarks
    \/ \E t \in Transactions : Find(t) \/ Commit(t) \/ Rollback(t)
    \/ Tick

Spec == Init /\ [][Next]_vars

\* maintenance_loop scans for ever, clocks advance, a query is answered, and
\* the database does not refuse for ever.  No message has to come.
FairSpec ==
    /\ Spec
    /\ WF_vars(Tick)
    /\ WF_vars(ScanStarts)
    /\ WF_vars(ScanSkips \/ ScanMarks)
    /\ \A m \in Messages : WF_vars(LoadForMessage(m))
    /\ \A t \in Transactions : WF_vars(Find(t)) /\ SF_vars(Commit(t))

-----------------------------------------------------------------------------
\* The columns and the transactions have the values the code can give them, the
\* bound Alerts never stops a commit, and a device that was never seen is
\* unknown or was announced offline by its last will.
TypeOK ==
    /\ status \in States
    /\ seen = Never => status \in {"unknown", "offline"}
    /\ \A k \in Kinds : Fresh(k) # {}
    /\ seen \in 0..Never /\ fromScan \in BOOLEAN
    /\ active \in [Kinds -> SUBSET Alerts]
    /\ tx \in [Transactions ->
                  [step : {"idle", "load", "mark"}, age : 0..MaxDelay,
                   state : States, loaded : States, look : Seq(Kinds),
                   resolve : [Kinds -> SUBSET Alerts], create : SUBSET Kinds]]

\* last_seen_at is the time of a message of the device, never of a scan
\* (docs/architecture.md: "last_seen_at se actualiza con telemetria, acustica
\* y estado").
LastSeenIsContact == ~fromScan

Quiet == \A m \in Messages : tx[m].step = "idle"

\* A device that was heard once and then falls silent is shown offline in the
\* end, and stays so: overlapping transactions cannot leave it online.
SilenceShown == <>[]Quiet => <>[](seen = Never \/ status = "offline")

\* A device that keeps being heard, and announces nothing else, is shown
\* online in the end, whatever a scan with an older view wrote over it.
BackOnline ==
    <>[](seen < StaleAfter /\ \A m \in Messages : tx[m].state \in {"unknown", "online"})
        => <>[](status = "online")

OnlineCommitted(m) == tx[m].state = "online" /\ Commit(m)

\* Connectivity alerts do not outlive the outage: while the device stays
\* online and messages arrive, every one of them is resolved, also those that
\* two transactions opened at the same time.
AlertsClear ==
    (<>[](status = "online") /\ []<><<\E m \in Messages : OnlineCommitted(m)>>_vars)
        => <>[](active = Nothing)
=============================================================================
