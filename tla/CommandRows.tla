----------------------------- MODULE CommandRows -----------------------------
(***************************************************************************)
(* The commands of one device: create_command                              *)
(* (backend/app/api/v1/operations.py), dispatch_pending_commands           *)
(* (backend/app/services/commands.py), which requests and the maintenance  *)
(* loop run, and IngestionService._command_ack                             *)
(* (backend/app/services/ingestion.py).                                    *)
(*                                                                         *)
(* A dispatch publishes while its transaction is open: the device has the  *)
(* command before the row says so, and keeps it when the transaction is    *)
(* rolled back.  Transactions suspend at every query and run at read       *)
(* committed, without row versions or locks taken by a query.              *)
(***************************************************************************)
EXTENDS Naturals

CONSTANTS
    Orders,          \* the commands users ask for
    MaxRefusals      \* bound: transactions the database refuses

ASSUME CommandAssumption == MaxRefusals \in Nat

VARIABLES
    row,             \* the table commands
    overdue,         \* commands whose expires_at has passed
    mqttUp,          \* HiveMQService.connected
    dispatch,        \* the transactions that publish
    toDevice,        \* commands on their way to the device
    answers,         \* command-acks on their way to the backend
    acking,          \* what _command_ack loaded, "idle" when none runs
    refusals,        \* transactions refused so far
    consumed         \* history: commands with an answer the backend has taken

wire == <<toDevice, answers>>
commandVars == <<row, overdue, mqttUp, dispatch, toDevice, answers, acking,
                 refusals, consumed>>

\* One request for each command, and the maintenance loop.
Maintenance == "maintenance"
Dispatchers == Orders \cup {Maintenance}

RowStates == {"none", "queued", "published", "expired", "answered"}
NotThere == [state |-> "none", acked |-> FALSE]

\* A transaction: late are the commands its fixed now takes for expired, todo
\* the queued ones still to look at, writes the new state of those it changed.
NoWrites == [c \in Orders |-> "none"]
Closed == [step |-> "idle", late |-> {}, todo |-> {}, writes |-> NoWrites]

Refused ==
    /\ refusals < MaxRefusals
    /\ refusals' = refusals + 1

-----------------------------------------------------------------------------
(* dispatch_pending_commands                                               *)

\* create_command: the row is flushed, not committed, before the dispatch.
Create(c) ==
    /\ dispatch[c] = Closed /\ row[c].state = "none" /\ c \notin consumed
    /\ dispatch' = [dispatch EXCEPT ![c] =
                       [step |-> "select", late |-> overdue, todo |-> {},
                        writes |-> [NoWrites EXCEPT ![c] = "queued"]]]
    /\ UNCHANGED <<row, overdue, mqttUp, wire, acking, refusals, consumed>>

MaintenanceWakes ==
    /\ dispatch[Maintenance] = Closed
    /\ dispatch' = [dispatch EXCEPT ![Maintenance] =
                       [Closed EXCEPT !.step = "select", !.late = overdue]]
    /\ UNCHANGED <<row, overdue, mqttUp, wire, acking, refusals, consumed>>

\* The queued commands that are committed, and the request's own.
Select(t) ==
    /\ dispatch[t].step = "select"
    /\ dispatch' = [dispatch EXCEPT
                       ![t].step = "publish",
                       ![t].todo = {c \in Orders : row[c].state = "queued"
                                       \/ dispatch[t].writes[c] = "queued"}]
    /\ UNCHANGED <<row, overdue, mqttUp, wire, acking, refusals, consumed>>

\* Mutant: a command nobody could publish does not expire either.
NeverExpired(t, c) == FALSE

HasExpired(t, c) == c \in dispatch[t].late

\* One command of the list; created_at orders the list, which does not matter
\* to what is said here.
Dispatch(t, c) ==
    /\ dispatch[t].step = "publish" /\ c \in dispatch[t].todo
    /\ LET rest == [dispatch[t] EXCEPT !.todo = @ \ {c}]
       IN  \/ /\ HasExpired(t, c)
              /\ dispatch' = [dispatch EXCEPT ![t] =
                                 [rest EXCEPT !.writes[c] = "expired"]]
              /\ UNCHANGED toDevice
           \/ /\ ~HasExpired(t, c) /\ mqttUp
              /\ dispatch' = [dispatch EXCEPT ![t] =
                                 [rest EXCEPT !.writes[c] = "published"]]
              /\ toDevice' = toDevice \cup {c}
           \/ /\ ~HasExpired(t, c) /\ ~mqttUp
              /\ dispatch' = [dispatch EXCEPT ![t] = rest]
              /\ UNCHANGED toDevice
    /\ UNCHANGED <<row, overdue, mqttUp, answers, acking, refusals, consumed>>

\* The columns that were set are written, whatever the row holds by now.
CommitDispatch(t) ==
    /\ dispatch[t].step = "publish" /\ dispatch[t].todo = {}
    /\ row' = [c \in Orders |->
                 IF dispatch[t].writes[c] = "none" THEN row[c]
                 ELSE [row[c] EXCEPT !.state = dispatch[t].writes[c]]]
    /\ dispatch' = [dispatch EXCEPT ![t] = Closed]
    /\ UNCHANGED <<overdue, mqttUp, wire, acking, refusals, consumed>>

\* The database refuses; what was published stays published.
RollbackDispatch(t) ==
    /\ dispatch[t].step # "idle" /\ Refused
    /\ dispatch' = [dispatch EXCEPT ![t] = Closed]
    /\ UNCHANGED <<row, overdue, mqttUp, wire, acking, consumed>>

-----------------------------------------------------------------------------
(* The device and time                                                     *)

\* The firmware answers "unsupported" to every command it accepts.
DeviceAnswers(c) ==
    /\ c \in toDevice
    /\ toDevice' = toDevice \ {c} /\ answers' = answers \cup {c}
    /\ UNCHANGED <<row, overdue, mqttUp, dispatch, acking, refusals, consumed>>

DeviceIgnores(c) ==
    /\ c \in toDevice
    /\ toDevice' = toDevice \ {c}
    /\ UNCHANGED <<row, overdue, mqttUp, dispatch, answers, acking, refusals,
                   consumed>>

BecomesOverdue(c) ==
    /\ row[c].state # "none" /\ c \notin overdue
    /\ overdue' = overdue \cup {c}
    /\ UNCHANGED <<row, mqttUp, dispatch, wire, acking, refusals, consumed>>

MqttChanges ==
    /\ mqttUp' = ~mqttUp
    /\ UNCHANGED <<row, overdue, dispatch, wire, acking, refusals, consumed>>

-----------------------------------------------------------------------------
(* IngestionService._command_ack                                           *)

\* An answer without a row is a rejected message: it is not sent again.
AckUnmatched(c) ==
    /\ c \in answers /\ acking[c] = "idle"
    /\ row[c].state = "none"
    /\ answers' = answers \ {c} /\ consumed' = consumed \cup {c}
    /\ UNCHANGED <<row, overdue, mqttUp, dispatch, toDevice, acking, refusals>>

AckLoads(c) ==
    /\ c \in answers /\ acking[c] = "idle"
    /\ row[c].state # "none"
    /\ answers' = answers \ {c}
    /\ acking' = [acking EXCEPT ![c] = row[c].state]
    /\ UNCHANGED <<row, overdue, mqttUp, dispatch, toDevice, refusals, consumed>>

\* A state that is the one loaded is not written again.
AckCommits(c) ==
    /\ acking[c] # "idle"
    /\ row' = [row EXCEPT ![c] =
                 [state |-> IF acking[c] = "answered" THEN @.state ELSE "answered",
                  acked |-> TRUE]]
    /\ acking' = [acking EXCEPT ![c] = "idle"]
    /\ consumed' = consumed \cup {c}
    /\ UNCHANGED <<overdue, mqttUp, dispatch, wire, refusals>>

\* Refused: the broker sends the answer again.
AckFails(c) ==
    /\ acking[c] # "idle" /\ Refused
    /\ acking' = [acking EXCEPT ![c] = "idle"]
    /\ answers' = answers \cup {c}
    /\ UNCHANGED <<row, overdue, mqttUp, dispatch, toDevice, consumed>>

-----------------------------------------------------------------------------
CommandInit ==
    /\ row = [c \in Orders |-> NotThere]
    /\ overdue = {} /\ mqttUp = FALSE
    /\ dispatch = [t \in Dispatchers |-> Closed]
    /\ toDevice = {} /\ answers = {}
    /\ acking = [c \in Orders |-> "idle"]
    /\ refusals = 0
    /\ consumed = {}

Dispatches(t) ==
    \/ Select(t) \/ CommitDispatch(t)
    \/ \E c \in Orders : Dispatch(t, c)

CommandNext ==
    \/ \E t \in Dispatchers : Dispatches(t) \/ RollbackDispatch(t)
    \/ MaintenanceWakes \/ MqttChanges
    \/ \E c \in Orders :
          \/ Create(c) \/ BecomesOverdue(c)
          \/ DeviceAnswers(c) \/ DeviceIgnores(c)
          \/ AckUnmatched(c) \/ AckLoads(c) \/ AckCommits(c) \/ AckFails(c)

\* maintenance_loop wakes for ever, queries are answered, and time passes.
CommandSpec ==
    /\ CommandInit /\ [][CommandNext]_commandVars
    /\ WF_commandVars(MaintenanceWakes)
    /\ \A t \in Dispatchers : WF_commandVars(Dispatches(t))
    /\ \A c \in Orders : WF_commandVars(BecomesOverdue(c))

-----------------------------------------------------------------------------
CommandTypeOK ==
    /\ row \in [Orders -> [state : RowStates, acked : BOOLEAN]]
    /\ overdue \subseteq Orders /\ mqttUp \in BOOLEAN
    /\ dispatch \in [Dispatchers ->
                       [step : {"idle", "select", "publish"},
                        late : SUBSET Orders, todo : SUBSET Orders,
                        writes : [Orders -> RowStates]]]
    /\ toDevice \subseteq Orders /\ answers \subseteq Orders
    /\ acking \in [Orders -> {"idle"} \cup RowStates]
    /\ refusals \in 0..MaxRefusals /\ consumed \subseteq Orders

\* A command that is queued is published or expires in the end, also while
\* there is no connection to publish it on.
LeavesQueue == \A c \in Orders : row[c].state = "queued" ~> row[c].state # "queued"

\* Once no transaction is open, a command whose answer the backend has taken is
\* shown answered (docs/architecture.md: "El backend publica comandos
\* contractuales y registra sus ACK").
AnswerRecorded ==
    \A c \in consumed :
        (\A t \in Dispatchers : dispatch[t].step = "idle") /\ acking[c] = "idle"
            => row[c].state = "answered"
=============================================================================
