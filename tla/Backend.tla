------------------------------- MODULE Backend -------------------------------
(***************************************************************************)
(* The services of one backend process (backend/app/main.py starts them in *)
(* one event loop): how messages are taken from the broker (Ingestion), and *)
(* what the transactions of one device do to its connectivity              *)
(* (DeviceStatus), its trips (Trips) and its commands (CommandRows).       *)
(*                                                                         *)
(* The services write different columns, and those of the device row that  *)
(* one transaction writes together are committed together, so nothing one  *)
(* of them does enables or prevents a step of another; a behaviour follows *)
(* one service and the others rest.                                        *)
(***************************************************************************)
EXTENDS DeviceStatus, Ingestion, CommandRows, Trips

CONSTANT Services    \* those that are followed

ASSUME ServicesAssumption ==
    Services \subseteq {"status", "ingestion", "commands", "trips"}

VARIABLE service     \* the service that is followed

backendVars == <<service, vars, ingestVars, commandVars, tripVars>>

\* create_app and its lifespan.
BackendInit ==
    /\ service \in Services
    /\ Init /\ IngestInit /\ CommandInit /\ TripInit

\* What rests while a service is followed.
RestBut(s) ==
    /\ UNCHANGED service
    /\ s # "status" => UNCHANGED vars
    /\ s # "ingestion" => UNCHANGED ingestVars
    /\ s # "commands" => UNCHANGED commandVars
    /\ s # "trips" => UNCHANGED tripVars

ServiceNext(s) ==
    \/ s = "status" /\ Next
    \/ s = "ingestion" /\ IngestNext
    \/ s = "commands" /\ CommandNext
    \/ s = "trips" /\ TripNext

BackendNext == ServiceNext(service) /\ RestBut(service)

Runs(s, step) == service = s /\ step

\* The fairness of the services, as their modules state it.
StatusFairness ==
    /\ WF_vars(Runs("status", Tick))
    /\ WF_vars(Runs("status", ScanStarts))
    /\ WF_vars(Runs("status", ScanSkips \/ ScanMarks))
    /\ \A m \in Messages : WF_vars(Runs("status", LoadForMessage(m)))
    /\ \A t \in Transactions :
          /\ WF_vars(Runs("status", Find(t)))
          /\ SF_vars(Runs("status", Commit(t)))

IngestFairness ==
    /\ \A d \in Deliveries : WF_ingestVars(Runs("ingestion", Proceeds(d)))
    /\ WF_ingestVars(Runs("ingestion",
          \E d \in Deliveries, p \in Packets : OnMessage(p, d)))
    /\ WF_ingestVars(Runs("ingestion", Connects))
    /\ WF_ingestVars(Runs("ingestion", Disconnects))
    /\ WF_ingestVars(Runs("ingestion", Reconnects))

CommandFairness ==
    /\ WF_commandVars(Runs("commands", MaintenanceWakes))
    /\ \A t \in Dispatchers : WF_commandVars(Runs("commands", Dispatches(t)))
    /\ \A c \in Orders : WF_commandVars(Runs("commands", BecomesOverdue(c)))

TripFairness ==
    /\ \A m \in Points :
          /\ WF_tripVars(Runs("trips", ReadTrip(m)))
          /\ SF_tripVars(Runs("trips",
                \E jump \in BOOLEAN : CommitPoint(m, jump)))

BackendSpec ==
    /\ BackendInit /\ [][BackendNext]_backendVars
    /\ StatusFairness /\ IngestFairness /\ CommandFairness /\ TripFairness

-----------------------------------------------------------------------------
\* Type invariant, the services' together.
BackendTypeOK ==
    /\ service \in Services
    /\ TypeOK /\ IngestTypeOK /\ CommandTypeOK /\ TripTypeOK

\* Ingestion: every message the broker holds for the backend is taken in the
\* end, or a repair has left the backend without a connection.
TakenInTheEnd == service = "ingestion" => AllTaken
=============================================================================
