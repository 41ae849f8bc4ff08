----------------------------- MODULE SecureMqtt ------------------------------
(***************************************************************************)
(* SecureMqttClient (src/src/communication/SecureMqttClient.cpp), the two  *)
(* halves that are modelled apart: the life cycle of the connection        *)
(* (MqttSession) and the telemetry slot (TelemetryHandoff).                *)
(*                                                                         *)
(* They share _connected and nothing else.  The life cycle is the only one *)
(* to write it; the slot sees it change at any time (linked).  So a        *)
(* behaviour follows one half and the other rests.                         *)
(***************************************************************************)
EXTENDS MqttSession, TelemetryHandoff

CONSTANT Halves      \* those that are followed

ASSUME HalvesAssumption == Halves \subseteq {"session", "telemetry"}

VARIABLE half        \* the half that is followed

clientVars == <<half, vars, handoffVars>>

\* begin: the library's client is configured, nothing is sent yet.  A half
\* that rests stays as it begins, without a network.
ClientInit ==
    /\ half \in Halves
    /\ Init /\ (half # "session" => now = 0 /\ ~networkReady)
    /\ HandoffInit

ClientNext ==
    /\ UNCHANGED half
    /\ \/ half = "session" /\ Next /\ UNCHANGED handoffVars
       \/ half = "telemetry" /\ HandoffNext /\ UNCHANGED vars

\* The fairness of each half, as its module states it.
ClientSpec ==
    /\ ClientInit /\ [][ClientNext]_clientVars
    /\ half = "session" => SessionFairness
    /\ half = "telemetry" => HandoffFairness
=============================================================================
