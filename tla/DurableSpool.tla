---------------------------- MODULE DurableSpool ----------------------------
(***************************************************************************)
(* What the offline spool promises to the rest of the firmware, whatever   *)
(* happens to RAM: a bounded first-in first-out store of samples.  Samples *)
(* are named by the order in which they were produced, so the spool is a   *)
(* set of numbers: a new sample is above every sample ever stored, and the *)
(* only sample that may leave is the lowest one.  A power loss is a        *)
(* stuttering step.  README.md and docs/storage.md of the repository call  *)
(* this "FIFO, acotado, sobrevive reinicios".                              *)
(***************************************************************************)
EXTENDS Naturals, FiniteSets

CONSTANTS
    Capacity,        \* records the spool may hold, a positive number
    Samples          \* the samples, numbers in the order of production

VARIABLES
    spool,           \* samples held on stable storage
    stored           \* every sample ever stored

spoolVars == <<spool, stored>>

Init ==
    /\ spool = {}
    /\ stored = {}

\* A sample younger than every sample stored before it is made durable.
Store(s) ==
    /\ \A t \in stored : t < s
    /\ Cardinality(spool) < Capacity
    /\ spool' = spool \cup {s}
    /\ stored' = stored \cup {s}

\* The oldest sample leaves: acknowledged, evicted or expired.
RemoveOldest ==
    /\ \E s \in spool :
          /\ \A t \in spool : s <= t
          /\ spool' = spool \ {s}
    /\ UNCHANGED stored

Next == (\E s \in Samples : Store(s)) \/ RemoveOldest

Spec == Init /\ [][Next]_spoolVars
=============================================================================
