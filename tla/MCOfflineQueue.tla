--------------------------- MODULE MCOfflineQueue ---------------------------
(* Small instances of OfflineQueue for TLC. *)
EXTENDS OfflineQueue

OneSize == {1}
TwoSizes == {1, 2}
NoFaults == {}
WriteFaults == {"write"}
=============================================================================
