------------------------------ MODULE MCBackend ------------------------------
(* Two messages with one sample, which the device sent twice, and one that *)
(* breaks the contract. *)
EXTENDS Backend

CONSTANTS first, again, malformed

SomePackets == {first, again, malformed}
SomeSamples == [p \in SomePackets |-> IF p = malformed THEN 2 ELSE 1]
SomeRejected == {malformed}
=============================================================================
