--------------------------- MODULE MCEdgeDelivery ---------------------------
EXTENDS EdgeDelivery

OneSize == {1}
NoFaults == {}
=============================================================================
