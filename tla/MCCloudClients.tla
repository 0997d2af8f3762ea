--------------------------- MODULE MCCloudClients ---------------------------
(* The two clients on two of the sockets of the chip.                       *)
EXTENDS CloudClients

MCSockets == [http |-> 1, mqtt |-> 2]
=============================================================================
