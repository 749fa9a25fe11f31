------------------------------ MODULE MCCommUdp ------------------------------
(* CommUdp on a small instance. *)
EXTENDS CommUdp

CONSTANTS p1, p2, gnss

MCPeers == {p1, p2}
MCGnss == {gnss}
==============================================================================
