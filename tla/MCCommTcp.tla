------------------------------ MODULE MCCommTcp ------------------------------
(* CommTcp on a small instance. *)
EXTENDS CommTcp

CONSTANT s1

MCSenders == {s1}
==============================================================================
