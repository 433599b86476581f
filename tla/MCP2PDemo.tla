----------------------------- MODULE MCP2PDemo -----------------------------
(***************************************************************************)
(* Instances of P2PDemo: two servers, a device whose port is the public    *)
(* one or not, sequence numbers that may be 0.                             *)
(***************************************************************************)
EXTENDS P2PDemo

Opening(c, v) == [ch \in Channels |-> IF ch = "control" THEN c ELSE v]
SomeOpenings  == {Opening(7, 9), Opening(0, 9)}
=============================================================================
