----------------------------- MODULE MCZurgSlave -----------------------------
(* Instances of ZurgSlave for TLC. *)
EXTENDS ZurgSlave
=============================================================================
