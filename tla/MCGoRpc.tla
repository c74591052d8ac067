----------------------------- MODULE MCGoRpc -----------------------------
(* Instances of GoRpc for TLC. *)
EXTENDS GoRpc
=============================================================================
