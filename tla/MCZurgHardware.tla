--------------------------- MODULE MCZurgHardware ---------------------------
(* Instances of ZurgHardware for TLC. *)
EXTENDS ZurgHardware
=============================================================================
