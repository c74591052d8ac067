----------------------------- MODULE MCMedian -----------------------------
(* Instances of Median for TLC. *)
EXTENDS Median
=============================================================================
