----------------------------- MODULE MCWordfreq -----------------------------
(* Instances of Wordfreq for TLC. *)
EXTENDS Wordfreq
=============================================================================
