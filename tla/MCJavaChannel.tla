--------------------------- MODULE MCJavaChannel ---------------------------
(* Instances of JavaChannel for TLC. *)
EXTENDS JavaChannel

CONSTANTS c1, c2

\* c1 is an ordinary call, anything may happen to c2.
OneIsPlain ==
  {f \in [{c1, c2} -> {"plain", "unknown", "null", "garbled"}] : f[c1] = "plain"}
=============================================================================
