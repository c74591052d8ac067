----------------------------- MODULE MCBalancer -----------------------------
(* Instances of Balancer for TLC. *)
EXTENDS Balancer

CONSTANTS c1, c2

\* Both clients use the id 1; the output of c1 overflows in front of an answer to c2.
ThreeAndOne == [c \in {c1, c2} |-> IF c = c1 THEN 3 ELSE 1]
=============================================================================
