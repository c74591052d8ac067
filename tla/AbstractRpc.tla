---------------------------- MODULE AbstractRpc ----------------------------
(***************************************************************************)
(* What a caller of the stub is promised, without channels, ids or         *)
(* connections: a call is issued, its request is executed at most once by  *)
(* the service, and its done callback runs at most once, after the         *)
(* execution and with the answer to this very call.  A call may also stay  *)
(* unanswered for ever: onDisconnect is empty, so a lost connection ends   *)
(* no call.                                                                *)
(***************************************************************************)
EXTENDS Naturals, Sequences

CONSTANT Calls

VARIABLES
  status,   \* status[c]: "new", "issued" or "done"
  runs,     \* runs[c]: how often the service ran the request of c
  answers   \* answers[c]: what done was called with, in order

vars == <<status, runs, answers>>

Init ==
  /\ status  = [c \in Calls |-> "new"]
  /\ runs    = [c \in Calls |-> 0]
  /\ answers = [c \in Calls |-> <<>>]

(* The application invokes the stub. *)
Issue(c) ==
  /\ status[c] = "new"
  /\ status' = [status EXCEPT ![c] = "issued"]
  /\ UNCHANGED <<runs, answers>>

(* The service runs the request, at most once. *)
Execute(c) ==
  /\ status[c] = "issued"
  /\ runs[c] = 0
  /\ runs' = [runs EXCEPT ![c] = 1]
  /\ UNCHANGED <<status, answers>>

(* done runs with the answer to c. *)
Complete(c) ==
  /\ status[c] = "issued"
  /\ runs[c] = 1
  /\ status' = [status EXCEPT ![c] = "done"]
  /\ answers' = [answers EXCEPT ![c] = <<c>>]
  /\ UNCHANGED runs

Next == \E c \in Calls : Issue(c) \/ Execute(c) \/ Complete(c)

Spec == Init /\ [][Next]_vars
=============================================================================
