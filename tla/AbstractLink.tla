---------------------------- MODULE AbstractLink ----------------------------
(***************************************************************************)
(* What the models of the channels (RpcChannel, JavaChannel, GoRpc) take a *)
(* connection for: whole messages, in order and once, of which a suffix    *)
(* may be missing at the end.  Only a message that is too long for its     *)
(* receiver may be left out in between.                                    *)
(***************************************************************************)
EXTENDS Naturals, Sequences

CONSTANT Messages   \* what may be sent, each with its size

VARIABLES
  limit,        \* the longest message the receiver has to take
  sent,         \* messages sent
  received,     \* messages received
  taken         \* how many of sent have been received or refused

vars == <<limit, sent, received, taken>>

Init == limit \in Nat /\ sent = <<>> /\ received = <<>> /\ taken = 0

Send ==
  /\ \E m \in Messages : sent' = Append(sent, m)
  /\ UNCHANGED <<limit, received, taken>>

Receive ==
  /\ taken < Len(sent)
  /\ received' = Append(received, sent[taken + 1])
  /\ taken' = taken + 1
  /\ UNCHANGED <<limit, sent>>

Refuse ==
  /\ taken < Len(sent)
  /\ sent[taken + 1].size > limit
  /\ taken' = taken + 1
  /\ UNCHANGED <<limit, sent, received>>

Next == Send \/ Receive \/ Refuse

Spec == Init /\ [][Next]_vars
=============================================================================
