-------------------------- MODULE AbstractBalancer --------------------------
(***************************************************************************)
(* What the clients of the balancer are promised, without goroutines,      *)
(* queues, backends or new ids: a request that was read is kept, once,     *)
(* until its answer is delivered to the client that sent it, under the id  *)
(* the client gave it.  Answers come in any order.  Only what belongs to a *)
(* client that has gone may be dropped.                                    *)
(***************************************************************************)
EXTENDS Naturals, Sequences

CONSTANTS Clients, MaxRequests

VARIABLES
  sent,       \* sent[c]: requests read from client c, numbered by it from 1
  copies,     \* copies[r]: how many answers to r are still to come
  delivered,  \* delivered[c]: what c received
  gone        \* clients whose connection is down

vars == <<sent, copies, delivered, gone>>

AllRequests == UNION {{c} \X (1..MaxRequests[c]) : c \in Clients}

Init ==
  /\ sent = [c \in Clients |-> 0]
  /\ copies = [r \in AllRequests |-> 0]
  /\ delivered = [c \in Clients |-> <<>>]
  /\ gone = {}

Submit(c) ==
  /\ c \notin gone
  /\ sent[c] < MaxRequests[c]
  /\ sent' = [sent EXCEPT ![c] = @ + 1]
  /\ copies' = [copies EXCEPT ![<<c, sent[c] + 1>>] = 1]
  /\ UNCHANGED <<delivered, gone>>

Answer(r) ==
  /\ copies[r] = 1
  /\ r[1] \notin gone
  /\ copies' = [copies EXCEPT ![r] = 0]
  /\ delivered' = [delivered EXCEPT ![r[1]] = Append(@, [id |-> r[2], body |-> r])]
  /\ UNCHANGED <<sent, gone>>

Leave(c) ==
  /\ gone' = gone \cup {c}
  /\ UNCHANGED <<sent, copies, delivered>>

Drop(r) ==
  /\ r[1] \in gone
  /\ copies' = [copies EXCEPT ![r] = 0]
  /\ UNCHANGED <<sent, delivered, gone>>

Next ==
  \/ \E c \in Clients : Submit(c) \/ Leave(c)
  \/ \E r \in AllRequests : Answer(r) \/ Drop(r)

Spec == Init /\ [][Next]_vars
=============================================================================
