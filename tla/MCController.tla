---------------------------- MODULE MCController ----------------------------
(* Instances for TLC of the two parts of the wordfreq controller: prepare   *)
(* (two workers, lists in both orders) and partition.h.  control.cc has no  *)
(* call between them yet, so each behaviour runs one of them.               *)
EXTENDS WordControlInstance, PartitionInstance, Sequences

CONSTANTS w1, w2

ASSUME ControlAssumption == ControlAssumed
ASSUME PartitionAssumption == PartitionAssumed

BothOrders == {<<w1, w2>>, <<w2, w1>>}

controlVars == <<peers, shard, linked, lost, stage, latch, client, clients, open, asked, infos,
                 workers, keyCount, maxKey>>
partitionVars == <<cnt, nWorkers, slots, nPivots, pivots, histogram, activity, result>>

(* One key, which is the only pivot. *)
PartitionEnded ==
  /\ cnt = <<1>> /\ nWorkers = 1 /\ slots = Slots /\ nPivots = 1
  /\ pivots = <<1>> /\ histogram = <<1>> /\ activity = "done" /\ result = <<1>>

ControllerEnded ==
  /\ peers = [w \in Addresses |-> <<w1, w2>>]
  /\ shard = [w \in Addresses |-> [keys |-> 1, max |-> 1]]
  /\ linked = [w \in Addresses |-> {}] /\ lost = [w \in Addresses |-> Addresses]
  /\ stage = "fatal"
  /\ latch = 1 /\ client = 1 /\ clients = <<>>
  /\ open = {} /\ asked = {} /\ infos = {} /\ workers = <<>>
  /\ keyCount = 0 /\ maxKey = 0

Init == (Control!Init /\ PartitionEnded) \/ (Pivots!Init /\ ControllerEnded)

Next ==
  \/ Control!Next /\ UNCHANGED partitionVars
  \/ Pivots!Next /\ UNCHANGED controlVars

FairSpec == Init /\ [][Next]_<<controlVars, partitionVars>> /\ Control!Fairness

(* control.cc: prepare does not hang; it is ready or has given up. *)
PrepareEnds == Control!PrepareEnds
=============================================================================
