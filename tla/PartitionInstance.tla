------------------------- MODULE PartitionInstance --------------------------
(* Partition as its run and its proof use it, which stand beside those of  *)
(* WordControl and Median: activity is its phase.                          *)
EXTENDS Naturals

CONSTANTS Slots, MaxSlots, MaxKeys, KeyCounts, MaxWorkers

VARIABLES cnt, nWorkers, slots, nPivots, pivots, histogram, activity, result

Pivots == INSTANCE Partition WITH phase <- activity

(* 32 slots are fewer than the 1024 that are still doubled. *)
PartitionAssumed ==
  /\ MaxSlots \in Nat /\ Slots \in 1..MaxSlots
  /\ MaxKeys \in Nat /\ KeyCounts \subseteq Nat /\ MaxWorkers \in Nat

(* partition.h: the pivots are those that ShuffleKey accepts, and no       *)
(* worker gets more than its part and a slot.                              *)
PivotsRight == Pivots!PivotsRight
=============================================================================
