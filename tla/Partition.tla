----------------------------- MODULE Partition -----------------------------
(***************************************************************************)
(* examples/wordfreq/partition.h: the pivots that split the keys evenly    *)
(* between the workers, found by asking for histograms over a growing      *)
(* number of slots.  getHist is the caller's; it counts for each pivot the *)
(* keys it is the lower bound of.                                          *)
(*                                                                         *)
(* The keys are given by cnt: cnt[k] keys are k.  A failed assertion ends  *)
(* the program in the phase "assert".                                      *)
(***************************************************************************)
EXTENDS Naturals, Sequences

CONSTANTS
  Slots,       \* slotsPerWorker at the start, 32
  MaxSlots,    \* slotsPerWorker that is still doubled, 1024
  MaxKeys,     \* bound: the greatest key
  KeyCounts,   \* bound: how many keys of one value there may be
  MaxWorkers   \* bound: workers

VARIABLES
  cnt,         \* the keys
  nWorkers,
  slots,       \* slotsPerWorker
  nPivots,
  pivots,
  histogram,
  phase,       \* "pivots", "histogram", "split", "done" or "assert"
  result

vars == <<cnt, nWorkers, slots, nPivots, pivots, histogram, phase, result>>

(* partial_sum: the sum of the first i elements of s for each i. *)
PartialSum(s) ==
  LET sum[i \in 0..Len(s)] == IF i = 0 THEN 0 ELSE sum[i - 1] + s[i]
  IN  sum

(* The number of keys k with lo < k <= hi. *)
KeysIn(lo, hi) == PartialSum(cnt)[hi] - PartialSum(cnt)[lo]

maxKey == Len(cnt)
keyCount == KeysIn(0, maxKey)

TypeOK ==
  /\ phase \in {"pivots", "histogram", "split", "done", "assert"}
  /\ slots \in Slots..(2 * MaxSlots)
  /\ nPivots \in 0..(slots * nWorkers)
  /\ \A i \in 1..Len(pivots) : pivots[i] \in 1..maxKey
  /\ \A i \in 1..Len(histogram) : histogram[i] \in 0..keyCount
  /\ \A i \in 1..Len(result) : result[i] \in 1..maxKey

Init ==
  /\ \E n \in 1..MaxKeys : cnt \in {f \in [1..n -> KeyCounts] : f[n] > 0}
  /\ nWorkers \in 1..MaxWorkers
  /\ slots = Slots
  /\ nPivots = 0
  /\ pivots = <<>>
  /\ histogram = <<>>
  /\ phase = "pivots"
  /\ result = <<>>

-----------------------------------------------------------------------------
(* The slots of one round: maxKey / nPivots wide, or 1. *)
Increment == maxKey \div (slots * nWorkers)

Width == IF Increment = 0 THEN 1 ELSE Increment
Number == IF Increment = 0 THEN maxKey ELSE slots * nWorkers

(* The pivots that a round pushes back. *)
Round == [i \in 1..Number |-> IF i < Number THEN i * Width ELSE maxKey]

(* They are pushed behind what pivots holds, then counted by an assertion. *)
MakePivots ==
  /\ phase = "pivots"
  /\ nPivots' = Number
  /\ pivots' = pivots \o Round
  /\ phase' = IF Len(pivots') = nPivots' THEN "histogram" ELSE "assert"
  /\ UNCHANGED <<cnt, nWorkers, slots, histogram, result>>

(* getHist(pivots) for sorted pivots. *)
SlotCounts == [i \in 1..Len(pivots) |-> KeysIn(IF i = 1 THEN 0 ELSE pivots[i - 1], pivots[i])]

(* count > 2 * keyCount / nPivots for some slot. *)
TooFull(h) == \E i \in 1..Len(h) : h[i] > (2 * keyCount) \div nPivots

GetHistogram ==
  /\ phase = "histogram"
  /\ histogram' = SlotCounts
  /\ \/ /\ TooFull(histogram') /\ slots <= MaxSlots
        /\ slots' = 2 * slots
        /\ phase' = "pivots"
     \/ /\ ~(TooFull(histogram') /\ slots <= MaxSlots)
        /\ phase' = "split"
        /\ UNCHANGED slots
  /\ UNCHANGED <<cnt, nWorkers, nPivots, pivots, result>>

Cum(i) == PartialSum(histogram)[i]

(* Mutant: upper_bound. *)
SlotAbove(x) == CHOOSE j \in 1..nPivots :
                  (Cum(j) > x \/ j = nPivots) /\ \A i \in 1..(j - 1) : Cum(i) <= x

(* lower_bound in cum. *)
SlotOf(x) == CHOOSE j \in 1..nPivots : Cum(j) >= x /\ \A i \in 1..(j - 1) : Cum(i) < x

perWorker == keyCount \div nWorkers

(* The pivots of the workers, and the assertion that no key was missed. *)
Split ==
  /\ phase = "split"
  /\ phase' = IF Cum(nPivots) = keyCount THEN "done" ELSE "assert"
  /\ result' = IF Cum(nPivots) = keyCount
                 THEN [i \in 1..nWorkers |->
                         IF i < nWorkers THEN pivots[SlotOf(i * perWorker)] ELSE maxKey]
                 ELSE result
  /\ UNCHANGED <<cnt, nWorkers, slots, nPivots, pivots, histogram>>

-----------------------------------------------------------------------------
Next == MakePivots \/ GetHistogram \/ Split

Spec == Init /\ [][Next]_vars

-----------------------------------------------------------------------------
(* Properties. *)

(* Keys of worker i, those up to its pivot and above the one before. *)
Share(i) == KeysIn(IF i = 1 THEN 0 ELSE result[i - 1], result[i])

(* The shares differ from the average by no more than a slot may hold, the *)
(* last one by the remainders too: the skew partition_unittest.cc tests.   *)
Balanced ==
  phase = "done" =>
    LET slot == (2 * keyCount) \div nPivots IN
      /\ \A i \in 1..(nWorkers - 1) :
           Share(i) <= perWorker + slot /\ perWorker <= Share(i) + slot
      /\ Share(nWorkers) < perWorker + nWorkers
      /\ perWorker <= Share(nWorkers) + slot

(* With two slots per worker and a key for each worker the pivots are what *)
(* ShuffleKey accepts, strictly increasing up to the greatest key.         *)
Accepted ==
  phase = "done" /\ keyCount >= nWorkers /\ nPivots >= 2 * nWorkers =>
    /\ Len(result) = nWorkers
    /\ result[nWorkers] = maxKey
    /\ \A i \in 1..(nWorkers - 1) : result[i] < result[i + 1]

(* partition.h:78, assert(cum.back() == keyCount): the first histogram     *)
(* misses no key.                                                          *)
FirstRoundCounts == phase = "assert" => slots > Slots

(* The pivots are complete, they are those that ShuffleKey accepts, and no *)
(* worker gets more than its part and a slot.                              *)
PivotsRight == TypeOK /\ FirstRoundCounts /\ Accepted /\ Balanced
=============================================================================
