------------------------------- MODULE Median -------------------------------
(***************************************************************************)
(* examples/median: the Collector asks every Sorter for its statistics and *)
(* then looks for the median with getKth, which sends each guess to all    *)
(* Sorters and counts what is smaller and what is the same.                *)
(*                                                                         *)
(* The Sorters answer in any order while the main thread waits at its      *)
(* latch.  Another client may call Generate on a Sorter at any moment.  A  *)
(* handler of a Sorter and the callback its response runs are one step:    *)
(* the callback only adds to counters that nobody reads before the latch   *)
(* opens.  Connections stay up; RpcChannel models their loss.              *)
(*                                                                         *)
(* A vector of a Sorter is a sequence of int64, which are MinInt..MaxInt.  *)
(***************************************************************************)
EXTENDS Integers, Sequences, FiniteSets

CONSTANTS
  Sorters,       \* the servers
  HalfRange,     \* 2^(w-1) for integers of w bits, 2^63 in the code
  MaxSteps,      \* steps after which getKth gives up, 100 in the code
  MaxLen,        \* bound: elements of a Sorter
  MaxGenerates   \* bound: calls of Generate

ASSUME SortersAssumption == IsFiniteSet(Sorters)
ASSUME IntAssumption == HalfRange \in Nat \ {0}
ASSUME BoundsAssumption == MaxSteps \in Nat /\ MaxLen \in Nat /\ MaxGenerates \in Nat

VARIABLES
  data,        \* data[s]: data_ of Sorter s
  generated,   \* calls of Generate so far
  phase,       \* what the main thread does, or how it ended
  waiting,     \* Sorters the latch still counts
  count,       \* count of the statistics
  min, max,    \* min and max of the statistics, then of getKth
  k,           \* rank that is looked for
  guess,
  steps,
  smaller, same

vars == <<data, generated, phase, waiting, count, min, max, k, guess, steps, smaller, same>>

MinInt == -HalfRange
MaxInt == HalfRange - 1
Values == MinInt..MaxInt

(* What doGenerate may leave: count elements, sorted. *)
Sorted(d) == \A i, j \in 1..Len(d) : i <= j => d[i] <= d[j]
Vectors == {d \in UNION {[1..n -> Values] : n \in 0..MaxLen} : Sorted(d)}

Ended == {"found", "none", "crossed", "failed"}

TypeOK ==
  /\ data \in [Sorters -> Vectors]
  /\ generated \in 0..MaxGenerates
  /\ phase \in {"connect", "stats", "search"} \cup Ended
  /\ waiting \subseteq Sorters
  /\ count \in Nat
  /\ min \in Values /\ max \in Values /\ guess \in Values
  /\ k \in Nat
  /\ steps \in 0..(MaxSteps + 1)
  /\ smaller \in Nat /\ same \in Nat

(* Collector::connect has a latch for every Sorter; run() begins with empty *)
(* statistics.                                                             *)
Init ==
  /\ data \in [Sorters -> Vectors]
  /\ generated = 0
  /\ phase = "connect"
  /\ waiting = Sorters
  /\ count = 0
  /\ min = MaxInt
  /\ max = MinInt
  /\ k = 0
  /\ guess = 0
  /\ steps = 0
  /\ smaller = 0
  /\ same = 0

-----------------------------------------------------------------------------
(* Sorter. *)

(* The elements <<s, i>> of the Sorters S when their vectors are d, those  *)
(* smaller than g and those the same.                                      *)
Elements(d, S) == {e \in S \X (1..MaxLen) : e[2] <= Len(d[e[1]])}
Below(d, S, g) == {e \in Elements(d, S) : d[e[1]][e[2]] < g}
Equal(d, S, g) == {e \in Elements(d, S) : d[e[1]][e[2]] = g}

(* Generate: new elements, sorted. *)
Generate(s) ==
  /\ generated < MaxGenerates
  /\ generated' = generated + 1
  /\ \E d \in Vectors : data' = [data EXCEPT ![s] = d]
  /\ UNCHANGED <<phase, waiting, count, min, max, k, guess, steps, smaller, same>>

-----------------------------------------------------------------------------
(* Collector. *)

(* onConnection counts the latch of connect() down. *)
OnConnection(s) ==
  /\ phase = "connect"
  /\ s \in waiting
  /\ waiting' = waiting \ {s}
  /\ UNCHANGED <<data, generated, phase, count, min, max, k, guess, steps, smaller, same>>

(* The latch opens, getStats sends Query to all. *)
GetStats ==
  /\ phase = "connect"
  /\ waiting = {}
  /\ phase' = "stats"
  /\ waiting' = Sorters
  /\ UNCHANGED <<data, generated, count, min, max, k, guess, steps, smaller, same>>

(* Query at s and the callback of getStats. *)
QueryDone(s) ==
  /\ phase = "stats"
  /\ s \in waiting
  /\ waiting' = waiting \ {s}
  /\ count' = count + Len(data[s])
  /\ min' = IF data[s] # <<>> /\ data[s][1] < min THEN data[s][1] ELSE min
  /\ max' = IF data[s] # <<>> /\ data[s][Len(data[s])] > max
              THEN data[s][Len(data[s])] ELSE max
  /\ UNCHANGED <<data, generated, phase, k, guess, steps, smaller, same>>

(* search(g): a new latch, counters at 0. *)
Search(g) ==
  /\ guess' = g
  /\ waiting' = Sorters
  /\ smaller' = 0
  /\ same' = 0

(* The latch of getStats opens and nothing was counted: no median. *)
NoMedian ==
  /\ phase = "stats"
  /\ waiting = {}
  /\ count <= 0
  /\ phase' = "none"
  /\ UNCHANGED <<data, generated, waiting, count, min, max, k, guess, steps, smaller, same>>

(* Otherwise getKth starts with max as its first guess. *)
StartKth ==
  /\ phase = "stats"
  /\ waiting = {}
  /\ count > 0
  /\ k' = (count + 1) \div 2
  /\ phase' = "search"
  /\ Search(max)
  /\ UNCHANGED <<data, generated, count, min, max, steps>>

(* Mutant: the counters keep only the last response. *)
SearchDoneLast(s) ==
  /\ phase = "search"
  /\ s \in waiting
  /\ waiting' = waiting \ {s}
  /\ smaller' = Cardinality(Below(data, {s}, guess))
  /\ same' = Cardinality(Equal(data, {s}, guess))
  /\ UNCHANGED <<data, generated, phase, count, min, max, k, guess, steps>>

(* Search at s, lower_bound and upper_bound, and the callback of search(). *)
SearchDone(s) ==
  /\ phase = "search"
  /\ s \in waiting
  /\ waiting' = waiting \ {s}
  /\ smaller' = smaller + Cardinality(Below(data, {s}, guess))
  /\ same' = same + Cardinality(Equal(data, {s}, guess))
  /\ UNCHANGED <<data, generated, phase, count, min, max, k, guess, steps>>

-----------------------------------------------------------------------------
(* getKth, from the return of search() to the next call. *)

Modulus == MaxInt - MinInt + 1

(* int64 of a sum or difference that left the range by one turn at most.   *)
Wrap(x) == IF x > MaxInt THEN x - Modulus ELSE IF x < MinInt THEN x + Modulus ELSE x

(* static_cast<uint64_t>. *)
Unsigned(x) == IF x < 0 THEN x + Modulus ELSE x

(* Mutant: (min + max) / 2 in int64. *)
MiddleOfSum(lo, hi) == Wrap(lo + hi) \div 2

(* Mutant: the middle is rounded up. *)
MiddleUp(lo, hi) == Wrap(lo + (Unsigned(Wrap(hi - lo)) + 1) \div 2)

(* min + static_cast<uint64_t>(max - min)/2. *)
Middle(lo, hi) == Wrap(lo + Unsigned(Wrap(hi - lo)) \div 2)

(* The search has come back and steps allow another guess. *)
Counted ==
  /\ phase = "search"
  /\ waiting = {}
  /\ steps' = steps + 1
  /\ steps' <= MaxSteps
  /\ UNCHANGED <<data, generated, count, k>>

TooManySteps ==
  /\ phase = "search"
  /\ waiting = {}
  /\ steps' = steps + 1
  /\ steps' > MaxSteps
  /\ phase' = "failed"
  /\ UNCHANGED <<data, generated, waiting, count, min, max, k, guess, smaller, same>>

Hit ==
  /\ Counted
  /\ smaller < k /\ smaller + same >= k
  /\ phase' = "found"
  /\ UNCHANGED <<waiting, min, max, guess, smaller, same>>

(* The next guess, and the assertion that it lies between min and max: it  *)
(* fails when they have crossed (without assertions the loop ends then,    *)
(* without a result).                                                      *)
NextGuess(lo, hi) ==
  /\ min' = lo
  /\ max' = hi
  /\ LET g == Middle(lo, hi) IN
     \/ /\ lo <= g /\ g <= hi
        /\ Search(g)
        /\ UNCHANGED phase
     \/ /\ ~(lo <= g /\ g <= hi)
        /\ phase' = "crossed"
        /\ guess' = g
        /\ UNCHANGED <<waiting, smaller, same>>

TooLow ==
  /\ Counted
  /\ smaller + same < k
  /\ NextGuess(Wrap(guess + 1), max)

TooHigh ==
  /\ Counted
  /\ smaller >= k
  /\ NextGuess(min, guess)

-----------------------------------------------------------------------------
Next ==
  \/ \E s \in Sorters : OnConnection(s) \/ QueryDone(s) \/ SearchDone(s) \/ Generate(s)
  \/ GetStats \/ NoMedian \/ StartKth
  \/ TooManySteps \/ Hit \/ TooLow \/ TooHigh

Spec == Init /\ [][Next]_vars

(* Servers are up and answer, and the main thread goes on; nobody has to Generate.     *)
Fairness ==
  /\ \A s \in Sorters : WF_vars(OnConnection(s) \/ QueryDone(s) \/ SearchDone(s))
  /\ WF_vars(GetStats \/ NoMedian \/ StartKth \/ TooManySteps \/ Hit \/ TooLow \/ TooHigh)

FairSpec == Spec /\ Fairness

-----------------------------------------------------------------------------
(* Properties. *)

IsKth(v) ==
  /\ Cardinality(Below(data, Sorters, v)) < k
  /\ Cardinality(Below(data, Sorters, v)) + Cardinality(Equal(data, Sorters, v)) >= k

(* If no Sorter was given new data, the answer of run() is the element of  *)
(* rank (n + 1) / 2 of all n elements, and "no median" means n = 0.        *)
MedianRight ==
  generated = 0 =>
    /\ phase = "found" => k = (Cardinality(Elements(data, Sorters)) + 1) \div 2 /\ IsKth(guess)
    /\ phase = "none" => Elements(data, Sorters) = {}

(* If no Sorter was given new data, the assertion of getKth holds: min and *)
(* max never cross, at the ends of int64 included.                         *)
NeverCrossed == generated = 0 => phase # "crossed"

(* If no Sorter was given new data, getKth does not give up.  An int64 has *)
(* 64 bits and the limit is 100; in the runs the limit is as tight as w+1  *)
(* for a w-bit integer.                                                    *)
EnoughSteps == generated = 0 => phase # "failed"

(* run() ends, even if the data changes under it, and has not given up if  *)
(* the data stayed as it was.                                              *)
SearchEnds == <>(phase \in Ended /\ EnoughSteps)
=============================================================================
