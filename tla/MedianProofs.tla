---------------------------- MODULE MedianProofs ----------------------------
(***************************************************************************)
(* Proofs about Median, for every set of Sorters, every width of the       *)
(* integers and every content of the vectors, and about Partition.         *)
(***************************************************************************)
EXTENDS Median, PartitionInstance, FiniteSetTheorems, SequenceTheorems, NaturalsInduction,
        WellFoundedInduction, TLAPS

-----------------------------------------------------------------------------
(* The inductive invariant. *)

(* The loop counts its steps from 0 and stops above MaxSteps. *)
StepsLeft ==
  /\ phase \in {"connect", "stats"} => steps = 0
  /\ phase = "search" => steps <= MaxSteps

(* Nothing is counted before all are connected; then the statistics are    *)
(* those of the Sorters that have answered.                                *)
StatsRight ==
  /\ phase = "connect" => count = 0
  /\ generated = 0 /\ phase = "stats" =>
       /\ count = Cardinality(Elements(data, Sorters \ waiting))
       /\ \A e \in Elements(data, Sorters \ waiting) :
            min <= data[e[1]][e[2]] /\ data[e[1]][e[2]] <= max

(* The element of rank k lies between min and max. *)
Bracketed ==
  generated = 0 /\ phase \in {"search", "found"} =>
    /\ k = (Cardinality(Elements(data, Sorters)) + 1) \div 2
    /\ Cardinality(Below(data, Sorters, min)) < k
    /\ k <= Cardinality(Below(data, Sorters, max)) + Cardinality(Equal(data, Sorters, max))
    /\ min <= guess /\ guess <= max

(* The counters are those of the Sorters that have answered. *)
CountersRight ==
  generated = 0 /\ phase = "search" =>
    /\ smaller = Cardinality(Below(data, Sorters \ waiting, guess))
    /\ same = Cardinality(Equal(data, Sorters \ waiting, guess))

IndInv ==
  /\ TypeOK
  /\ StepsLeft
  /\ StatsRight
  /\ Bracketed
  /\ CountersRight
  /\ MedianRight
  /\ NeverCrossed

-----------------------------------------------------------------------------
(* Lemmas about the operators. *)

(* int64 arithmetic stays in range. *)
LEMMA WrapType ==
  ASSUME NEW x \in Int, x >= 2 * MinInt, x <= 2 * MaxInt + 1
  PROVE  Wrap(x) \in Values
BY IntAssumption DEF Wrap, Modulus, MinInt, MaxInt, Values

(* The middle of two int64 is an int64, even if they have crossed. *)
LEMMA MiddleType ==
  ASSUME NEW lo \in Values, NEW hi \in Values
  PROVE  Middle(lo, hi) \in Values
BY IntAssumption DEF Middle, Unsigned, Wrap, Modulus, MinInt, MaxInt, Values

(* The middle of two int64 lies between them, though max - min overflows.  *)
LEMMA MiddleBetween ==
  ASSUME NEW lo \in Values, NEW hi \in Values, lo <= hi
  PROVE  lo <= Middle(lo, hi) /\ Middle(lo, hi) <= hi
BY IntAssumption DEF Middle, Unsigned, Wrap, Modulus, MinInt, MaxInt, Values

(* What a vector of a Sorter is. *)
LEMMA VectorFacts ==
  ASSUME NEW d \in Vectors
  PROVE  /\ Len(d) \in 0..MaxLen
         /\ \A i \in 1..Len(d) : d[i] \in Values
         /\ Sorted(d)
         /\ d # <<>> <=> Len(d) > 0
<1>1. PICK n \in 0..MaxLen : d \in [1..n -> Values]
  BY DEF Vectors
<1>2. n \in Nat
  BY BoundsAssumption
<1>3. d \in Seq(Values)
  BY <1>1, <1>2, SeqDef
<1>4. Len(d) = n
  BY <1>1, <1>2, <1>3, LenProperties
<1>5. d # <<>> <=> Len(d) > 0
  BY <1>3, EmptySeq, LenProperties
<1> QED
  BY <1>1, <1>4, <1>5 DEF Vectors

(* There are finitely many elements. *)
LEMMA ElementsFinite ==
  ASSUME NEW d, NEW S \in SUBSET Sorters, NEW g
  PROVE  /\ IsFiniteSet(Elements(d, S)) /\ Cardinality(Elements(d, S)) \in Nat
         /\ IsFiniteSet(Below(d, S, g)) /\ Cardinality(Below(d, S, g)) \in Nat
         /\ IsFiniteSet(Equal(d, S, g)) /\ Cardinality(Equal(d, S, g)) \in Nat
<1>1. IsFiniteSet(S)
  BY SortersAssumption, FS_Subset
<1>2. IsFiniteSet(1..MaxLen)
  BY BoundsAssumption, FS_Interval
<1>3. IsFiniteSet(S \X (1..MaxLen))
  BY <1>1, <1>2, FS_Product
<1>4. IsFiniteSet(Elements(d, S))
  <2>1. Elements(d, S) \in SUBSET (S \X (1..MaxLen))
    BY DEF Elements
  <2> QED BY <1>3, <2>1, FS_Subset
<1>5. Below(d, S, g) \in SUBSET Elements(d, S) /\ Equal(d, S, g) \in SUBSET Elements(d, S)
  BY DEF Below, Equal
<1>6. IsFiniteSet(Below(d, S, g)) /\ IsFiniteSet(Equal(d, S, g))
  BY <1>4, <1>5, FS_Subset
<1> QED
  BY <1>4, <1>6, FS_CardinalityType

(* Two disjoint finite sets. *)
LEMMA DisjointCardinality ==
  ASSUME NEW A, NEW B, NEW C, IsFiniteSet(A), IsFiniteSet(B), C = A \cup B, A \cap B = {}
  PROVE  Cardinality(C) = Cardinality(A) + Cardinality(B)
<1>1. Cardinality(A \cap B) = 0
  BY FS_EmptySet
<1>2. Cardinality(A) \in Nat /\ Cardinality(B) \in Nat
  BY FS_CardinalityType
<1>3. Cardinality(A \cup B) = Cardinality(A) + Cardinality(B) - Cardinality(A \cap B)
  BY FS_Union
<1>4. Cardinality(A \cup B) = Cardinality(A) + Cardinality(B)
  BY <1>1, <1>2, <1>3
<1> QED
  BY <1>4

(* One more answer: the counts of the Sorters that have answered grow by   *)
(* the counts of the one that answers.                                     *)
LEMMA OneMoreAnswer ==
  ASSUME NEW d, NEW W \in SUBSET Sorters, NEW s \in W, NEW g
  PROVE  /\ Cardinality(Elements(d, Sorters \ (W \ {s})))
              = Cardinality(Elements(d, Sorters \ W)) + Cardinality(Elements(d, {s}))
         /\ Cardinality(Below(d, Sorters \ (W \ {s}), g))
              = Cardinality(Below(d, Sorters \ W, g)) + Cardinality(Below(d, {s}, g))
         /\ Cardinality(Equal(d, Sorters \ (W \ {s}), g))
              = Cardinality(Equal(d, Sorters \ W, g)) + Cardinality(Equal(d, {s}, g))
<1> DEFINE T == Sorters \ (W \ {s})
           R == Sorters \ W
<1>1. T \in SUBSET Sorters /\ R \in SUBSET Sorters /\ {s} \in SUBSET Sorters
  OBVIOUS
<1>2. T = R \cup {s} /\ s \notin R
  OBVIOUS
<1> HIDE DEF T, R
<1>3. Elements(d, T) = Elements(d, R) \cup Elements(d, {s})
      /\ Elements(d, R) \cap Elements(d, {s}) = {}
  BY <1>2 DEF Elements
<1>4. Below(d, T, g) = Below(d, R, g) \cup Below(d, {s}, g)
      /\ Below(d, R, g) \cap Below(d, {s}, g) = {}
  BY <1>3 DEF Below
<1>5. Equal(d, T, g) = Equal(d, R, g) \cup Equal(d, {s}, g)
      /\ Equal(d, R, g) \cap Equal(d, {s}, g) = {}
  BY <1>3 DEF Equal
<1>6. /\ IsFiniteSet(Elements(d, R)) /\ IsFiniteSet(Elements(d, {s}))
      /\ IsFiniteSet(Below(d, R, g)) /\ IsFiniteSet(Below(d, {s}, g))
      /\ IsFiniteSet(Equal(d, R, g)) /\ IsFiniteSet(Equal(d, {s}, g))
  BY <1>1, ElementsFinite
<1>7. Cardinality(Elements(d, T)) = Cardinality(Elements(d, R)) + Cardinality(Elements(d, {s}))
  BY <1>3, <1>6, DisjointCardinality
<1>8. Cardinality(Below(d, T, g)) = Cardinality(Below(d, R, g)) + Cardinality(Below(d, {s}, g))
  BY <1>4, <1>6, DisjointCardinality
<1>9. Cardinality(Equal(d, T, g)) = Cardinality(Equal(d, R, g)) + Cardinality(Equal(d, {s}, g))
  BY <1>5, <1>6, DisjointCardinality
<1> QED
  BY <1>7, <1>8, <1>9 DEF T, R

(* The size a Sorter reports is the number of its elements. *)
LEMMA LenIsCount ==
  ASSUME NEW d \in [Sorters -> Vectors], NEW s \in Sorters
  PROVE  Cardinality(Elements(d, {s})) = Len(d[s])
<1> DEFINE n == Len(d[s])
           f == [i \in 1..n |-> <<s, i>>]
<1>1. n \in 0..MaxLen
  BY VectorFacts
<1>2. IsFiniteSet(1..n) /\ Cardinality(1..n) = n
  <2>1. n \in Nat /\ n \in Int /\ 1 \in Int
    BY <1>1, BoundsAssumption
  <2> HIDE DEF n
  <2>2. IsFiniteSet(1..n) /\ Cardinality(1..n) = IF 1 > n THEN 0 ELSE n - 1 + 1
    BY <2>1, FS_Interval
  <2> QED BY <2>1, <2>2
<1>3. Elements(d, {s}) = {<<s, i>> : i \in 1..n}
  <2>1. \A i \in 1..n : i \in 1..MaxLen
    BY <1>1, BoundsAssumption
  <2>2. \A i \in 1..n : <<s, i>> \in Elements(d, {s})
    BY <1>1, <2>1, BoundsAssumption DEF Elements
  <2>3. \A e \in Elements(d, {s}) : e = <<s, e[2]>> /\ e[2] \in 1..n
    BY <1>1, BoundsAssumption DEF Elements
  <2> QED BY <2>2, <2>3
<1>4. f \in Bijection(1..n, Elements(d, {s}))
  <2>1. f \in [1..n -> Elements(d, {s})]
    BY <1>3
  <2>2. \A i, j \in 1..n : f[i] = f[j] => i = j
    OBVIOUS
  <2>3. \A e \in Elements(d, {s}) : \E i \in 1..n : f[i] = e
    BY <1>3
  <2> QED BY <2>1, <2>2, <2>3 DEF Bijection, Injection, Surjection, IsInjective
<1>5. ExistsBijection(1..n, Elements(d, {s}))
  BY <1>4 DEF ExistsBijection
<1> QED
  BY <1>2, <1>5, FS_Bijection

(* Elements are integers. *)
LEMMA ElementValue ==
  ASSUME NEW d \in [Sorters -> Vectors], NEW e \in Elements(d, Sorters)
  PROVE  d[e[1]][e[2]] \in Int
<1>1. e[1] \in Sorters /\ e[2] \in 1..Len(d[e[1]])
  BY VectorFacts, BoundsAssumption DEF Elements
<1> QED
  BY <1>1, VectorFacts, IntAssumption DEF Values, MinInt, MaxInt

(* What is below g + 1 is below g or equal to g. *)
LEMMA BelowNext ==
  ASSUME NEW d \in [Sorters -> Vectors], NEW S \in SUBSET Sorters, NEW g \in Int
  PROVE  Cardinality(Below(d, S, g + 1)) = Cardinality(Below(d, S, g)) + Cardinality(Equal(d, S, g))
<1>1. \A e \in Elements(d, S) : d[e[1]][e[2]] \in Int
  <2>1. \A e \in Elements(d, S) : e \in Elements(d, Sorters)
    BY DEF Elements
  <2> QED BY <2>1, ElementValue
<1>2. Below(d, S, g + 1) = Below(d, S, g) \cup Equal(d, S, g)
  BY <1>1 DEF Below, Equal
<1>3. Below(d, S, g) \cap Equal(d, S, g) = {}
  BY <1>1 DEF Below, Equal
<1> QED
  BY <1>2, <1>3, ElementsFinite, DisjointCardinality

(* All elements lie below or at a bound of all. *)
LEMMA BelowOrEqualAll ==
  ASSUME NEW d \in [Sorters -> Vectors], NEW lo \in Int, NEW hi \in Int,
         \A e \in Elements(d, Sorters) : lo <= d[e[1]][e[2]] /\ d[e[1]][e[2]] <= hi
  PROVE  /\ Cardinality(Below(d, Sorters, lo)) = 0
         /\ Cardinality(Below(d, Sorters, hi)) + Cardinality(Equal(d, Sorters, hi))
              = Cardinality(Elements(d, Sorters))
<1>1. \A e \in Elements(d, Sorters) : d[e[1]][e[2]] \in Int
  BY ElementValue
<1>2. Below(d, Sorters, lo) = {}
  BY <1>1 DEF Below
<1>3. Elements(d, Sorters) = Below(d, Sorters, hi) \cup Equal(d, Sorters, hi)
      /\ Below(d, Sorters, hi) \cap Equal(d, Sorters, hi) = {}
  BY <1>1 DEF Below, Equal
<1>4. IsFiniteSet(Below(d, Sorters, hi)) /\ IsFiniteSet(Equal(d, Sorters, hi))
  BY ElementsFinite
<1>5. Cardinality(Elements(d, Sorters))
        = Cardinality(Below(d, Sorters, hi)) + Cardinality(Equal(d, Sorters, hi))
  BY <1>3, <1>4, DisjointCardinality
<1> QED
  BY <1>2, <1>5, FS_EmptySet

(* No Sorter, no element. *)
LEMMA NoElements ==
  ASSUME NEW d, NEW g
  PROVE  /\ Elements(d, {}) = {} /\ Cardinality(Elements(d, {})) = 0
         /\ Cardinality(Below(d, {}, g)) = 0 /\ Cardinality(Equal(d, {}, g)) = 0
<1>1. Elements(d, {}) = {} /\ Below(d, {}, g) = {} /\ Equal(d, {}, g) = {}
  BY DEF Elements, Below, Equal
<1> QED
  BY <1>1, FS_EmptySet

-----------------------------------------------------------------------------
(* The invariant holds initially. *)
LEMMA InitInv == Init => IndInv
<1> SUFFICES ASSUME Init PROVE IndInv
  OBVIOUS
<1>1. TypeOK
  BY IntAssumption, BoundsAssumption DEF Init, TypeOK, Values, MinInt, MaxInt, Ended
<1>2. StepsLeft
  BY DEF Init, StepsLeft
<1>3. StatsRight
  BY DEF Init, StatsRight
<1> QED
  BY <1>1, <1>2, <1>3 DEF Init, IndInv, Bracketed, CountersRight, MedianRight, NeverCrossed

-----------------------------------------------------------------------------
(* Every step preserves it: one lemma per action. *)

LEMMA GenerateInv ==
  ASSUME IndInv, NEW s \in Sorters, Generate(s)
  PROVE  IndInv'
<1>1. TypeOK'
  BY BoundsAssumption DEF IndInv, TypeOK, Generate
<1>2. StepsLeft'
  BY DEF IndInv, StepsLeft, Generate
<1>3. generated' # 0 /\ phase' = phase /\ count' = count
  BY DEF IndInv, TypeOK, Generate
<1> QED
  BY <1>1, <1>2, <1>3
  DEF IndInv, StatsRight, Bracketed, CountersRight, MedianRight, NeverCrossed

LEMMA OnConnectionInv ==
  ASSUME IndInv, NEW s \in Sorters, OnConnection(s)
  PROVE  IndInv'
<1>1. TypeOK'
  BY DEF IndInv, TypeOK, OnConnection
<1> QED
  BY <1>1
  DEF OnConnection, IndInv, StepsLeft, StatsRight, Bracketed, CountersRight, MedianRight, Ended,
      NeverCrossed

LEMMA GetStatsInv ==
  ASSUME IndInv, GetStats
  PROVE  IndInv'
<1>1. TypeOK'
  BY DEF IndInv, TypeOK, GetStats
<1>2. StatsRight'
  <2>1. /\ phase' = "stats" /\ data' = data /\ waiting' = Sorters
        /\ count' = 0 /\ Sorters \ waiting' = {}
    BY DEF IndInv, StatsRight, GetStats
  <2>2. Elements(data, {}) = {} /\ Cardinality(Elements(data, {})) = 0
    BY NoElements
  <2> QED BY <2>1, <2>2 DEF StatsRight
<1> QED
  BY <1>1, <1>2
  DEF GetStats, IndInv, StepsLeft, Bracketed, CountersRight, MedianRight, NeverCrossed

LEMMA QueryDoneInv ==
  ASSUME IndInv, NEW s \in Sorters, QueryDone(s)
  PROVE  IndInv'
<1> DEFINE d == data[s]
<1>1. d \in Vectors
  BY DEF IndInv, TypeOK
<1>2. /\ Len(d) \in 0..MaxLen /\ Len(d) \in Nat
      /\ \A i \in 1..Len(d) : d[i] \in Values
      /\ Sorted(d)
      /\ d # <<>> <=> Len(d) > 0
  BY <1>1, VectorFacts, BoundsAssumption
<1>3. d # <<>> => d[1] \in Values /\ d[Len(d)] \in Values
  BY <1>2
<1>4. TypeOK'
  <2>1. min' \in Values /\ max' \in Values
    BY <1>3 DEF IndInv, TypeOK, QueryDone
  <2>2. count' \in Nat
    BY <1>2 DEF IndInv, TypeOK, QueryDone
  <2> QED BY <2>1, <2>2 DEF IndInv, TypeOK, QueryDone
<1>5. StepsLeft'
  BY DEF IndInv, StepsLeft, QueryDone
<1>6. StatsRight'
  <2> SUFFICES ASSUME generated = 0
               PROVE  /\ count' = Cardinality(Elements(data, Sorters \ waiting'))
                      /\ \A e \in Elements(data, Sorters \ waiting') :
                           min' <= data[e[1]][e[2]] /\ data[e[1]][e[2]] <= max'
    BY DEF StatsRight, QueryDone
  <2>1. /\ count = Cardinality(Elements(data, Sorters \ waiting))
        /\ \A e \in Elements(data, Sorters \ waiting) :
             min <= data[e[1]][e[2]] /\ data[e[1]][e[2]] <= max
    BY DEF IndInv, StatsRight, QueryDone
  <2>2. waiting \in SUBSET Sorters /\ s \in waiting /\ waiting' = waiting \ {s}
        /\ data \in [Sorters -> Vectors]
    BY DEF IndInv, TypeOK, QueryDone
  <2>3. count' = Cardinality(Elements(data, Sorters \ waiting'))
    <3>1. Cardinality(Elements(data, Sorters \ (waiting \ {s})))
            = Cardinality(Elements(data, Sorters \ waiting)) + Cardinality(Elements(data, {s}))
      BY <2>2, OneMoreAnswer
    <3>2. Cardinality(Elements(data, {s})) = Len(data[s])
      BY <2>2, LenIsCount
    <3> QED BY <2>1, <2>2, <3>1, <3>2 DEF QueryDone
  <2>4. ASSUME NEW e \in Elements(data, Sorters \ waiting')
        PROVE  min' <= data[e[1]][e[2]] /\ data[e[1]][e[2]] <= max'
    <3>0. min \in Int /\ max \in Int /\ data[e[1]][e[2]] \in Int
      <4>1. e \in Elements(data, Sorters)
        BY DEF Elements
      <4> QED BY <2>2, <4>1, ElementValue, IntAssumption
              DEF IndInv, TypeOK, Values, MinInt, MaxInt
    <3>1. CASE e[1] = s
      <4>1. e[2] \in 1..Len(d) /\ d # <<>>
        BY <1>2, <3>1, BoundsAssumption DEF Elements
      <4>2. d[1] <= d[e[2]] /\ d[e[2]] <= d[Len(d)]
        BY <1>2, <4>1 DEF Sorted
      <4>3. d[1] \in Int /\ d[Len(d)] \in Int
        BY <1>3, <4>1, IntAssumption DEF Values, MinInt, MaxInt
      <4> QED BY <3>0, <3>1, <4>1, <4>2, <4>3 DEF QueryDone
    <3>2. CASE e[1] # s
      <4>1. e \in Elements(data, Sorters \ waiting)
        BY <2>2, <3>2 DEF Elements
      <4>2. min <= data[e[1]][e[2]] /\ data[e[1]][e[2]] <= max
        BY <2>1, <4>1
      <4>3. d # <<>> => d[1] \in Int /\ d[Len(d)] \in Int
        BY <1>3, IntAssumption DEF Values, MinInt, MaxInt
      <4> QED BY <3>0, <4>2, <4>3, SMTT(40) DEF QueryDone
    <3> QED BY <3>1, <3>2
  <2> QED BY <2>3, <2>4
<1> QED
  BY <1>4, <1>5, <1>6
  DEF IndInv, Bracketed, CountersRight, MedianRight, NeverCrossed, QueryDone

LEMMA NoMedianInv ==
  ASSUME IndInv, NoMedian
  PROVE  IndInv'
<1>1. TypeOK'
  BY DEF IndInv, TypeOK, NoMedian, Ended
<1>2. MedianRight'
  <2> SUFFICES ASSUME generated = 0 PROVE Elements(data, Sorters) = {}
    BY DEF MedianRight, NoMedian
  <2>1. count = Cardinality(Elements(data, Sorters)) /\ count \in Nat /\ count <= 0
    <3>1. Sorters \ {} = Sorters
      OBVIOUS
    <3> QED BY <3>1 DEF IndInv, TypeOK, StatsRight, NoMedian
  <2>2. count = 0
    BY <2>1
  <2> QED BY <2>1, <2>2, ElementsFinite, FS_EmptySet
<1> QED
  BY <1>1, <1>2 DEF IndInv, StepsLeft, StatsRight, Bracketed, CountersRight, NeverCrossed, NoMedian

LEMMA StartKthInv ==
  ASSUME IndInv, StartKth
  PROVE  IndInv'
<1>0. count \in Nat /\ count > 0 /\ k' = (count + 1) \div 2 /\ k' \in Nat /\ k' >= 1 /\ k' <= count
  BY DEF IndInv, TypeOK, StartKth
<1>1. TypeOK'
  BY <1>0 DEF IndInv, TypeOK, StartKth, Search
<1>2. StepsLeft'
  BY BoundsAssumption DEF IndInv, StepsLeft, StartKth
<1>3. Bracketed'
  <2> SUFFICES ASSUME generated = 0
               PROVE  /\ k' = (Cardinality(Elements(data, Sorters)) + 1) \div 2
                      /\ Cardinality(Below(data, Sorters, min)) < k'
                      /\ k' <= Cardinality(Below(data, Sorters, max))
                                 + Cardinality(Equal(data, Sorters, max))
                      /\ min <= max
    <3>1. UNCHANGED <<data, generated, min, max>> /\ guess' = max /\ phase' = "search"
      BY DEF StartKth, Search
    <3>2. max \in Int
      BY IntAssumption DEF IndInv, TypeOK, Values, MinInt, MaxInt
    <3> QED BY <3>1, <3>2 DEF Bracketed
  <2>0. data \in [Sorters -> Vectors] /\ min \in Int /\ max \in Int
    BY IntAssumption DEF IndInv, TypeOK, Values, MinInt, MaxInt
  <2>1. /\ count = Cardinality(Elements(data, Sorters))
        /\ \A e \in Elements(data, Sorters) :
             min <= data[e[1]][e[2]] /\ data[e[1]][e[2]] <= max
    <3>1. Sorters \ {} = Sorters
      OBVIOUS
    <3> QED BY <3>1 DEF IndInv, StatsRight, StartKth
  <2>2. /\ Cardinality(Below(data, Sorters, min)) = 0
        /\ Cardinality(Below(data, Sorters, max)) + Cardinality(Equal(data, Sorters, max)) = count
    BY <2>0, <2>1, BelowOrEqualAll
  <2>3. min <= max
    <3>1. Elements(data, Sorters) # {}
      BY <1>0, <2>1, FS_EmptySet
    <3>2. PICK e \in Elements(data, Sorters) : TRUE
      BY <3>1
    <3>3. min <= data[e[1]][e[2]] /\ data[e[1]][e[2]] <= max /\ data[e[1]][e[2]] \in Int
      BY <2>0, <2>1, ElementValue
    <3> QED BY <2>0, <3>3
  <2> QED BY <1>0, <2>1, <2>2, <2>3
<1>4. CountersRight'
  <2>1. waiting' = Sorters /\ smaller' = 0 /\ same' = 0
    BY DEF StartKth, Search
  <2>2. Sorters \ Sorters = {}
    OBVIOUS
  <2>3. /\ smaller' = Cardinality(Below(data', Sorters \ waiting', guess'))
        /\ same' = Cardinality(Equal(data', Sorters \ waiting', guess'))
    BY <2>1, <2>2, NoElements
  <2> QED BY <2>3 DEF CountersRight
<1> QED
  BY <1>1, <1>2, <1>3, <1>4 DEF IndInv, StatsRight, MedianRight, NeverCrossed, StartKth

LEMMA SearchDoneInv ==
  ASSUME IndInv, NEW s \in Sorters, SearchDone(s)
  PROVE  IndInv'
<1>0. {s} \in SUBSET Sorters /\ waiting \in SUBSET Sorters /\ s \in waiting /\ waiting' = waiting \ {s}
  BY DEF IndInv, TypeOK, SearchDone
<1>1. Cardinality(Below(data, {s}, guess)) \in Nat /\ Cardinality(Equal(data, {s}, guess)) \in Nat
  BY <1>0, ElementsFinite
<1>2. TypeOK'
  BY <1>1 DEF IndInv, TypeOK, SearchDone
<1>3. CountersRight'
  <2> SUFFICES ASSUME generated = 0
               PROVE  /\ smaller' = Cardinality(Below(data, Sorters \ waiting', guess))
                      /\ same' = Cardinality(Equal(data, Sorters \ waiting', guess))
    BY DEF CountersRight, SearchDone
  <2>1. /\ smaller = Cardinality(Below(data, Sorters \ waiting, guess))
        /\ same = Cardinality(Equal(data, Sorters \ waiting, guess))
    BY DEF IndInv, CountersRight, SearchDone
  <2>2. /\ Cardinality(Below(data, Sorters \ (waiting \ {s}), guess))
             = Cardinality(Below(data, Sorters \ waiting, guess)) + Cardinality(Below(data, {s}, guess))
        /\ Cardinality(Equal(data, Sorters \ (waiting \ {s}), guess))
             = Cardinality(Equal(data, Sorters \ waiting, guess)) + Cardinality(Equal(data, {s}, guess))
    BY <1>0, OneMoreAnswer
  <2> QED BY <1>0, <2>1, <2>2 DEF SearchDone
<1> QED
  BY <1>2, <1>3
  DEF IndInv, StepsLeft, StatsRight, Bracketed, MedianRight, NeverCrossed, SearchDone

LEMMA TooManyStepsInv ==
  ASSUME IndInv, TooManySteps
  PROVE  IndInv'
<1>1. TypeOK'
  BY BoundsAssumption DEF IndInv, TypeOK, StepsLeft, TooManySteps, Ended
<1> QED
  BY <1>1
  DEF IndInv, StepsLeft, StatsRight, Bracketed, CountersRight, MedianRight, NeverCrossed, TooManySteps

(* What the main thread knows when a search has come back. *)
LEMMA CountedFacts ==
  ASSUME IndInv, Counted
  PROVE  /\ steps' \in 0..(MaxSteps + 1) /\ steps' <= MaxSteps
         /\ generated = 0 =>
              /\ smaller = Cardinality(Below(data, Sorters, guess))
              /\ same = Cardinality(Equal(data, Sorters, guess))
<1>1. steps' \in 0..(MaxSteps + 1) /\ steps' <= MaxSteps
  BY BoundsAssumption DEF IndInv, TypeOK, Counted
<1>2. Sorters \ {} = Sorters
  OBVIOUS
<1> QED
  BY <1>1, <1>2 DEF IndInv, CountersRight, Counted

LEMMA HitInv ==
  ASSUME IndInv, Hit
  PROVE  IndInv'
<1>1. TypeOK'
  BY CountedFacts DEF IndInv, TypeOK, Hit, Counted, Ended
<1>2. Bracketed'
  BY DEF IndInv, Bracketed, Hit, Counted
<1>3. MedianRight'
  <2> SUFFICES ASSUME generated = 0
               PROVE  /\ k = (Cardinality(Elements(data, Sorters)) + 1) \div 2
                      /\ Cardinality(Below(data, Sorters, guess)) < k
                      /\ Cardinality(Below(data, Sorters, guess))
                           + Cardinality(Equal(data, Sorters, guess)) >= k
    BY DEF MedianRight, IsKth, Hit, Counted
  <2>1. k = (Cardinality(Elements(data, Sorters)) + 1) \div 2
    BY DEF IndInv, Bracketed, Hit, Counted
  <2>2. /\ smaller = Cardinality(Below(data, Sorters, guess))
        /\ same = Cardinality(Equal(data, Sorters, guess))
    BY CountedFacts DEF Hit
  <2> QED BY <2>1, <2>2 DEF Hit
<1> QED
  BY <1>1, <1>2, <1>3 DEF IndInv, StepsLeft, StatsRight, CountersRight, NeverCrossed, Hit, Counted

(* A new bracket with the element of rank k in it keeps the invariant. *)
LEMMA NextGuessInv ==
  ASSUME IndInv, Counted, NEW lo \in Values, NEW hi \in Values, NextGuess(lo, hi),
         generated = 0 =>
           /\ Cardinality(Below(data, Sorters, lo)) < k
           /\ k <= Cardinality(Below(data, Sorters, hi)) + Cardinality(Equal(data, Sorters, hi))
           /\ lo <= hi
  PROVE  IndInv'
<1>0. phase = "search" /\ min' = lo /\ max' = hi /\ guess' = Middle(lo, hi)
      /\ UNCHANGED <<data, generated, count, k>>
  BY DEF NextGuess, Search, Counted
<1>1. guess' \in Values
  BY <1>0, MiddleType
<1>2. generated = 0 => lo <= Middle(lo, hi) /\ Middle(lo, hi) <= hi
  BY MiddleBetween
<1>3. TypeOK'
  BY <1>0, <1>1, CountedFacts DEF IndInv, TypeOK, NextGuess, Search, Ended
<1>4. StepsLeft'
  BY <1>0, CountedFacts DEF StepsLeft, NextGuess
<1>5. phase' \in {"search", "crossed"} /\ (generated = 0 => phase' = "search")
  BY <1>0, <1>2 DEF NextGuess
<1>6. Bracketed'
  <2> SUFFICES ASSUME generated = 0
               PROVE  /\ k = (Cardinality(Elements(data, Sorters)) + 1) \div 2
                      /\ Cardinality(Below(data, Sorters, lo)) < k
                      /\ k <= Cardinality(Below(data, Sorters, hi))
                                + Cardinality(Equal(data, Sorters, hi))
                      /\ lo <= Middle(lo, hi) /\ Middle(lo, hi) <= hi
    BY <1>0 DEF Bracketed
  <2> QED BY <1>0, <1>2 DEF IndInv, Bracketed
<1>7. CountersRight'
  <2>1. phase' = "search" /\ generated = 0 => waiting' = Sorters /\ smaller' = 0 /\ same' = 0
    BY <1>2 DEF NextGuess, Search
  <2>2. Sorters \ Sorters = {}
    OBVIOUS
  <2>3. phase' = "search" /\ generated = 0 =>
          /\ smaller' = Cardinality(Below(data', Sorters \ waiting', guess'))
          /\ same' = Cardinality(Equal(data', Sorters \ waiting', guess'))
    BY <2>1, <2>2, NoElements
  <2> QED BY <1>0, <2>3 DEF CountersRight
<1> QED
  BY <1>0, <1>3, <1>4, <1>5, <1>6, <1>7 DEF IndInv, StatsRight, MedianRight, NeverCrossed

LEMMA TooLowInv ==
  ASSUME IndInv, TooLow
  PROVE  IndInv'
<1>0. /\ Counted /\ smaller + same < k /\ NextGuess(Wrap(guess + 1), max)
      /\ guess \in Values /\ max \in Values
  BY DEF TooLow, IndInv, TypeOK
<1>1. guess \in Int /\ max \in Int
  BY <1>0, IntAssumption DEF Values, MinInt, MaxInt
<1>2. Wrap(guess + 1) \in Values
  BY <1>0, IntAssumption DEF Wrap, Modulus, Values, MinInt, MaxInt
<1>3. ASSUME generated = 0
      PROVE  /\ Cardinality(Below(data, Sorters, Wrap(guess + 1))) < k
             /\ k <= Cardinality(Below(data, Sorters, max)) + Cardinality(Equal(data, Sorters, max))
             /\ Wrap(guess + 1) <= max
  <2>1. /\ smaller = Cardinality(Below(data, Sorters, guess))
        /\ same = Cardinality(Equal(data, Sorters, guess))
    BY <1>0, <1>3, CountedFacts
  <2>2. /\ k <= Cardinality(Below(data, Sorters, max)) + Cardinality(Equal(data, Sorters, max))
        /\ guess <= max
    BY <1>0, <1>3 DEF IndInv, Bracketed, Counted
  <2>3. smaller \in Nat /\ same \in Nat /\ k \in Nat
    BY DEF IndInv, TypeOK
  <2>4. guess # max
    BY <1>0, <2>1, <2>2, <2>3
  <2>5. guess + 1 <= max
    BY <1>1, <2>2, <2>4
  <2>6. Wrap(guess + 1) = guess + 1
    BY <1>0, <1>1, <2>5, IntAssumption DEF Wrap, Values, MinInt, MaxInt
  <2>7. Cardinality(Below(data, Sorters, guess + 1)) = smaller + same
    BY <1>1, <2>1, BelowNext DEF IndInv, TypeOK
  <2> QED BY <1>0, <2>2, <2>5, <2>6, <2>7
<1> QED
  BY <1>0, <1>2, <1>3, NextGuessInv

LEMMA TooHighInv ==
  ASSUME IndInv, TooHigh
  PROVE  IndInv'
<1>0. /\ Counted /\ smaller >= k /\ NextGuess(min, guess)
      /\ guess \in Values /\ min \in Values
  BY DEF TooHigh, IndInv, TypeOK
<1>1. ASSUME generated = 0
      PROVE  /\ Cardinality(Below(data, Sorters, min)) < k
             /\ k <= Cardinality(Below(data, Sorters, guess)) + Cardinality(Equal(data, Sorters, guess))
             /\ min <= guess
  <2>1. /\ smaller = Cardinality(Below(data, Sorters, guess))
        /\ same = Cardinality(Equal(data, Sorters, guess))
    BY <1>0, <1>1, CountedFacts
  <2>2. Cardinality(Below(data, Sorters, min)) < k /\ min <= guess
    BY <1>0, <1>1 DEF IndInv, Bracketed, Counted
  <2>3. smaller \in Nat /\ same \in Nat /\ k \in Nat
    BY DEF IndInv, TypeOK
  <2> QED BY <1>0, <2>1, <2>2, <2>3
<1> QED
  BY <1>0, <1>1, NextGuessInv

LEMMA NextInv == IndInv /\ [Next]_vars => IndInv'
<1> SUFFICES ASSUME IndInv, [Next]_vars PROVE IndInv'
  OBVIOUS
<1>1. CASE \E s \in Sorters : OnConnection(s) \/ QueryDone(s) \/ SearchDone(s) \/ Generate(s)
  BY <1>1, OnConnectionInv, QueryDoneInv, SearchDoneInv, GenerateInv
<1>2. CASE GetStats \/ NoMedian \/ StartKth
  BY <1>2, GetStatsInv, NoMedianInv, StartKthInv
<1>3. CASE TooManySteps \/ Hit \/ TooLow \/ TooHigh
  BY <1>3, TooManyStepsInv, HitInv, TooLowInv, TooHighInv
<1>4. CASE UNCHANGED vars
  BY <1>4 DEF vars, IndInv, TypeOK, StepsLeft, StatsRight, Bracketed, CountersRight,
              MedianRight, IsKth, NeverCrossed
<1> QED
  BY <1>1, <1>2, <1>3, <1>4 DEF Next

-----------------------------------------------------------------------------
(* The inductive invariant is an invariant. *)
THEOREM Invariance == Spec => []IndInv
  BY InitInv, NextInv, PTL DEF Spec

(* The collector's counters and bounds stay in their types: no value of    *)
(* getKth leaves int64, whatever the Sorters hold.                         *)
THEOREM TypeCorrect == Spec => []TypeOK
<1>1. IndInv => TypeOK
  BY DEF IndInv
<1> QED
  BY <1>1, Invariance, PTL

(* Without Generate the collector's result is the median of all elements,  *)
(* and it reports no median only if there is no element.                   *)
THEOREM MedianCorrect == Spec => []MedianRight
<1>1. IndInv => MedianRight
  BY DEF IndInv
<1> QED
  BY <1>1, Invariance, PTL

(* Without Generate the assertion in getKth holds for all data and every   *)
(* width of the integers: max - min may overflow, min and max never cross. *)
THEOREM AssertionSafe == Spec => []NeverCrossed
<1>1. IndInv => NeverCrossed
  BY DEF IndInv
<1> QED
  BY <1>1, Invariance, PTL

-----------------------------------------------------------------------------
(***************************************************************************)
(* The other search over counts, module Partition, by PartitionInstance,   *)
(* for all keys, workers and slots.                                        *)
(***************************************************************************)

(* What is asked for: keys, the greatest of which exists, and workers. *)
AskedFacts ==
  /\ cnt \in Seq(Nat) /\ Len(cnt) \in Nat \ {0} /\ cnt[Len(cnt)] > 0
  /\ nWorkers \in Nat \ {0}

(* A second round finds the pivots of the first and ends in the assertion. *)
RoundFacts ==
  /\ activity \in {"pivots", "histogram", "split", "done", "assert"}
  /\ \/ slots = Slots /\ activity # "assert"
     \/ slots = 2 * Slots /\ activity \in {"pivots", "assert"} /\ pivots # <<>>
  /\ nPivots \in 0..(slots * nWorkers)
  /\ pivots \in Seq(1..Len(cnt))
  /\ histogram \in Seq(0..Pivots!keyCount)
  /\ result \in Seq(1..Len(cnt))

(* In the first the pivots are those of one round, and no slot is too full *)
(* once there is a histogram.                                              *)
FirstRound ==
  slots = Slots =>
    /\ activity = "pivots" => pivots = <<>>
    /\ activity # "pivots" => nPivots = Pivots!Number /\ pivots = Pivots!Round
    /\ activity \in {"split", "done"} => histogram = Pivots!SlotCounts /\ ~Pivots!TooFull(histogram)
    /\ activity = "done" =>
         result = [i \in 1..nWorkers |->
                     IF i < nWorkers THEN pivots[Pivots!SlotOf(i * Pivots!perWorker)]
                                     ELSE Len(cnt)]

PartitionInv == AskedFacts /\ RoundFacts /\ FirstRound

LEMMA LeastNatural ==
  ASSUME NEW T, T \subseteq Nat, T # {}
  PROVE  \E m \in T : \A v \in T : m <= v
<1>1. PICK m \in T : \A y \in T : ~(<<y, m>> \in OpToRel(<, Nat))
  BY NatLessThanWellFounded, WFMin
<1>2. \A y \in T : ~(y < m)
  BY <1>1 DEF OpToRel
<1> QED BY <1>2

(* A property of 0 that every step keeps is one of every number up to n. *)
LEMMA UpTo ==
  ASSUME NEW n \in Nat, NEW G, 0 \in G, \A v \in 1..n : v - 1 \in G => v \in G
  PROVE  \A v \in 0..n : v \in G
<1> DEFINE T == {v \in 0..n : v \notin G}
<1> SUFFICES ASSUME T # {} PROVE FALSE
  OBVIOUS
<1>1. PICK v \in T : \A m \in T : v <= m
  <2>1. T \subseteq Nat
    OBVIOUS
  <2> HIDE DEF T
  <2> QED BY <2>1, LeastNatural
<1>2. v \in 1..n /\ v - 1 \in 0..n /\ ~(v <= v - 1) /\ v \notin G
  BY <1>1
<1>3. v - 1 \in G
  BY <1>1, <1>2
<1> QED BY <1>2, <1>3

-----------------------------------------------------------------------------
(* Arithmetic. *)

LEMMA Quotient ==
  ASSUME NEW a \in Nat, NEW b \in Nat \ {0}
  PROVE  a \div b \in Nat /\ b * (a \div b) <= a /\ a < b * (a \div b) + b
OBVIOUS

LEMMA Products ==
  ASSUME NEW a \in Nat, NEW b \in Nat, NEW c \in Nat
  PROVE  /\ a * c \in Nat /\ (a + 1) * c = a * c + c /\ a * c = c * a
         /\ a <= b => a * c <= b * c
         /\ a < b => a * c + c <= b * c
         /\ c <= a => b * c <= b * a
<1>1. a * c \in Nat /\ b * c \in Nat
  OBVIOUS
<1>2. (a + 1) * c = a * c + c /\ a * c = c * a
  OBVIOUS
<1>3. a <= b => a * c <= b * c
  <2>1. ASSUME a <= b PROVE a * c <= b * c
    <3>1. PICK d \in Nat : b = a + d
      <4>1. b - a \in Nat /\ b = a + (b - a)
        BY <2>1
      <4> QED BY <4>1
    <3>2. b * c = a * c + d * c /\ d * c \in Nat
      BY <3>1
    <3> QED BY <1>1, <3>2
  <2> QED BY <2>1
<1>4. a < b => a * c + c <= b * c
  <2>1. ASSUME a < b PROVE a * c + c <= b * c
    <3>1. PICK d \in Nat : b = (a + 1) + d
      <4>1. b - (a + 1) \in Nat /\ b = (a + 1) + (b - (a + 1))
        BY <2>1
      <4> QED BY <4>1
    <3>2. b * c = (a * c + c) + d * c /\ d * c \in Nat
      BY <3>1
    <3> QED BY <1>1, <3>2
  <2> QED BY <2>1
<1>5. c <= a => b * c <= b * a
  <2>1. ASSUME c <= a PROVE b * c <= b * a
    <3>1. PICK d \in Nat : a = c + d
      <4>1. a - c \in Nat /\ a = c + (a - c)
        BY <2>1
      <4> QED BY <4>1
    <3>2. b * a = b * c + b * d /\ b * d \in Nat
      BY <3>1
    <3> QED BY <1>1, <3>2
  <2> QED BY <2>1
<1> QED BY <1>1, <1>2, <1>3, <1>4, <1>5

-----------------------------------------------------------------------------
(* Partial sums: the loop has a result, which grows. *)

LEMMA PartialSums ==
  ASSUME NEW s \in Seq(Nat)
  PROVE  /\ Pivots!PartialSum(s) \in [0..Len(s) -> Nat] /\ Pivots!PartialSum(s)[0] = 0
         /\ \A i \in 1..Len(s) : Pivots!PartialSum(s)[i] = Pivots!PartialSum(s)[i - 1] + s[i]
<1> DEFINE n == Len(s)
           Sum(f, j) == IF j = 0 THEN 0 ELSE f[j - 1] + s[j]
           Loop(f, v) == f = [j \in 0..v |-> Sum(f, j)]
           G == {v \in 0..n : \E f : Loop(f, v)}
<1>0. n \in Nat /\ \A j \in 1..n : s[j] \in Nat
  OBVIOUS
<1>1. ASSUME NEW f, NEW v \in Nat, Loop(f, v)
      PROVE  DOMAIN f = 0..v /\ \A j \in 0..v : f[j] = Sum(f, j)
  <2> DEFINE h == [j \in 0..v |-> Sum(f, j)]
  <2>1. DOMAIN h = 0..v /\ \A j \in 0..v : h[j] = Sum(f, j)
    OBVIOUS
  <2>2. f = h
    BY <1>1
  <2> HIDE DEF h, Sum
  <2> QED BY <2>1, <2>2
<1>2. \A v \in 0..n : v \in G
  <2>1. 0 \in G
    <3> DEFINE h == [j \in 0..0 |-> 0]
    <3>1. h = [j \in 0..0 |-> Sum(h, j)]
      OBVIOUS
    <3> HIDE DEF h
    <3>2. Loop(h, 0)
      BY <3>1
    <3> QED BY <1>0, <3>2
  <2>2. ASSUME NEW v \in 1..n, v - 1 \in G PROVE v \in G
    <3>1. PICK f : Loop(f, v - 1)
      BY <2>2
    <3>2. v - 1 \in Nat /\ v \in Nat /\ v \in 0..n
      BY <1>0
    <3>3. DOMAIN f = 0..(v - 1) /\ \A j \in 0..(v - 1) : f[j] = Sum(f, j)
      BY <1>1, <3>1, <3>2
    <3> DEFINE h == [j \in 0..v |-> IF j = v THEN Sum(f, v) ELSE f[j]]
    <3>4. DOMAIN h = 0..v /\ h[v] = Sum(f, v) /\ \A j \in 0..(v - 1) : h[j] = f[j]
      BY <3>2
    <3>5. h = [j \in 0..v |-> h[j]]
      OBVIOUS
    <3> HIDE DEF h
    <3>6. ASSUME NEW j \in 0..v PROVE h[j] = Sum(h, j)
      <4>1. j = 0 \/ (j - 1 \in 0..(v - 1) /\ h[j - 1] = f[j - 1])
        BY <3>2, <3>4
      <4>2. Sum(h, j) = Sum(f, j)
        BY <4>1
      <4>3. j = v \/ j \in 0..(v - 1)
        BY <3>2
      <4> HIDE DEF Sum
      <4> QED BY <3>3, <3>4, <4>2, <4>3
    <3>7. Loop(h, v)
      <4> HIDE DEF Sum
      <4> QED BY <3>5, <3>6
    <3> HIDE DEF Loop
    <3> QED BY <3>2, <3>7
  <2> HIDE DEF G, n
  <2> QED BY <1>0, <2>1, <2>2, UpTo
<1> DEFINE g == CHOOSE f : Loop(f, n)
<1>3. Loop(g, n)
  <2> HIDE DEF Loop, n
  <2>1. n \in G
    BY <1>0, <1>2
  <2> QED BY <2>1
<1>4. Pivots!PartialSum(s) = g
  BY DEF Pivots!PartialSum
<1> HIDE DEF g, n
<1>5. DOMAIN g = 0..n /\ \A j \in 0..n : g[j] = Sum(g, j)
  BY <1>0, <1>1, <1>3
<1>6. g[0] = 0 /\ \A j \in 1..n : g[j] = g[j - 1] + s[j]
  BY <1>0, <1>5
<1> DEFINE C == {v \in 0..n : g[v] \in Nat}
<1>7. \A v \in 0..n : v \in C
  <2>1. 0 \in C
    BY <1>0, <1>6
  <2>2. ASSUME NEW v \in 1..n, v - 1 \in C PROVE v \in C
    <3>1. g[v] = g[v - 1] + s[v] /\ s[v] \in Nat /\ g[v - 1] \in Nat /\ v \in 0..n
      BY <1>0, <1>6, <2>2
    <3> QED BY <3>1
  <2> HIDE DEF C
  <2> QED BY <1>0, <2>1, <2>2, UpTo
<1>8. g = [j \in 0..n |-> g[j]]
  <2> HIDE DEF Sum
  <2>1. g = [j \in 0..n |-> Sum(g, j)]
    BY <1>3
  <2> QED BY <1>5, <2>1
<1>9. g \in [0..n -> Nat]
  BY <1>7, <1>8
<1> QED BY <1>4, <1>6, <1>9 DEF n

LEMMA SumsGrow ==
  ASSUME NEW s \in Seq(Nat), NEW i \in 0..Len(s), NEW j \in 0..Len(s), i <= j
  PROVE  Pivots!PartialSum(s)[i] <= Pivots!PartialSum(s)[j]
<1> DEFINE n == Len(s)
           g == Pivots!PartialSum(s)
           C == {v \in Nat : i + v <= n => g[i] <= g[i + v]}
<1>1. n \in Nat /\ \A v \in 1..n : s[v] \in Nat
  OBVIOUS
<1>2. /\ \A v \in 0..n : g[v] \in Nat
      /\ \A v \in 1..n : g[v] = g[v - 1] + s[v]
  BY PartialSums
<1>3. i \in 0..n /\ j \in 0..n
  OBVIOUS
<1> HIDE DEF n, g
<1>4. 0 \in C
  BY <1>1, <1>2, <1>3
<1>5. ASSUME NEW v \in 1..n, v - 1 \in C PROVE v \in C
  <2>1. CASE i + v <= n
    <3>1. i + v \in 1..n /\ (i + v) - 1 = i + (v - 1) /\ i + (v - 1) \in 0..n /\ i + (v - 1) <= n
      BY <1>1, <1>3, <2>1
    <3>2. g[i] <= g[i + (v - 1)]
      BY <1>5, <3>1
    <3>3. g[i + v] = g[i + (v - 1)] + s[i + v] /\ s[i + v] \in Nat /\ g[i + (v - 1)] \in Nat /\ g[i] \in Nat
      BY <1>1, <1>2, <1>3, <3>1
    <3>4. g[i] <= g[i + v]
      <4> DEFINE x == g[i]
                 y == g[i + (v - 1)]
                 z == s[i + v]
                 u == g[i + v]
      <4>1. x <= y /\ u = y + z /\ x \in Nat /\ y \in Nat /\ z \in Nat
        BY <3>2, <3>3
      <4> HIDE DEF x, y, z, u
      <4>2. x <= u
        BY <4>1
      <4> QED BY <4>2 DEF x, u
    <3> QED BY <3>4
  <2>2. CASE ~(i + v <= n)
    BY <2>2
  <2> QED BY <2>1, <2>2
<1>6. \A v \in 0..n : v \in C
  <2> HIDE DEF C
  <2> QED BY <1>1, <1>4, <1>5, UpTo
<1>7. j - i \in 0..n /\ i + (j - i) = j /\ i + (j - i) <= n
  BY <1>1, <1>3
<1>8. g[i] <= g[j]
  <2>1. j - i \in C
    BY <1>6, <1>7
  <2> QED BY <1>7, <2>1
<1> QED BY <1>8 DEF g

-----------------------------------------------------------------------------
(* Keys and pivots. *)

LEMMA KeyFacts ==
  ASSUME AskedFacts
  PROVE  /\ Pivots!PartialSum(cnt) \in [0..Len(cnt) -> Nat]
         /\ Pivots!PartialSum(cnt)[0] = 0
         /\ Pivots!keyCount = Pivots!PartialSum(cnt)[Len(cnt)]
         /\ Pivots!keyCount \in Nat
         /\ \A lo, hi \in 0..Len(cnt) : lo <= hi =>
              /\ Pivots!KeysIn(lo, hi) = Pivots!PartialSum(cnt)[hi] - Pivots!PartialSum(cnt)[lo]
              /\ Pivots!KeysIn(lo, hi) \in 0..Pivots!keyCount
              /\ Pivots!PartialSum(cnt)[lo] <= Pivots!PartialSum(cnt)[hi]
<1> DEFINE P == Pivots!PartialSum(cnt)
           M == Len(cnt)
<1>1. P \in [0..M -> Nat] /\ P[0] = 0 /\ M \in Nat \ {0}
  BY PartialSums DEF AskedFacts
<1>2. Pivots!keyCount = P[M] - P[0]
  BY DEF Pivots!keyCount, Pivots!KeysIn, Pivots!maxKey
<1>3. \A lo, hi \in 0..M : lo <= hi => P[lo] <= P[hi]
  BY SumsGrow DEF AskedFacts
<1>4. \A lo, hi \in 0..M : Pivots!KeysIn(lo, hi) = P[hi] - P[lo]
  BY DEF Pivots!KeysIn
<1> HIDE DEF P, M
<1>5. P[M] \in Nat /\ Pivots!keyCount = P[M] /\ Pivots!keyCount \in Nat /\ M \in 0..M
  BY <1>1, <1>2
<1>6. ASSUME NEW lo \in 0..M, NEW hi \in 0..M, lo <= hi
      PROVE  P[hi] - P[lo] \in 0..P[M] /\ P[lo] <= P[hi]
  <2>1. P[lo] \in Nat /\ P[hi] \in Nat /\ P[M] \in Nat /\ P[lo] <= P[hi] /\ P[hi] <= P[M]
    BY <1>1, <1>3, <1>5, <1>6
  <2> QED BY <2>1
<1> QED BY <1>1, <1>4, <1>5, <1>6 DEF P, M

(* The slots of a round fit into the keys. *)
LEMMA SlotFits ==
  ASSUME AskedFacts, slots \in Nat \ {0}
  PROVE  /\ slots * nWorkers \in Nat \ {0} /\ Pivots!Number \in 1..(slots * nWorkers)
         /\ Pivots!Width \in Nat \ {0} /\ Pivots!Number * Pivots!Width <= Len(cnt)
<1> DEFINE S == slots * nWorkers
           M == Len(cnt)
           q == M \div S
<1>1. M \in Nat \ {0} /\ nWorkers \in Nat \ {0}
  BY DEF AskedFacts
<1>2. S \in Nat \ {0}
  BY <1>1
<1>3. /\ Pivots!Width = IF q = 0 THEN 1 ELSE q
      /\ Pivots!Number = IF q = 0 THEN M ELSE S
  BY DEF Pivots!Width, Pivots!Number, Pivots!Increment, Pivots!maxKey
<1> HIDE DEF S, M
<1>4. q \in Nat /\ S * q <= M /\ M < S * q + S
  BY <1>1, <1>2, Quotient
<1> HIDE DEF q
<1>5. CASE q = 0
  BY <1>1, <1>2, <1>3, <1>4, <1>5 DEF S, M
<1>6. CASE q # 0
  <2>1. Pivots!Width = q /\ Pivots!Number = S /\ S \in 1..S
    BY <1>2, <1>3, <1>6
  <2> QED BY <1>2, <1>4, <1>6, <2>1 DEF S, M
<1> QED BY <1>5, <1>6

LEMMA RoundIs ==
  ASSUME AskedFacts, slots \in Nat \ {0}
  PROVE  /\ Pivots!Round \in Seq(1..Len(cnt)) /\ Len(Pivots!Round) = Pivots!Number
         /\ Pivots!Number \in Nat \ {0} /\ Pivots!Round[Pivots!Number] = Len(cnt)
         /\ \A i, j \in 1..Pivots!Number : i < j => Pivots!Round[i] < Pivots!Round[j]
<1> DEFINE N == Pivots!Number
           W == Pivots!Width
           M == Len(cnt)
           R == Pivots!Round
<1>1. N \in Nat \ {0} /\ W \in Nat \ {0} /\ N * W <= M /\ M \in Nat
  BY SlotFits DEF AskedFacts
<1>2. R = [i \in 1..N |-> IF i < N THEN i * W ELSE M]
  BY DEF Pivots!Round, Pivots!maxKey
<1> HIDE DEF N, W, M, R
<1>3. ASSUME NEW i \in 1..N, i < N PROVE i * W \in Nat /\ i * W >= 1 /\ i * W < M
  <2>1. i \in Nat /\ i * W \in Nat /\ N * W \in Nat
    BY <1>1
  <2>2. i * W + W <= N * W
    BY <1>1, <1>3, <2>1, Products
  <2>3. 0 * W + W <= i * W /\ 0 * W = 0
    <3>1. 0 < i /\ 0 \in Nat
      BY <1>3
    <3>2. 0 * W + W <= i * W
      BY <1>1, <2>1, <3>1, Products
    <3>3. 0 * W = 0
      BY <1>1
    <3> QED BY <3>2, <3>3
  <2> QED BY <1>1, <2>1, <2>2, <2>3
<1>4. M >= 1
  <2>1. 0 * W + W <= N * W /\ 0 * W = 0 /\ N * W \in Nat
    <3>1. 0 < N /\ 0 \in Nat
      BY <1>1
    <3>2. 0 * W + W <= N * W
      BY <1>1, <3>1, Products
    <3> QED BY <1>1, <3>2
  <2> QED BY <1>1, <2>1
<1>5. R \in [1..N -> 1..M]
  <2>1. \A i \in 1..N : (IF i < N THEN i * W ELSE M) \in 1..M
    BY <1>1, <1>3, <1>4
  <2> QED BY <1>2, <2>1
<1>6. R \in Seq(1..M) /\ Len(R) = N
  BY <1>1, <1>5
<1>7. R[N] = M
  BY <1>1, <1>2
<1>8. ASSUME NEW i \in 1..N, NEW j \in 1..N, i < j PROVE R[i] < R[j]
  <2>1. i < N /\ R[i] = i * W /\ i \in Nat /\ j \in Nat
    BY <1>1, <1>2, <1>8
  <2>2. CASE j < N
    <3>1. R[j] = j * W /\ i * W + W <= j * W
      BY <1>1, <1>2, <1>8, <2>1, <2>2, Products
    <3>2. i * W \in Nat /\ j * W \in Nat
      BY <1>3, <2>1, <2>2
    <3> QED BY <1>1, <2>1, <3>1, <3>2
  <2>3. CASE ~(j < N)
    <3>1. R[j] = M
      BY <1>2, <2>3
    <3> QED BY <1>3, <2>1, <3>1
  <2> QED BY <2>2, <2>3
<1> QED BY <1>1, <1>6, <1>7, <1>8 DEF N, M, R

(* The partial sums of the histogram count the keys up to each pivot. *)
LEMMA CumIs ==
  ASSUME PartitionAssumed, PartitionInv, slots = Slots, activity \in {"split", "done"}
  PROVE  /\ nPivots \in Nat \ {0} /\ Len(pivots) = nPivots /\ Len(histogram) = nPivots
         /\ pivots[nPivots] = Len(cnt)
         /\ \A i \in 1..nPivots : pivots[i] \in 1..Len(cnt)
         /\ \A i, j \in 1..nPivots : i < j => pivots[i] < pivots[j]
         /\ \A i \in 1..nPivots : /\ Pivots!Cum(i) = Pivots!PartialSum(cnt)[pivots[i]]
                                  /\ Pivots!Cum(i) \in Nat
                                  /\ histogram[i] \in Nat
                                  /\ histogram[i] <= (2 * Pivots!keyCount) \div nPivots
         /\ Pivots!Cum(1) = histogram[1]
         /\ \A i \in 2..nPivots : Pivots!Cum(i) = Pivots!Cum(i - 1) + histogram[i]
         /\ Pivots!Cum(nPivots) = Pivots!keyCount
<1> DEFINE n == nPivots
           p == pivots
           h == histogram
           P == Pivots!PartialSum(cnt)
           H == Pivots!PartialSum(histogram)
           M == Len(cnt)
           K == Pivots!keyCount
<1>1. AskedFacts /\ slots \in Nat \ {0} /\ n = Pivots!Number /\ p = Pivots!Round
      /\ h = Pivots!SlotCounts /\ ~Pivots!TooFull(h)
  BY DEF PartitionInv, FirstRound, PartitionAssumed
<1>2. /\ p \in Seq(1..M) /\ Len(p) = n /\ n \in Nat \ {0} /\ p[n] = M
      /\ \A i, j \in 1..n : i < j => p[i] < p[j]
  BY <1>1, RoundIs
<1>3. M \in Nat \ {0} /\ P \in [0..M -> Nat] /\ P[0] = 0 /\ K = P[M] /\ K \in Nat
  BY <1>1, KeyFacts DEF AskedFacts
<1>4. \A lo, hi \in 0..M : lo <= hi => Pivots!KeysIn(lo, hi) = P[hi] - P[lo] /\ Pivots!KeysIn(lo, hi) \in 0..K
  BY <1>1, KeyFacts
<1>5. h = [i \in 1..n |-> Pivots!KeysIn(IF i = 1 THEN 0 ELSE p[i - 1], p[i])]
  BY <1>1, <1>2 DEF Pivots!SlotCounts
<1>6. \A i \in 1..n : p[i] \in 1..M
  BY <1>2
<1>7. h \in Seq(0..K) /\ h \in Seq(Nat)
  <2>1. h \in Seq(0..K)
    BY DEF PartitionInv, RoundFacts
  <2>2. \A x \in 0..K : x \in Nat
    BY <1>3
  <2> HIDE DEF h, K
  <2>3. h \in Seq(Nat)
    BY <2>1, <2>2, SeqMonotonic
  <2> QED BY <2>1, <2>3
<1>8. Len(h) = n
  BY <1>2, <1>5
<1>9. /\ H \in [0..n -> Nat] /\ H[0] = 0 /\ \A i \in 1..n : H[i] = H[i - 1] + h[i]
  BY <1>7, <1>8, PartialSums
<1>10. \A i \in Nat : Pivots!Cum(i) = H[i]
  BY DEF Pivots!Cum
<1>11. \A i \in 1..n : ~(h[i] > (2 * K) \div n)
  BY <1>1, <1>8 DEF Pivots!TooFull
<1> HIDE DEF n, p, h, P, H, M, K
<1>12. h[1] = P[p[1]] /\ \A i \in 2..n : h[i] = P[p[i]] - P[p[i - 1]]
  <2>1. h[1] = P[p[1]]
    <3>1. 1 \in 1..n /\ p[1] \in 1..M
      BY <1>2, <1>6
    <3>2. 0 \in 0..M /\ p[1] \in 0..M /\ 0 <= p[1]
      BY <1>3, <3>1
    <3>3. h[1] = Pivots!KeysIn(0, p[1])
      BY <1>5, <3>1
    <3>4. P[p[1]] \in Nat
      BY <1>3, <3>2
    <3>5. Pivots!KeysIn(0, p[1]) = P[p[1]] - P[0]
      BY <1>4, <3>2
    <3> QED BY <1>3, <3>3, <3>4, <3>5
  <2>2. ASSUME NEW i \in 2..n PROVE h[i] = P[p[i]] - P[p[i - 1]]
    <3>1. i \in 1..n /\ i - 1 \in 1..n /\ i - 1 < i /\ i # 1
      BY <1>2
    <3>2. p[i] \in 1..M /\ p[i - 1] \in 1..M /\ p[i - 1] < p[i]
      BY <1>2, <1>6, <3>1
    <3>3. p[i] \in 0..M /\ p[i - 1] \in 0..M /\ p[i - 1] <= p[i]
      BY <1>3, <3>2
    <3>4. h[i] = Pivots!KeysIn(p[i - 1], p[i])
      BY <1>5, <3>1
    <3> QED BY <1>4, <3>3, <3>4
  <2> QED BY <2>1, <2>2
<1> DEFINE G == {i \in 0..n : i = 0 \/ H[i] = P[p[i]]}
<1>13. \A i \in 0..n : i \in G
  <2>1. 0 \in G
    BY <1>2
  <2>2. ASSUME NEW i \in 1..n, i - 1 \in G PROVE i \in G
    <3>1. i \in 0..n /\ H[i] = H[i - 1] + h[i]
      BY <1>2, <1>9
    <3>2. CASE i = 1
      <4>1. H[1] = 0 + h[1] /\ h[1] \in Nat
        <5>1. h[1] \in Nat
          BY <1>7, <1>8, <3>2
        <5> QED BY <1>9, <3>1, <3>2, <5>1
      <4>2. H[i] = P[p[i]]
        BY <1>12, <3>2, <4>1
      <4> QED BY <3>1, <4>2
    <3>3. CASE i # 1
      <4>1. i \in 2..n /\ i - 1 # 0 /\ p[i] \in 1..M /\ p[i - 1] \in 1..M
        <5>1. i \in 2..n /\ i - 1 \in 1..n
          BY <1>2, <3>3
        <5> QED BY <1>6, <5>1
      <4>2. H[i - 1] = P[p[i - 1]] /\ h[i] = P[p[i]] - P[p[i - 1]]
        BY <1>12, <2>2, <4>1
      <4>3. P[p[i]] \in Nat /\ P[p[i - 1]] \in Nat
        <5>1. p[i] \in 0..M /\ p[i - 1] \in 0..M
          BY <1>3, <4>1
        <5> QED BY <1>3, <5>1
      <4>4. H[i] = P[p[i]]
        BY <3>1, <4>2, <4>3
      <4> QED BY <3>1, <4>4
    <3> QED BY <3>2, <3>3
  <2> HIDE DEF G
  <2> QED BY <1>2, <2>1, <2>2, UpTo
<1>14. ASSUME NEW i \in 1..n
       PROVE  /\ H[i] = P[p[i]] /\ H[i] \in Nat /\ h[i] \in Nat /\ h[i] <= (2 * K) \div n
  <2>1. i \in 0..n /\ i # 0
    BY <1>2
  <2>2. H[i] = P[p[i]] /\ H[i] \in Nat
    BY <1>9, <1>13, <2>1
  <2>3. h[i] \in Nat
    BY <1>7, <1>8
  <2>4. (2 * K) \div n \in Nat
    BY <1>2, <1>3, Quotient
  <2> QED BY <1>11, <2>2, <2>3, <2>4
<1>15. H[1] = h[1] /\ \A i \in 2..n : H[i] = H[i - 1] + h[i]
  <2>1. 1 \in 1..n /\ \A i \in 2..n : i \in 1..n
    BY <1>2
  <2>2. H[1] = P[p[1]]
    BY <1>14, <2>1
  <2> QED BY <1>9, <1>12, <2>1, <2>2
<1>16. H[n] = K
  <2>1. n \in 1..n
    BY <1>2
  <2> QED BY <1>2, <1>3, <1>14, <2>1
<1>17. 1 \in Nat /\ n \in Nat /\ (\A i \in 1..n : i \in Nat) /\ \A i \in 2..n : i \in Nat /\ i - 1 \in Nat
  BY <1>2
<1>18. /\ Pivots!Cum(1) = H[1] /\ Pivots!Cum(n) = H[n] /\ (\A i \in 1..n : Pivots!Cum(i) = H[i])
       /\ \A i \in 2..n : Pivots!Cum(i) = H[i] /\ Pivots!Cum(i - 1) = H[i - 1]
  BY <1>10, <1>17
<1> QED BY <1>2, <1>6, <1>8, <1>14, <1>15, <1>16, <1>18 DEF n, p, h, P, M, K

(* lower_bound finds the slot in which x is reached. *)
LEMMA SlotIs ==
  ASSUME PartitionAssumed, PartitionInv, slots = Slots, activity \in {"split", "done"},
         NEW x \in Nat, x <= Pivots!keyCount
  PROVE  /\ Pivots!SlotOf(x) \in 1..nPivots /\ Pivots!Cum(Pivots!SlotOf(x)) >= x
         /\ \A i \in 1..(Pivots!SlotOf(x) - 1) : Pivots!Cum(i) < x
<1> DEFINE n == nPivots
           C(j) == Pivots!Cum(j)
           T == {j \in 1..n : C(j) >= x}
           Right(j) == C(j) >= x /\ \A i \in 1..(j - 1) : C(i) < x
<1>1. n \in Nat \ {0} /\ (\A j \in 1..n : C(j) \in Nat) /\ C(n) = Pivots!keyCount
  BY CumIs
<1>2. n \in T /\ T \subseteq Nat
  <2>1. n \in 1..n /\ C(n) \in Nat
    BY <1>1
  <2> QED BY <1>1, <2>1
<1>3. PICK j \in T : \A i \in T : j <= i
  <2> HIDE DEF T
  <2> QED BY <1>2, LeastNatural
<1>4. j \in 1..n /\ Right(j)
  <2>1. j \in 1..n /\ C(j) >= x
    BY <1>3
  <2>2. ASSUME NEW i \in 1..(j - 1) PROVE C(i) < x
    <3>1. i \in 1..n /\ ~(j <= i) /\ C(i) \in Nat
      BY <1>1, <2>1
    <3>2. i \notin T
      BY <1>3, <3>1
    <3> HIDE DEF C
    <3> QED BY <3>1, <3>2
  <2> QED BY <2>1, <2>2
<1>5. Pivots!SlotOf(x) = CHOOSE i \in 1..n : Right(i)
  BY DEF Pivots!SlotOf
<1> HIDE DEF Right
<1>6. Pivots!SlotOf(x) \in 1..n /\ Right(Pivots!SlotOf(x))
  BY <1>4, <1>5
<1> QED BY <1>6 DEF Right

(* What a worker is to get. *)
LEMMA PerWorker ==
  ASSUME AskedFacts
  PROVE  /\ Pivots!perWorker \in Nat
         /\ \A i \in 0..nWorkers : /\ i * Pivots!perWorker \in Nat
                                   /\ i * Pivots!perWorker <= Pivots!keyCount
                                   /\ (i + 1) * Pivots!perWorker = i * Pivots!perWorker + Pivots!perWorker
         /\ Pivots!keyCount < nWorkers * Pivots!perWorker + nWorkers
<1> DEFINE w == Pivots!perWorker
           K == Pivots!keyCount
           N == nWorkers
<1>1. K \in Nat /\ N \in Nat \ {0} /\ w = K \div N
  BY KeyFacts DEF AskedFacts, Pivots!perWorker
<1> HIDE DEF w, K, N
<1>2. w \in Nat /\ N * w <= K /\ K < N * w + N
  BY <1>1, Quotient
<1>3. ASSUME NEW i \in 0..N PROVE i * w \in Nat /\ i * w <= K /\ (i + 1) * w = i * w + w
  <2>1. i \in Nat /\ i <= N
    BY <1>1
  <2>2. i * w \in Nat /\ (i + 1) * w = i * w + w /\ i * w <= N * w /\ N * w \in Nat
    BY <1>1, <1>2, <2>1, Products
  <2> QED BY <1>1, <1>2, <2>2
<1> QED BY <1>2, <1>3 DEF w, K, N

(* The pivot of worker i: up to it there are at least i parts of the keys, *)
(* and at most a slot more.                                                *)
LEMMA PivotIs ==
  ASSUME PartitionAssumed, PartitionInv, slots = Slots, activity \in {"split", "done"},
         NEW i \in 1..(nWorkers - 1), NEW j, j = Pivots!SlotOf(i * Pivots!perWorker)
  PROVE  LET x == i * Pivots!perWorker
             slot == (2 * Pivots!keyCount) \div nPivots
         IN  /\ j \in 1..nPivots /\ x <= Pivots!Cum(j) /\ Pivots!Cum(j) <= x + slot
             /\ slot <= Pivots!perWorker /\ Pivots!perWorker >= 1 => Pivots!Cum(j) < x + Pivots!perWorker
<1> DEFINE n == nPivots
           C(v) == Pivots!Cum(v)
           w == Pivots!perWorker
           x == i * w
           K == Pivots!keyCount
           slot == (2 * K) \div n
<1>1. AskedFacts /\ nWorkers \in Nat /\ i \in 0..nWorkers /\ i \in Nat /\ 1 <= i
  BY DEF PartitionInv, AskedFacts
<1>2. w \in Nat /\ x \in Nat /\ x <= K /\ K \in Nat
  BY <1>1, PerWorker, KeyFacts
<1>3. j \in 1..n /\ C(j) >= x /\ \A v \in 1..(j - 1) : C(v) < x
  BY <1>2, SlotIs
<1>4. n \in Nat \ {0} /\ (\A v \in 1..n : C(v) \in Nat /\ histogram[v] \in Nat /\ histogram[v] <= slot)
      /\ C(1) = histogram[1] /\ \A v \in 2..n : C(v) = C(v - 1) + histogram[v]
  BY CumIs
<1>5. slot \in Nat
  BY <1>2, <1>4, Quotient
<1>6. 1 * w <= i * w /\ 1 * w = w
  <2>1. 1 \in Nat
    OBVIOUS
  <2>2. 1 * w <= i * w
    BY <1>1, <1>2, <2>1, Products
  <2> QED BY <1>2, <2>2
<1> HIDE DEF n, C, w, x, K, slot
<1>7. w <= x
  BY <1>6 DEF x
<1>8. CASE j = 1
  <2>1. C(j) <= slot /\ C(j) \in Nat
    BY <1>3, <1>4, <1>8
  <2>2. C(j) <= x + slot /\ (slot <= w /\ w >= 1 => C(j) < x + w)
    BY <1>2, <1>5, <1>7, <2>1
  <2>3. x <= C(j)
    BY <1>2, <1>3, <2>1
  <2> QED BY <1>3, <2>2, <2>3 DEF n, C, w, x, K, slot
<1>9. CASE j # 1
  <2>1. j \in 2..n /\ j - 1 \in 1..(j - 1) /\ j - 1 \in 1..n
    BY <1>3, <1>4, <1>9
  <2>2. C(j) = C(j - 1) + histogram[j] /\ C(j - 1) < x /\ histogram[j] <= slot
        /\ C(j - 1) \in Nat /\ histogram[j] \in Nat /\ C(j) \in Nat
    BY <1>3, <1>4, <2>1
  <2>3. C(j) <= x + slot /\ (slot <= w /\ w >= 1 => C(j) < x + w)
    BY <1>2, <1>5, <2>2
  <2>4. x <= C(j)
    BY <1>2, <1>3, <2>2
  <2> QED BY <1>3, <2>3, <2>4 DEF n, C, w, x, K, slot
<1> QED BY <1>8, <1>9

-----------------------------------------------------------------------------
(* The steps. *)

LEMMA PartitionStart == ASSUME PartitionAssumed, Pivots!Init PROVE PartitionInv
<1>1. PICK n \in 1..MaxKeys : cnt \in {f \in [1..n -> KeyCounts] : f[n] > 0}
  BY DEF Pivots!Init
<1>2. /\ nWorkers \in 1..MaxWorkers /\ slots = Slots /\ nPivots = 0 /\ pivots = <<>>
      /\ histogram = <<>> /\ activity = "pivots" /\ result = <<>>
  BY DEF Pivots!Init
<1>3. AskedFacts
  <2>1. n \in Nat \ {0} /\ cnt \in [1..n -> Nat] /\ cnt[n] > 0
    <3>1. cnt \in [1..n -> KeyCounts] /\ cnt[n] > 0
      BY <1>1
    <3>2. n \in Nat \ {0} /\ KeyCounts \subseteq Nat
      BY DEF PartitionAssumed
    <3> QED BY <3>1, <3>2
  <2>2. cnt \in Seq(Nat) /\ Len(cnt) = n
    BY <2>1
  <2>3. nWorkers \in Nat \ {0}
    BY <1>2 DEF PartitionAssumed
  <2> QED BY <2>1, <2>2, <2>3 DEF AskedFacts
<1>4. 0 \in 0..(slots * nWorkers)
  BY <1>2, <1>3 DEF AskedFacts, PartitionAssumed
<1>5. RoundFacts
  BY <1>2, <1>4 DEF RoundFacts
<1>6. FirstRound
  BY <1>2 DEF FirstRound
<1> QED BY <1>3, <1>5, <1>6 DEF PartitionInv

LEMMA PartitionMakePivots == ASSUME PartitionAssumed, PartitionInv, Pivots!MakePivots PROVE PartitionInv'
<1>1. /\ activity = "pivots" /\ nPivots' = Pivots!Number /\ pivots' = pivots \o Pivots!Round
      /\ activity' = (IF Len(pivots') = nPivots' THEN "histogram" ELSE "assert")
      /\ UNCHANGED <<cnt, nWorkers, slots, histogram, result>>
  BY DEF Pivots!MakePivots
<1>2. AskedFacts /\ RoundFacts /\ FirstRound /\ Slots \in Nat \ {0}
  BY DEF PartitionInv, PartitionAssumed
<1>3. slots \in Nat \ {0} /\ (slots = Slots \/ (slots = 2 * Slots /\ pivots # <<>>))
  BY <1>1, <1>2 DEF RoundFacts
<1>4. /\ Pivots!Number \in 1..(slots * nWorkers) /\ slots * nWorkers \in Nat
      /\ Pivots!Round \in Seq(1..Len(cnt)) /\ Len(Pivots!Round) = Pivots!Number
      /\ Pivots!Number \in Nat
  BY <1>2, <1>3, SlotFits, RoundIs
<1>5. pivots \in Seq(1..Len(cnt)) /\ Len(pivots) \in Nat
  BY <1>2 DEF RoundFacts
<1>6. pivots' \in Seq(1..Len(cnt)) /\ Len(pivots') = Len(pivots) + Pivots!Number
  BY <1>1, <1>4, <1>5, ConcatProperties
<1>7. AskedFacts' /\ Pivots!keyCount' = Pivots!keyCount /\ Pivots!Number' = Pivots!Number
      /\ Pivots!Round' = Pivots!Round
  BY <1>1, <1>2 DEF AskedFacts, Pivots!keyCount, Pivots!KeysIn, Pivots!PartialSum, Pivots!maxKey,
     Pivots!Number, Pivots!Round, Pivots!Width, Pivots!Increment
<1>8. CASE slots = Slots
  <2>1. pivots = <<>>
    BY <1>1, <1>2, <1>8 DEF FirstRound
  <2>2. pivots' = Pivots!Round
    BY <1>1, <1>4, <2>1, ConcatEmptySeq
  <2>3. activity' = "histogram"
    BY <1>1, <1>4, <2>2
  <2>4. RoundFacts'
    BY <1>1, <1>2, <1>4, <1>6, <1>7, <1>8, <2>3 DEF RoundFacts
  <2>5. FirstRound'
    BY <1>1, <1>7, <2>2, <2>3 DEF FirstRound
  <2> QED BY <1>7, <2>4, <2>5 DEF PartitionInv
<1>9. CASE slots # Slots
  <2>1. slots = 2 * Slots /\ pivots # <<>>
    BY <1>3, <1>9
  <2>2. Len(pivots) # 0
    BY <1>5, <2>1
  <2>3. Len(pivots') # nPivots' /\ Len(pivots') # 0
    BY <1>1, <1>4, <1>5, <1>6, <2>2
  <2>4. activity' = "assert" /\ pivots' # <<>>
    BY <1>1, <2>3
  <2>5. RoundFacts'
    BY <1>1, <1>2, <1>4, <1>6, <1>7, <2>1, <2>4 DEF RoundFacts
  <2>6. FirstRound'
    BY <1>1, <1>9 DEF FirstRound
  <2> QED BY <1>7, <2>5, <2>6 DEF PartitionInv
<1> QED BY <1>8, <1>9

LEMMA PartitionGetHistogram == ASSUME PartitionAssumed, PartitionInv, Pivots!GetHistogram PROVE PartitionInv'
<1>1. /\ activity = "histogram" /\ histogram' = Pivots!SlotCounts
      /\ UNCHANGED <<cnt, nWorkers, nPivots, pivots, result>>
  BY DEF Pivots!GetHistogram
<1>2. AskedFacts /\ RoundFacts /\ FirstRound /\ Slots \in Nat \ {0} /\ Slots <= MaxSlots
  BY DEF PartitionInv, PartitionAssumed
<1>3. slots = Slots /\ slots \in Nat \ {0} /\ nPivots = Pivots!Number /\ pivots = Pivots!Round
  BY <1>1, <1>2 DEF RoundFacts, FirstRound
<1>4. /\ Len(pivots) = Pivots!Number /\ Pivots!Number \in Nat \ {0}
      /\ \A i, j \in 1..Len(pivots) : i < j => pivots[i] < pivots[j]
  BY <1>2, <1>3, RoundIs
<1>5. pivots \in Seq(1..Len(cnt)) /\ Len(cnt) \in Nat
  BY <1>2 DEF RoundFacts, AskedFacts
<1>6. Pivots!SlotCounts \in Seq(0..Pivots!keyCount)
  <2> DEFINE n == Len(pivots)
             M == Len(cnt)
             F(i) == Pivots!KeysIn(IF i = 1 THEN 0 ELSE pivots[i - 1], pivots[i])
             K == Pivots!keyCount
  <2>1. ASSUME NEW i \in 1..n PROVE F(i) \in 0..K
    <3> DEFINE lo == IF i = 1 THEN 0 ELSE pivots[i - 1]
               hi == pivots[i]
    <3>1. lo \in 0..M /\ hi \in 0..M /\ lo <= hi
      <4>1. hi \in 1..M
        BY <1>5
      <4>2. CASE i = 1
        BY <1>5, <4>1, <4>2
      <4>3. CASE i # 1
        <5>1. i - 1 \in 1..n /\ i - 1 < i
          BY <1>4, <4>3
        <5>2. lo \in 1..M /\ lo < hi
          BY <1>4, <1>5, <4>3, <5>1
        <5> HIDE DEF lo, hi
        <5> QED BY <1>5, <4>1, <5>2
      <4> QED BY <4>2, <4>3
    <3> HIDE DEF lo, hi
    <3>2. Pivots!KeysIn(lo, hi) \in 0..K
      BY <1>2, <3>1, KeyFacts
    <3> QED BY <3>2 DEF lo, hi
  <2>2. Pivots!SlotCounts = [i \in 1..n |-> F(i)]
    BY DEF Pivots!SlotCounts
  <2>3. n \in Nat
    BY <1>4
  <2> HIDE DEF F, K, n
  <2> QED BY <2>1, <2>2, <2>3 DEF K
<1>7. AskedFacts' /\ Pivots!keyCount' = Pivots!keyCount
      /\ Pivots!SlotCounts' = Pivots!SlotCounts
  BY <1>1, <1>2 DEF AskedFacts, Pivots!keyCount, Pivots!KeysIn, Pivots!PartialSum, Pivots!maxKey,
     Pivots!SlotCounts
<1>8. slots * nWorkers \in Nat /\ nPivots \in 1..(slots * nWorkers)
  BY <1>2, <1>3, SlotFits
<1>9. CASE slots' = 2 * slots /\ activity' = "pivots"
  <2>1. pivots' # <<>>
    BY <1>1, <1>4
  <2>2. nPivots \in 0..(slots' * nWorkers)
    <3>1. slots' * nWorkers = (slots * nWorkers) + (slots * nWorkers)
      BY <1>2, <1>3, <1>9 DEF AskedFacts
    <3> QED BY <1>8, <3>1
  <2>3. RoundFacts'
    BY <1>1, <1>2, <1>3, <1>5, <1>6, <1>7, <1>9, <2>1, <2>2 DEF RoundFacts
  <2>4. slots' # Slots
    BY <1>2, <1>3, <1>9
  <2>5. FirstRound'
    BY <2>4 DEF FirstRound
  <2> QED BY <1>7, <2>3, <2>5 DEF PartitionInv
<1>10. CASE ~Pivots!TooFull(histogram') /\ activity' = "split" /\ slots' = slots
  <2>1. RoundFacts'
    <3>1. nPivots \in 0..(slots' * nWorkers)
      BY <1>8, <1>10
    <3> QED BY <1>1, <1>2, <1>3, <1>5, <1>6, <1>7, <1>10, <3>1 DEF RoundFacts
  <2>2. Pivots!Number' = Pivots!Number /\ Pivots!Round' = Pivots!Round
    BY <1>1, <1>10 DEF Pivots!maxKey, Pivots!Number, Pivots!Round, Pivots!Width, Pivots!Increment
  <2>3. ~Pivots!TooFull(histogram)'
    BY <1>1, <1>7, <1>10 DEF Pivots!TooFull
  <2>4. FirstRound'
    BY <1>1, <1>3, <1>7, <1>10, <2>2, <2>3 DEF FirstRound
  <2> QED BY <1>7, <2>1, <2>4 DEF PartitionInv
<1>11. (slots' = 2 * slots /\ activity' = "pivots")
       \/ (~(Pivots!TooFull(histogram') /\ slots <= MaxSlots) /\ activity' = "split" /\ slots' = slots)
  BY DEF Pivots!GetHistogram
<1>12. slots <= MaxSlots
  BY <1>2, <1>3
<1> QED BY <1>9, <1>10, <1>11, <1>12

LEMMA PartitionSplit == ASSUME PartitionAssumed, PartitionInv, Pivots!Split PROVE PartitionInv'
<1>1. activity = "split" /\ UNCHANGED <<cnt, nWorkers, slots, nPivots, pivots, histogram>>
  BY DEF Pivots!Split
<1>2. AskedFacts /\ RoundFacts /\ FirstRound /\ nWorkers \in Nat \ {0}
  BY DEF PartitionInv, AskedFacts
<1>3. slots = Slots
  BY <1>1, <1>2 DEF RoundFacts
<1>4. Pivots!Cum(nPivots) = Pivots!keyCount /\ \A i \in 1..nPivots : pivots[i] \in 1..Len(cnt)
  BY <1>1, <1>3, CumIs
<1> DEFINE A == [i \in 1..nWorkers |->
                   IF i < nWorkers THEN pivots[Pivots!SlotOf(i * Pivots!perWorker)] ELSE Len(cnt)]
<1>5. activity' = "done" /\ result' = A
  BY <1>4 DEF Pivots!Split, Pivots!maxKey
<1>6. A \in Seq(1..Len(cnt))
  <2>1. Len(cnt) \in 1..Len(cnt)
    BY <1>2 DEF AskedFacts
  <2>2. ASSUME NEW i \in 1..nWorkers, i < nWorkers
        PROVE  pivots[Pivots!SlotOf(i * Pivots!perWorker)] \in 1..Len(cnt)
    <3>1. i \in 1..(nWorkers - 1)
      BY <1>2, <2>2
    <3>2. Pivots!SlotOf(i * Pivots!perWorker) \in 1..nPivots
      BY <1>1, <1>3, <3>1, PivotIs
    <3> QED BY <1>4, <3>2
  <2>3. A \in [1..nWorkers -> 1..Len(cnt)]
    BY <2>1, <2>2
  <2> HIDE DEF A
  <2> QED BY <1>2, <2>3
<1>7. /\ AskedFacts' /\ Pivots!keyCount' = Pivots!keyCount /\ Pivots!perWorker' = Pivots!perWorker
      /\ Pivots!SlotCounts' = Pivots!SlotCounts
      /\ Pivots!Number' = Pivots!Number /\ Pivots!Round' = Pivots!Round
      /\ Pivots!TooFull(histogram)' = Pivots!TooFull(histogram)
  BY <1>1, <1>2 DEF AskedFacts, Pivots!keyCount, Pivots!KeysIn, Pivots!PartialSum, Pivots!maxKey,
     Pivots!perWorker, Pivots!SlotCounts, Pivots!Number, Pivots!Round, Pivots!Width, Pivots!Increment,
     Pivots!TooFull
<1>8. \A x : Pivots!SlotOf(x)' = Pivots!SlotOf(x)
  BY <1>1 DEF Pivots!SlotOf, Pivots!Cum, Pivots!PartialSum
<1>9. RoundFacts'
  BY <1>1, <1>2, <1>3, <1>5, <1>6, <1>7 DEF RoundFacts
<1>10. A' = A
  BY <1>1, <1>7, <1>8
<1>11. FirstRound'
  BY <1>1, <1>2, <1>3, <1>5, <1>7, <1>10 DEF FirstRound
<1> QED BY <1>7, <1>9, <1>11 DEF PartitionInv

LEMMA PartitionInvariance == PartitionAssumed => (Pivots!Spec => []PartitionInv)
<1> SUFFICES ASSUME PartitionAssumed PROVE Pivots!Spec => []PartitionInv
  OBVIOUS
<1>1. Pivots!Init => PartitionInv
  BY PartitionStart
<1>2. PartitionInv /\ [Pivots!Next]_Pivots!vars => PartitionInv'
  <2> SUFFICES ASSUME PartitionInv, [Pivots!Next]_Pivots!vars PROVE PartitionInv'
    OBVIOUS
  <2>1. CASE Pivots!Next
    BY <2>1, PartitionMakePivots, PartitionGetHistogram, PartitionSplit DEF Pivots!Next
  <2>2. CASE UNCHANGED Pivots!vars
    <3>1. UNCHANGED <<cnt, nWorkers, slots, nPivots, pivots, histogram, activity, result>>
      BY <2>2 DEF Pivots!vars
    <3>2. /\ AskedFacts' /\ Pivots!keyCount' = Pivots!keyCount /\ Pivots!perWorker' = Pivots!perWorker
          /\ Pivots!SlotCounts' = Pivots!SlotCounts
          /\ Pivots!Number' = Pivots!Number /\ Pivots!Round' = Pivots!Round
          /\ Pivots!TooFull(histogram)' = Pivots!TooFull(histogram)
      BY <3>1 DEF PartitionInv, AskedFacts, Pivots!keyCount, Pivots!KeysIn, Pivots!PartialSum, Pivots!maxKey,
         Pivots!perWorker, Pivots!SlotCounts, Pivots!Number, Pivots!Round, Pivots!Width, Pivots!Increment,
         Pivots!TooFull
    <3>3. \A x : Pivots!SlotOf(x)' = Pivots!SlotOf(x)
      BY <3>1 DEF Pivots!SlotOf, Pivots!Cum, Pivots!PartialSum
    <3>4. RoundFacts' /\ FirstRound'
      BY <3>1, <3>2, <3>3 DEF PartitionInv, RoundFacts, FirstRound
    <3> QED BY <3>2, <3>4 DEF PartitionInv
  <2> QED BY <2>1, <2>2
<1> QED BY <1>1, <1>2, PTL DEF Pivots!Spec

-----------------------------------------------------------------------------
(* The result. *)

(* The keys up to the pivot of worker i, 0 of them before the first. *)
KeysTo(i) == IF i = 0 THEN 0 ELSE Pivots!PartialSum(cnt)[result[i]]

LEMMA ResultIs ==
  ASSUME PartitionAssumed, PartitionInv, activity = "done"
  PROVE  LET w == Pivots!perWorker
             slot == (2 * Pivots!keyCount) \div nPivots
         IN  /\ Len(result) = nWorkers /\ result[nWorkers] = Len(cnt)
             /\ KeysTo(nWorkers) = Pivots!keyCount
             /\ nPivots \in Nat \ {0} /\ slot \in Nat
             /\ \A i \in 0..(nWorkers - 1) :
                  /\ KeysTo(i) \in Nat /\ i * w <= KeysTo(i) /\ KeysTo(i) <= i * w + slot
                  /\ slot <= w /\ w >= 1 => KeysTo(i) < i * w + w
<1> DEFINE w == Pivots!perWorker
           slot == (2 * Pivots!keyCount) \div nPivots
           N == nWorkers
           P == Pivots!PartialSum(cnt)
<1>1. AskedFacts /\ RoundFacts /\ FirstRound /\ N \in Nat \ {0}
  BY DEF PartitionInv, AskedFacts
<1>2. slots = Slots
  BY <1>1 DEF RoundFacts
<1>3. result = [i \in 1..N |-> IF i < N THEN pivots[Pivots!SlotOf(i * w)] ELSE Len(cnt)]
  BY <1>1, <1>2 DEF FirstRound
<1>4. Len(result) = N /\ result[N] = Len(cnt)
  BY <1>1, <1>3
<1>5. P[Len(cnt)] = Pivots!keyCount /\ Pivots!keyCount \in Nat /\ w \in Nat
  BY <1>1, KeyFacts, PerWorker
<1>6. nPivots \in Nat \ {0} /\ slot \in Nat
  <2>1. nPivots \in Nat \ {0} /\ 2 * Pivots!keyCount \in Nat
    BY <1>2, <1>5, CumIs
  <2> QED BY <2>1, Quotient
<1>7. KeysTo(N) = Pivots!keyCount
  BY <1>1, <1>4, <1>5 DEF KeysTo
<1>8. ASSUME NEW i \in 0..(N - 1)
      PROVE  /\ KeysTo(i) \in Nat /\ i * w <= KeysTo(i) /\ KeysTo(i) <= i * w + slot
             /\ slot <= w /\ w >= 1 => KeysTo(i) < i * w + w
  <2>1. CASE i = 0
    <3>1. KeysTo(i) = 0 /\ i * w = 0
      BY <1>5, <2>1 DEF KeysTo
    <3> HIDE DEF w, slot
    <3> QED BY <1>5, <1>6, <3>1
  <2>2. CASE i # 0
    <3> DEFINE j == Pivots!SlotOf(i * w)
    <3>1. i \in 1..(nWorkers - 1) /\ i \in 1..N /\ i < N
      BY <1>1, <2>2
    <3>2. /\ j \in 1..nPivots /\ i * w <= Pivots!Cum(j) /\ Pivots!Cum(j) <= i * w + slot
          /\ slot <= w /\ w >= 1 => Pivots!Cum(j) < i * w + w
      BY <1>2, <3>1, PivotIs
    <3>3. Pivots!Cum(j) = P[pivots[j]] /\ Pivots!Cum(j) \in Nat
      BY <1>2, <3>2, CumIs
    <3>4. result[i] = pivots[j]
      BY <1>3, <3>1
    <3>5. KeysTo(i) = Pivots!Cum(j)
      BY <2>2, <3>3, <3>4 DEF KeysTo
    <3> HIDE DEF w, slot, j
    <3> QED BY <3>2, <3>3, <3>5
  <2> QED BY <2>1, <2>2
<1> QED BY <1>4, <1>6, <1>7, <1>8

LEMMA ResultBalanced == ASSUME PartitionAssumed, PartitionInv PROVE Pivots!Balanced
<1> SUFFICES ASSUME activity = "done" PROVE Pivots!Balanced
  BY DEF Pivots!Balanced
<1> DEFINE w == Pivots!perWorker
           K == Pivots!keyCount
           slot == (2 * K) \div nPivots
           N == nWorkers
           Q(i) == KeysTo(i)
           Share(i) == Pivots!Share(i)
<1>1. AskedFacts /\ N \in Nat \ {0}
  BY DEF PartitionInv, AskedFacts
<1>2. /\ w \in Nat /\ K < N * w + N /\ N * w <= K /\ N * w \in Nat
      /\ \A i \in 0..N : i * w \in Nat /\ (i + 1) * w = i * w + w
  <2>1. N \in 0..N
    BY <1>1
  <2> QED BY <1>1, <2>1, PerWorker
<1>3. K \in Nat /\ Pivots!PartialSum(cnt)[0] = 0
  BY <1>1, KeyFacts
<1>4. /\ slot \in Nat /\ Q(N) = K
      /\ \A i \in 0..(N - 1) : Q(i) \in Nat /\ i * w <= Q(i) /\ Q(i) <= i * w + slot
  BY ResultIs
<1>5. \A i \in 1..N : Share(i) = Q(i) - Q(i - 1)
  <2>1. ASSUME NEW i \in 1..N PROVE Share(i) = Q(i) - Q(i - 1)
    <3>1. i # 0 /\ (i = 1 <=> i - 1 = 0)
      BY <1>1
    <3>2. Share(i) = Pivots!PartialSum(cnt)[result[i]]
                       - Pivots!PartialSum(cnt)[IF i = 1 THEN 0 ELSE result[i - 1]]
      BY DEF Pivots!Share, Pivots!KeysIn
    <3> QED BY <1>3, <3>1, <3>2 DEF KeysTo
  <2> QED BY <2>1
<1>6. Pivots!Balanced <=>
        /\ \A i \in 1..(N - 1) : Share(i) <= w + slot /\ w <= Share(i) + slot
        /\ Share(N) < w + N
        /\ w <= Share(N) + slot
  BY DEF Pivots!Balanced
<1> HIDE DEF w, K, slot, N, Q, Share
<1>7. ASSUME NEW i \in 1..(N - 1) PROVE Share(i) <= w + slot /\ w <= Share(i) + slot
  <2>1. i \in 1..N /\ i \in 0..(N - 1) /\ i - 1 \in 0..(N - 1) /\ i - 1 \in 0..N /\ (i - 1) + 1 = i
    BY <1>1
  <2> DEFINE x == (i - 1) * w
             a == Q(i - 1)
             b == Q(i)
  <2>2. x \in Nat /\ i * w = x + w
    BY <1>2, <2>1
  <2>3. a \in Nat /\ b \in Nat /\ x <= a /\ a <= x + slot /\ x + w <= b /\ b <= (x + w) + slot
    BY <1>4, <2>1, <2>2
  <2>4. Share(i) = b - a
    BY <1>5, <2>1
  <2> HIDE DEF x, a, b
  <2> QED BY <1>2, <1>4, <2>2, <2>3, <2>4
<1>8. Share(N) < w + N /\ w <= Share(N) + slot
  <2>1. N \in 1..N /\ N - 1 \in 0..(N - 1) /\ N - 1 \in 0..N /\ (N - 1) + 1 = N
    BY <1>1
  <2> DEFINE x == (N - 1) * w
             a == Q(N - 1)
  <2>2. x \in Nat /\ N * w = x + w
    BY <1>2, <2>1
  <2>3. a \in Nat /\ x <= a /\ a <= x + slot
    BY <1>4, <2>1
  <2>4. Share(N) = K - a
    BY <1>4, <1>5, <2>1
  <2> HIDE DEF x, a
  <2> QED BY <1>1, <1>2, <1>3, <1>4, <2>2, <2>3, <2>4
<1> QED BY <1>6, <1>7, <1>8

LEMMA ResultAccepted == ASSUME PartitionAssumed, PartitionInv PROVE Pivots!Accepted
<1> SUFFICES ASSUME activity = "done", Pivots!keyCount >= nWorkers, nPivots >= 2 * nWorkers
             PROVE  /\ Len(result) = nWorkers /\ result[nWorkers] = Len(cnt)
                    /\ \A i \in 1..(nWorkers - 1) : result[i] < result[i + 1]
  BY DEF Pivots!Accepted, Pivots!maxKey
<1> DEFINE w == Pivots!perWorker
           K == Pivots!keyCount
           n == nPivots
           slot == (2 * K) \div n
           N == nWorkers
           P == Pivots!PartialSum(cnt)
           M == Len(cnt)
<1>1. AskedFacts /\ N \in Nat \ {0} /\ result \in Seq(1..M) /\ M \in Nat
  BY DEF PartitionInv, AskedFacts, RoundFacts
<1>2. /\ w \in Nat /\ K < N * w + N /\ N * w <= K
      /\ \A i \in 0..N : i * w \in Nat /\ (i + 1) * w = i * w + w
  <2>1. N \in 0..N
    BY <1>1
  <2> QED BY <1>1, <2>1, PerWorker
<1>3. K \in Nat /\ K >= N
  BY <1>1, KeyFacts
<1>4. /\ n \in Nat \ {0} /\ slot \in Nat /\ Len(result) = N /\ result[N] = M /\ KeysTo(N) = K
      /\ \A i \in 0..(N - 1) :
           /\ KeysTo(i) \in Nat /\ i * w <= KeysTo(i)
           /\ slot <= w /\ w >= 1 => KeysTo(i) < i * w + w
  BY ResultIs
<1>5. \A lo, hi \in 0..M : P[lo] \in Nat /\ P[hi] \in Nat /\ (lo <= hi => P[lo] <= P[hi])
  BY <1>1, KeyFacts
<1>6. \A i \in 1..N : KeysTo(i) = P[result[i]]
  BY <1>1 DEF KeysTo
<1>7. n * slot <= 2 * K
  <2>1. 2 * K \in Nat
    BY <1>3
  <2> QED BY <1>4, <2>1, Quotient
<1>8. n >= 2 * N
  OBVIOUS
<1> HIDE DEF w, K, n, slot, N, P, M
<1>9. w >= 1
  <2>1. w = 0 => N * w = 0
    BY <1>1
  <2> QED BY <1>1, <1>2, <1>3, <2>1
<1>10. slot <= w
  <2>1. (2 * N) * slot <= n * slot
    <3>1. 2 * N \in Nat /\ 2 * N <= n /\ n \in Nat
      BY <1>1, <1>4, <1>8
    <3> QED BY <1>4, <3>1, Products
  <2>2. (2 * N) * slot = 2 * (N * slot) /\ N * slot \in Nat /\ n * slot \in Nat
    BY <1>1, <1>4
  <2>3. N * slot <= K
    BY <1>3, <1>7, <2>1, <2>2
  <2>4. w + 1 <= slot => N * (w + 1) <= N * slot
    <3>1. w + 1 \in Nat
      BY <1>2
    <3> QED BY <1>1, <1>4, <3>1, Products
  <2>5. N * (w + 1) = N * w + N /\ N * w \in Nat
    BY <1>1, <1>2
  <2> QED BY <1>1, <1>2, <1>3, <1>4, <2>2, <2>3, <2>4, <2>5
<1>11. ASSUME NEW i \in 1..(N - 1) PROVE result[i] < result[i + 1]
  <2>1. i \in 1..N /\ i + 1 \in 1..N /\ i \in 0..(N - 1) /\ i \in 0..N /\ (i + 1 \in 0..(N - 1) \/ i + 1 = N)
    BY <1>1
  <2> DEFINE r == result[i]
             s == result[i + 1]
  <2>2. r \in 1..M /\ s \in 1..M
    BY <1>1, <1>4, <2>1, ElementOfSeq
  <2>3. P[r] < i * w + w
    BY <1>4, <1>6, <1>9, <1>10, <2>1
  <2>4. (i + 1) * w <= P[s]
    <3>1. CASE i + 1 \in 0..(N - 1)
      BY <1>4, <1>6, <2>1, <3>1
    <3>2. CASE i + 1 = N
      BY <1>2, <1>4, <1>6, <2>1, <3>2
    <3> QED BY <2>1, <3>1, <3>2
  <2>5. i * w \in Nat /\ (i + 1) * w = i * w + w
    BY <1>2, <2>1
  <2>6. r \in 0..M /\ s \in 0..M
    BY <1>1, <2>2
  <2> HIDE DEF r, s
  <2>7. P[r] < P[s] /\ P[r] \in Nat /\ P[s] \in Nat
    <3>1. P[r] \in Nat /\ P[s] \in Nat
      BY <1>5, <2>6
    <3> QED BY <1>2, <2>3, <2>4, <2>5, <3>1
  <2>8. ~(s <= r)
    <3>1. s <= r => P[s] <= P[r]
      BY <1>5, <2>6
    <3> QED BY <2>7, <3>1
  <2>9. r < s
    BY <1>1, <2>6, <2>8
  <2> QED BY <2>9 DEF r, s
<1> QED BY <1>4, <1>11 DEF N, M

(* partition of partition.h, for all keys, workers and slots: the first    *)
(* histogram misses no key, so the assertion of line 78 holds; the pivots  *)
(* strictly increase up to maxKey if there are two slots and a key for     *)
(* each worker; and no worker's share is off the average by more than a    *)
(* slot may hold, though every division rounds.                            *)
THEOREM PartitionIsRight == PartitionAssumed => (Pivots!Spec => []PivotsRight)
<1> SUFFICES ASSUME PartitionAssumed PROVE Pivots!Spec => []PivotsRight
  OBVIOUS
<1>1. PartitionInv => PivotsRight
  <2> SUFFICES ASSUME PartitionInv PROVE PivotsRight
    OBVIOUS
  <2>1. AskedFacts /\ RoundFacts /\ MaxSlots \in Nat /\ Slots \in 1..MaxSlots
    BY DEF PartitionInv, PartitionAssumed
  <2>2. slots \in Slots..(2 * MaxSlots)
    BY <2>1 DEF RoundFacts
  <2>3. Pivots!TypeOK
    <3>1. /\ \A i \in 1..Len(pivots) : pivots[i] \in 1..Len(cnt)
          /\ \A i \in 1..Len(histogram) : histogram[i] \in 0..Pivots!keyCount
          /\ \A i \in 1..Len(result) : result[i] \in 1..Len(cnt)
      BY <2>1, ElementOfSeq DEF RoundFacts
    <3> QED BY <2>1, <2>2, <3>1 DEF RoundFacts, Pivots!TypeOK, Pivots!maxKey
  <2>4. Pivots!FirstRoundCounts
    BY <2>1 DEF RoundFacts, Pivots!FirstRoundCounts
  <2> QED BY <2>3, <2>4, ResultBalanced, ResultAccepted DEF PivotsRight, Pivots!PivotsRight
<1> QED BY <1>1, PartitionInvariance, PTL
=============================================================================
