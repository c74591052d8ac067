--------------------------- MODULE WordfreqProofs ---------------------------
(***************************************************************************)
(* Proofs about the shuffle of module Wordfreq: no request of the pool and *)
(* no key is lost or doubled between the shuffle threads, the loops and    *)
(* the peers, and a worker that reports to be done has delivered what      *)
(* GetHistogram counted.  The second half is about the controller that     *)
(* gathers the workers before, module WordControl.                         *)
(*                                                                         *)
(* The inductive invariant follows a key through its stages.  A key of     *)
(* worker w is ahead of the thread, in the request of its partition, in    *)
(* one request on its way, or with the peer; which of them is determined   *)
(* by one disjunct (OneStage), and Contents says that only the place of    *)
(* its partition can hold it.  Pool counts requests: what is free or on    *)
(* its way is bounded by what the phase of the thread leaves.              *)
(***************************************************************************)
EXTENDS Wordfreq, WordControlInstance, FiniteSetTheorems, SequenceTheorems, NaturalsInduction, TLAPS

(* The keys that there are. *)
Real(e) == e \in Keys /\ e[2] <= Len(keys[e[1]])

(* The stages of a key. *)
Unsorted(e) == phase[e[1]] \in {"keys", "take"} /\ next[e[1]] <= e[2]
InBatch(e) == e \in batch[e[1]][PartitionOf(e)]
Flying(e) == \E i \in 1..Len(flight[e[1]][PartitionOf(e)]) :
                e \in flight[e[1]][PartitionOf(e)][i]
Arrived(e) == e \in got[PartitionOf(e)]

BaseType ==
  /\ keys \in [Workers -> Shards]
  /\ pivots \in [Workers -> 1..MaxKey]
  /\ \A w \in Workers : ValidPivots(w, pivots)
  /\ calls \in [Workers -> 0..MaxCalls]
  /\ phase \in [Workers -> {"idle", "keys", "take", "rest", "drain", "over"}]
  /\ next \in [Workers -> Nat \ {0}]
  /\ batch \in [Workers -> [Workers -> SUBSET Keys]]
  /\ free \in [Workers -> Nat]
  /\ flight \in [Workers -> [Workers -> Seq(SUBSET Keys)]]
  /\ answers \in [Workers -> Nat]
  /\ partition \in [Workers -> 0..N]
  /\ got \in [Workers -> SUBSET Keys]
  /\ dones \in [Workers -> Seq({"elapsed", "default", "error"})]

(* Where the thread of w is, and what its pool has then. *)
Pool(w) ==
  /\ \A p \in Workers : Len(flight[w][p]) <= ConcurrentRequests
  /\ phase[w] = "idle" => next[w] = 1 /\ free[w] + InFlight(w) = 0
  /\ phase[w] = "keys" => free[w] + InFlight(w) = ConcurrentRequests - N
  /\ phase[w] = "take" => free[w] + InFlight(w) = ConcurrentRequests - N + 1
  /\ phase[w] = "rest" => /\ next[w] <= N
                          /\ free[w] + InFlight(w) <= ConcurrentRequests - N + (next[w] - 1)
  /\ phase[w] = "drain" => /\ next[w] >= N + 1
                           /\ free[w] + InFlight(w) <= ConcurrentRequests - (next[w] - (N + 1))
  /\ phase[w] = "over" => free[w] + InFlight(w) = 0

(* A request holds keys of its worker and its partition. *)
Contents ==
  /\ \A w, p \in Workers : \A e \in batch[w][p] : Real(e) /\ e[1] = w /\ PartitionOf(e) = p
  /\ \A w, p \in Workers : \A i \in 1..Len(flight[w][p]) :
       \A e \in flight[w][p][i] : Real(e) /\ e[1] = w /\ PartitionOf(e) = p
  /\ \A p \in Workers : \A e \in got[p] : Real(e) /\ PartitionOf(e) = p

FlightOnce ==
  \A w, p \in Workers : \A i, j \in 1..Len(flight[w][p]) :
    \A e \in flight[w][p][i] : e \in flight[w][p][j] => i = j

(* A key is in one stage, and in none before ShuffleKey. *)
OneStage ==
  \A e \in Keys : Real(e) =>
    /\ phase[e[1]] = "idle" => ~InBatch(e) /\ ~Flying(e) /\ ~Arrived(e)
    /\ phase[e[1]] # "idle" => Unsorted(e) \/ InBatch(e) \/ Flying(e) \/ Arrived(e)
    /\ Unsorted(e) => ~InBatch(e) /\ ~Flying(e) /\ ~Arrived(e)
    /\ InBatch(e) => ~Flying(e) /\ ~Arrived(e)
    /\ Flying(e) => ~Arrived(e)

(* The requests that the thread has passed are empty. *)
BatchSent ==
  \A w, p \in Workers :
    \/ phase[w] \in {"drain", "over"}
    \/ phase[w] = "rest" /\ p < next[w]
    => batch[w][p] = {}

(* partition_ is set by the first request. *)
PartitionSet ==
  \A p \in Workers : partition[p] \in {0, p} /\ (got[p] # {} => partition[p] = p)

IndInv ==
  /\ BaseType
  /\ \A w \in Workers : Pool(w)
  /\ Contents /\ FlightOnce
  /\ OneStage
  /\ BatchSent /\ PartitionSet

-----------------------------------------------------------------------------
(* Numbers, shards and partitions. *)

LEMMA EnoughRequests == ConcurrentRequests \in Nat /\ ConcurrentRequests >= N
<1>1. N * KConcurrency \in Nat /\ N * KConcurrency = N + N * (KConcurrency - 1)
  BY NAssumption, ConcurrencyAssumption
<1>2. KConcurrency - 1 \in Nat
  BY ConcurrencyAssumption
<1>3. N * (KConcurrency - 1) \in Nat
  BY <1>2, NAssumption
<1> QED BY <1>1, <1>3, NAssumption DEF ConcurrentRequests

LEMMA LeastNatural ==
  ASSUME NEW T, T \subseteq Nat, T # {}
  PROVE  \E m \in T : \A k \in T : m <= k
<1>1. PICK m \in T : \A y \in T : ~(<<y, m>> \in OpToRel(<, Nat))
  BY NatLessThanWellFounded, WFMin
<1>2. \A y \in T : ~(y < m)
  BY <1>1 DEF OpToRel
<1> QED BY <1>2

LEMMA ShardFacts ==
  ASSUME NEW s \in Shards
  PROVE  /\ s \in Seq(1..MaxKey) /\ Len(s) \in 0..MaxShard
         /\ \A i \in 1..Len(s) : s[i] \in 1..MaxKey
<1>1. PICK n \in 0..MaxShard : s \in [1..n -> 1..MaxKey]
  BY DEF Shards
<1>2. s \in Seq(1..MaxKey) /\ Len(s) = n
  BY <1>1, BoundsAssumption
<1> QED BY <1>1, <1>2

LEMMA MaxKeyBounds ==
  ASSUME BaseType, NEW w \in Workers
  PROVE  MaxKeyOf(w) \in Nat /\ \A i \in 1..Len(keys[w]) : keys[w][i] <= MaxKeyOf(w)
<1>1. /\ keys[w] \in Shards /\ Len(keys[w]) \in Nat
      /\ \A i \in 1..Len(keys[w]) : keys[w][i] \in 1..MaxKey
  BY ShardFacts DEF BaseType
<1> DEFINE T == {k \in 0..MaxKey : \A i \in 1..Len(keys[w]) : keys[w][i] <= k}
<1>2. MaxKey \in T /\ T \subseteq Nat
  BY <1>1, BoundsAssumption
<1>3. PICK m \in T : \A k \in T : m <= k
  BY <1>2, LeastNatural
<1>4. m = 0 \/ \E i \in 1..Len(keys[w]) : keys[w][i] = m
  <2> SUFFICES ASSUME m # 0, \A i \in 1..Len(keys[w]) : keys[w][i] # m PROVE FALSE
    OBVIOUS
  <2>1. m - 1 \in 0..MaxKey
    BY <1>3, BoundsAssumption
  <2>2. \A i \in 1..Len(keys[w]) : keys[w][i] <= m - 1
    BY <1>1, <1>3, BoundsAssumption
  <2>3. m - 1 \in T
    BY <2>1, <2>2
  <2>4. m \in Nat
    BY <1>2, <1>3
  <2> HIDE DEF T
  <2> QED BY <1>3, <2>3, <2>4
<1>5. \E k \in 0..MaxKey :
        /\ \A i \in 1..Len(keys[w]) : keys[w][i] <= k
        /\ k = 0 \/ \E i \in 1..Len(keys[w]) : keys[w][i] = k
  BY <1>3, <1>4
<1>6. /\ MaxKeyOf(w) \in 0..MaxKey
      /\ \A i \in 1..Len(keys[w]) : keys[w][i] <= MaxKeyOf(w)
  BY <1>5 DEF MaxKeyOf
<1> QED BY <1>6, BoundsAssumption

(* lower_bound finds a pivot for every key. *)
LEMMA PartitionExists ==
  ASSUME BaseType, NEW e, Real(e)
  PROVE  PartitionOf(e) \in Workers /\ e[1] \in Workers /\ e[2] \in 1..Len(keys[e[1]])
<1> DEFINE w == e[1]
           k == keys[e[1]][e[2]]
<1>1. w \in Workers /\ e[2] \in 1..MaxShard /\ keys[w] \in Shards
  BY DEF Real, Keys, BaseType
<1>2. e[2] \in 1..Len(keys[w]) /\ k \in 1..MaxKey
  BY <1>1, ShardFacts, BoundsAssumption DEF Real
<1>3. /\ \A q \in Workers : pivots[q] \in 1..MaxKey
      /\ Len(pivots) = N /\ pivots[N] >= MaxKeyOf(w)
  BY <1>1 DEF BaseType, ValidPivots
<1>4. N \in Workers
  BY NAssumption DEF Workers
<1>5. k <= pivots[N]
  BY <1>1, <1>2, <1>3, <1>4, MaxKeyBounds, BoundsAssumption, SMTT(40)
<1> DEFINE T == {q \in Workers : k <= pivots[q]}
<1>6. N \in T /\ T \subseteq Nat
  BY <1>4, <1>5, NAssumption DEF Workers
<1>7. PICK p \in T : \A q \in T : p <= q
  BY <1>6, LeastNatural
<1>8. \A q \in 1..(p - 1) : pivots[q] < k
  BY <1>2, <1>3, <1>7, NAssumption, BoundsAssumption, SMTT(40) DEF Workers
<1>9. \E x \in 1..Len(pivots) : k <= pivots[x] /\ \A q \in 1..(x - 1) : pivots[q] < k
  BY <1>3, <1>7, <1>8 DEF Workers
<1>10. PartitionOf(e) \in 1..Len(pivots)
  BY <1>9 DEF PartitionOf, Partition
<1> QED BY <1>1, <1>2, <1>3, <1>10 DEF Workers

-----------------------------------------------------------------------------
(* Counting what is on the way. *)

LEMMA OnTheWayFinite ==
  ASSUME NEW w \in Workers
  PROVE  IsFiniteSet(OnTheWay(w)) /\ Cardinality(OnTheWay(w)) \in Nat
<1>1. IsFiniteSet(1..N) /\ IsFiniteSet(1..ConcurrentRequests)
  BY FS_Interval, EnoughRequests, NAssumption
<1>2. IsFiniteSet(Workers \X (1..ConcurrentRequests))
  BY <1>1, FS_Product DEF Workers
<1>3. OnTheWay(w) \in SUBSET (Workers \X (1..ConcurrentRequests))
  BY DEF OnTheWay
<1>4. IsFiniteSet(OnTheWay(w))
  BY <1>2, <1>3, FS_Subset
<1> QED BY <1>4, FS_CardinalityType

(* No queue is longer than all of them. *)
LEMMA QueueCounted ==
  ASSUME BaseType, NEW w \in Workers, NEW p \in Workers,
         Len(flight[w][p]) <= ConcurrentRequests
  PROVE  Len(flight[w][p]) \in Nat /\ Len(flight[w][p]) <= Cardinality(OnTheWay(w))
<1> DEFINE n == Len(flight[w][p])
           Q == {p} \X (1..n)
<1>1. n \in Nat
  BY DEF BaseType
<1> HIDE DEF n
<1>2. IsFiniteSet(1..n) /\ Cardinality(1..n) = n
  BY <1>1, FS_Interval
<1>3. IsFiniteSet({p}) /\ Cardinality({p}) = 1
  BY FS_Singleton
<1>4. Cardinality(Q) = 1 * n
  BY <1>2, <1>3, FS_Product, ZenonT(60)
<1>5. \A x \in Q : x[1] = p /\ x[2] \in 1..n /\ x = <<x[1], x[2]>>
  OBVIOUS
<1>6. Q \subseteq OnTheWay(w)
  <2>1. SUFFICES ASSUME NEW x \in Q PROVE x \in OnTheWay(w)
    OBVIOUS
  <2>2. x[2] \in 1..ConcurrentRequests /\ x[2] <= Len(flight[w][x[1]])
    BY <1>1, <1>5, EnoughRequests DEF n
  <2>3. x \in Workers \X (1..ConcurrentRequests)
    BY <1>5, <2>2
  <2> QED BY <2>2, <2>3 DEF OnTheWay
<1>7. Cardinality(Q) <= Cardinality(OnTheWay(w))
  BY <1>6, OnTheWayFinite, FS_Subset
<1> QED BY <1>1, <1>4, <1>7 DEF n

LEMMA QueueReplaced ==
  ASSUME NEW S, NEW f \in [Workers -> [Workers -> S]], NEW w \in Workers, NEW p \in Workers,
         NEW t \in S, NEW g, g = [f EXCEPT ![w][p] = t]
  PROVE  /\ g \in [Workers -> [Workers -> S]]
         /\ g[w][p] = t
         /\ \A v, q \in Workers : v # w \/ q # p => g[v][q] = f[v][q]
  OBVIOUS

(* A request is put at the end of a queue. *)
LEMMA SentFlight ==
  ASSUME BaseType, NEW w \in Workers, NEW p \in Workers, NEW b \in SUBSET Keys,
         ShardKeyCall(w, p, b)
  PROVE  /\ flight' \in [Workers -> [Workers -> Seq(SUBSET Keys)]]
         /\ \A v, q \in Workers : v # w \/ q # p => flight'[v][q] = flight[v][q]
         /\ Len(flight'[w][p]) = Len(flight[w][p]) + 1
         /\ \A i \in 1..Len(flight[w][p]) : flight'[w][p][i] = flight[w][p][i]
         /\ flight'[w][p][Len(flight[w][p]) + 1] = b
<1>1. flight[w][p] \in Seq(SUBSET Keys) /\ flight[w] \in [Workers -> Seq(SUBSET Keys)]
  BY DEF BaseType
<1> DEFINE t == Append(flight[w][p], b)
<1>2. /\ t \in Seq(SUBSET Keys)
      /\ Len(t) = Len(flight[w][p]) + 1
      /\ \A i \in 1..Len(flight[w][p]) : t[i] = flight[w][p][i]
      /\ t[Len(flight[w][p]) + 1] = b
  BY <1>1
<1>3. flight' = [flight EXCEPT ![w][p] = t]
  BY DEF ShardKeyCall
<1> HIDE DEF t
<1>4. /\ flight' \in [Workers -> [Workers -> Seq(SUBSET Keys)]]
      /\ flight'[w][p] = t
      /\ \A v, q \in Workers : v # w \/ q # p => flight'[v][q] = flight[v][q]
  <2>1. flight \in [Workers -> [Workers -> Seq(SUBSET Keys)]] /\ t \in Seq(SUBSET Keys)
    BY <1>2 DEF BaseType
  <2> QED BY <1>3, <2>1, QueueReplaced
<1> QED BY <1>2, <1>4

LEMMA SentCounted ==
  ASSUME BaseType, NEW w \in Workers, NEW p \in Workers, NEW b \in SUBSET Keys,
         ShardKeyCall(w, p, b), Len(flight[w][p]) < ConcurrentRequests
  PROVE  /\ Cardinality(OnTheWay(w)') = Cardinality(OnTheWay(w)) + 1
         /\ \A v \in Workers : v # w => OnTheWay(v)' = OnTheWay(v)
<1>1. /\ \A v, q \in Workers : v # w \/ q # p => flight'[v][q] = flight[v][q]
      /\ Len(flight'[w][p]) = Len(flight[w][p]) + 1
  BY SentFlight
<1>2. Len(flight[w][p]) \in Nat
  BY DEF BaseType
<1> DEFINE n == Len(flight[w][p])
           z == <<p, n + 1>>
<1>3. z \in Workers \X (1..ConcurrentRequests) /\ z \notin OnTheWay(w)
  BY <1>2, EnoughRequests DEF OnTheWay
<1>4. \A x \in Workers \X (1..ConcurrentRequests) :
        x[2] <= Len(flight'[w][x[1]]) <=> x[2] <= Len(flight[w][x[1]]) \/ x = z
  <2>1. SUFFICES ASSUME NEW x \in Workers \X (1..ConcurrentRequests)
                 PROVE  x[2] <= Len(flight'[w][x[1]]) <=> x[2] <= Len(flight[w][x[1]]) \/ x = z
    OBVIOUS
  <2>2. x = <<x[1], x[2]>> /\ x[1] \in Workers /\ x[2] \in Nat
    BY EnoughRequests
  <2>3. CASE x[1] = p
    <3>1. x = z <=> x[2] = n + 1
      BY <2>2, <2>3
    <3>2. x[2] <= n + 1 <=> x[2] <= n \/ x[2] = n + 1
      BY <2>2, <1>2
    <3> QED BY <3>1, <3>2, <2>3, <1>1
  <2>4. CASE x[1] # p
    <3>1. x # z
      BY <2>2, <2>4
    <3> QED BY <3>1, <2>4, <2>2, <1>1
  <2> QED BY <2>3, <2>4
<1>5. OnTheWay(w)' = OnTheWay(w) \cup {z}
  BY <1>3, <1>4 DEF OnTheWay
<1>6. Cardinality(OnTheWay(w) \cup {z}) = Cardinality(OnTheWay(w)) + 1
  BY <1>3, OnTheWayFinite, FS_AddElement
<1>7. ASSUME NEW v \in Workers, v # w PROVE OnTheWay(v)' = OnTheWay(v)
  <2>1. \A x \in Workers \X (1..ConcurrentRequests) : flight'[v][x[1]] = flight[v][x[1]]
    BY <1>1, <1>7
  <2> QED BY <2>1 DEF OnTheWay
<1> QED BY <1>5, <1>6, <1>7

(* The first request of a queue is taken. *)
FirstTaken(w, p) == flight' = [flight EXCEPT ![w][p] = Tail(@)]

LEMMA TakenFlight ==
  ASSUME BaseType, NEW w \in Workers, NEW p \in Workers,
         flight[w][p] # <<>>, FirstTaken(w, p)
  PROVE  /\ flight' \in [Workers -> [Workers -> Seq(SUBSET Keys)]]
         /\ \A v, q \in Workers : v # w \/ q # p => flight'[v][q] = flight[v][q]
         /\ Len(flight[w][p]) \in Nat \ {0}
         /\ Len(flight'[w][p]) = Len(flight[w][p]) - 1
         /\ \A i \in 1..Len(flight'[w][p]) : flight'[w][p][i] = flight[w][p][i + 1]
         /\ Head(flight[w][p]) = flight[w][p][1]
         /\ Head(flight[w][p]) \in SUBSET Keys
<1>1. flight[w][p] \in Seq(SUBSET Keys) /\ flight[w] \in [Workers -> Seq(SUBSET Keys)]
  BY DEF BaseType
<1> DEFINE t == Tail(flight[w][p])
<1>2. /\ t \in Seq(SUBSET Keys)
      /\ Len(flight[w][p]) \in Nat \ {0}
      /\ Len(t) = Len(flight[w][p]) - 1
      /\ \A i \in 1..Len(t) : t[i] = flight[w][p][i + 1]
      /\ Head(flight[w][p]) = flight[w][p][1]
      /\ Head(flight[w][p]) \in SUBSET Keys
  BY <1>1
<1>3. flight' = [flight EXCEPT ![w][p] = t]
  BY DEF FirstTaken
<1> HIDE DEF t
<1>4. /\ flight' \in [Workers -> [Workers -> Seq(SUBSET Keys)]]
      /\ flight'[w][p] = t
      /\ \A v, q \in Workers : v # w \/ q # p => flight'[v][q] = flight[v][q]
  <2>1. flight \in [Workers -> [Workers -> Seq(SUBSET Keys)]] /\ t \in Seq(SUBSET Keys)
    BY <1>2 DEF BaseType
  <2> QED BY <1>3, <2>1, QueueReplaced
<1> QED BY <1>2, <1>4

LEMMA TakenCounted ==
  ASSUME BaseType, NEW w \in Workers, NEW p \in Workers,
         flight[w][p] # <<>>, FirstTaken(w, p),
         Len(flight[w][p]) <= ConcurrentRequests
  PROVE  /\ Cardinality(OnTheWay(w)') = Cardinality(OnTheWay(w)) - 1
         /\ \A v \in Workers : v # w => OnTheWay(v)' = OnTheWay(v)
<1>1. /\ \A v, q \in Workers : v # w \/ q # p => flight'[v][q] = flight[v][q]
      /\ Len(flight'[w][p]) = Len(flight[w][p]) - 1
      /\ Len(flight[w][p]) \in Nat \ {0}
  BY TakenFlight
<1> DEFINE n == Len(flight[w][p])
           z == <<p, n>>
<1>3. z \in Workers \X (1..ConcurrentRequests) /\ z \in OnTheWay(w)
  BY <1>1, EnoughRequests DEF OnTheWay
<1>4. \A x \in Workers \X (1..ConcurrentRequests) :
        x[2] <= Len(flight'[w][x[1]]) <=> x[2] <= Len(flight[w][x[1]]) /\ x # z
  <2>1. SUFFICES ASSUME NEW x \in Workers \X (1..ConcurrentRequests)
                 PROVE  x[2] <= Len(flight'[w][x[1]]) <=> x[2] <= Len(flight[w][x[1]]) /\ x # z
    OBVIOUS
  <2>2. x = <<x[1], x[2]>> /\ x[1] \in Workers /\ x[2] \in Nat
    BY EnoughRequests
  <2>3. CASE x[1] = p
    <3>1. x = z <=> x[2] = n
      BY <2>2, <2>3
    <3>2. x[2] <= n - 1 <=> x[2] <= n /\ x[2] # n
      BY <2>2, <1>1
    <3> QED BY <3>1, <3>2, <2>3, <1>1
  <2>4. CASE x[1] # p
    <3>1. x # z
      BY <2>2, <2>4
    <3> QED BY <3>1, <2>4, <2>2, <1>1
  <2> QED BY <2>3, <2>4
<1>5. OnTheWay(w)' = OnTheWay(w) \ {z}
  BY <1>3, <1>4 DEF OnTheWay
<1>6. Cardinality(OnTheWay(w) \ {z}) = Cardinality(OnTheWay(w)) - 1
  <2>1. IsFiniteSet(OnTheWay(w)) /\ z \in OnTheWay(w)
    BY <1>3, OnTheWayFinite
  <2> HIDE DEF z
  <2> QED BY <2>1, FS_RemoveElement
<1>7. ASSUME NEW v \in Workers, v # w PROVE OnTheWay(v)' = OnTheWay(v)
  <2>1. \A x \in Workers \X (1..ConcurrentRequests) : flight'[v][x[1]] = flight[v][x[1]]
    BY <1>1, <1>7
  <2> QED BY <2>1 DEF OnTheWay
<1> QED BY <1>5, <1>6, <1>7

-----------------------------------------------------------------------------
(* What an action leaves alone. *)

LEMMA SameKeys ==
  ASSUME UNCHANGED <<keys, pivots>>
  PROVE  /\ \A e : (Real(e)' <=> Real(e)) /\ PartitionOf(e)' = PartitionOf(e)
         /\ BaseType => /\ keys' \in [Workers -> Shards] /\ pivots' \in [Workers -> 1..MaxKey]
                        /\ \A w \in Workers : ValidPivots(w, pivots)'
<1>1. \A e : (Real(e)' <=> Real(e)) /\ PartitionOf(e)' = PartitionOf(e)
  BY DEF Real, PartitionOf, Partition
<1>2. \A w : MaxKeyOf(w)' = MaxKeyOf(w)
  BY DEF MaxKeyOf
<1>3. \A w : ValidPivots(w, pivots)' <=> ValidPivots(w, pivots)
  BY <1>2 DEF ValidPivots, IsSorted
<1> QED BY <1>1, <1>3 DEF BaseType

LEMMA SamePool ==
  ASSUME NEW w \in Workers, Pool(w),
         phase'[w] = phase[w], next'[w] = next[w], free'[w] = free[w], answers'[w] = answers[w],
         \A p \in Workers : flight'[w][p] = flight[w][p]
  PROVE  Pool(w)'
<1>1. OnTheWay(w)' = OnTheWay(w)
  BY DEF OnTheWay
<1>2. InFlight(w)' = InFlight(w)
  BY <1>1 DEF InFlight
<1> QED BY <1>2 DEF Pool

(* Only counters of w change. *)
LEMMA PoolOfOthers ==
  ASSUME \A v \in Workers : Pool(v), NEW w \in Workers,
         \A v \in Workers : v # w => /\ phase'[v] = phase[v] /\ next'[v] = next[v]
                                     /\ free'[v] = free[v] /\ answers'[v] = answers[v]
                                     /\ \A p \in Workers : flight'[v][p] = flight[v][p],
         Pool(w)'
  PROVE  \A v \in Workers : Pool(v)'
<1>1. ASSUME NEW v \in Workers, v # w PROVE Pool(v)'
  BY <1>1, SamePool
<1> QED BY <1>1

LEMMA SameContents ==
  ASSUME IndInv, UNCHANGED <<keys, pivots, batch, flight, got>>
  PROVE  /\ Contents' /\ FlightOnce'
         /\ \A e : /\ (Real(e)' <=> Real(e)) /\ (InBatch(e)' <=> InBatch(e))
                   /\ (Flying(e)' <=> Flying(e)) /\ (Arrived(e)' <=> Arrived(e))
<1>1. \A e : (Real(e)' <=> Real(e)) /\ PartitionOf(e)' = PartitionOf(e)
  BY SameKeys
<1>2. Contents'
  BY <1>1 DEF IndInv, Contents
<1>3. FlightOnce'
  BY DEF IndInv, FlightOnce
<1>4. ASSUME NEW e
      PROVE  /\ (InBatch(e)' <=> InBatch(e))
             /\ (Flying(e)' <=> Flying(e)) /\ (Arrived(e)' <=> Arrived(e))
  BY <1>1 DEF InBatch, Flying, Arrived
<1> QED BY <1>1, <1>2, <1>3, <1>4

(* The thread moves on, but passes no key. *)
LEMMA SameStages ==
  ASSUME IndInv, UNCHANGED <<keys, pivots, batch, flight, got>>,
         \A e \in Keys : Real(e) =>
           \/ (Unsorted(e)' <=> Unsorted(e)) /\ (phase'[e[1]] = "idle" <=> phase[e[1]] = "idle")
           \/ phase[e[1]] = "idle" /\ phase'[e[1]] # "idle" /\ Unsorted(e)'
  PROVE  OneStage'
<1>1. \A e : /\ (Real(e)' <=> Real(e)) /\ (InBatch(e)' <=> InBatch(e))
             /\ (Flying(e)' <=> Flying(e)) /\ (Arrived(e)' <=> Arrived(e))
  BY SameContents
<1>2. ASSUME NEW e \in Keys, Real(e)
      PROVE  /\ phase'[e[1]] = "idle" => ~InBatch(e)' /\ ~Flying(e)' /\ ~Arrived(e)'
             /\ phase'[e[1]] # "idle" => Unsorted(e)' \/ InBatch(e)' \/ Flying(e)' \/ Arrived(e)'
             /\ Unsorted(e)' => ~InBatch(e)' /\ ~Flying(e)' /\ ~Arrived(e)'
             /\ InBatch(e)' => ~Flying(e)' /\ ~Arrived(e)'
             /\ Flying(e)' => ~Arrived(e)'
  <2>1. /\ phase[e[1]] = "idle" => ~InBatch(e) /\ ~Flying(e) /\ ~Arrived(e)
        /\ phase[e[1]] # "idle" => Unsorted(e) \/ InBatch(e) \/ Flying(e) \/ Arrived(e)
        /\ Unsorted(e) => ~InBatch(e) /\ ~Flying(e) /\ ~Arrived(e)
        /\ InBatch(e) => ~Flying(e) /\ ~Arrived(e)
        /\ Flying(e) => ~Arrived(e)
    BY <1>2 DEF IndInv, OneStage
  <2> QED BY <1>1, <1>2, <2>1
<1> QED BY <1>1, <1>2 DEF OneStage

(* Facts about numbers that all actions need. *)
LEMMA Counts ==
  ASSUME BaseType, NEW w \in Workers
  PROVE  /\ free[w] \in Nat /\ answers[w] \in Nat /\ next[w] \in Nat \ {0}
         /\ Cardinality(OnTheWay(w)) \in Nat /\ InFlight(w) \in Nat
         /\ InFlight(w) = answers[w] + Cardinality(OnTheWay(w))
         /\ N \in Nat /\ ConcurrentRequests \in Nat /\ ConcurrentRequests >= N
         /\ Len(keys[w]) \in Nat
<1>1. free[w] \in Nat /\ answers[w] \in Nat /\ next[w] \in Nat \ {0} /\ keys[w] \in Shards
  BY DEF BaseType
<1>2. Len(keys[w]) \in Nat
  BY <1>1, ShardFacts
<1> QED BY <1>1, <1>2, OnTheWayFinite, EnoughRequests, NAssumption DEF InFlight

-----------------------------------------------------------------------------
LEMMA IndInit == Init => IndInv
<1> SUFFICES ASSUME Init PROVE IndInv
  OBVIOUS
<1>1. BaseType
  BY NAssumption, BoundsAssumption DEF Init, BaseType, Workers
<1>2. ASSUME NEW w \in Workers PROVE Pool(w)
  <2>1. /\ phase[w] = "idle" /\ next[w] = 1 /\ free[w] = 0 /\ answers[w] = 0
        /\ \A p \in Workers : flight[w][p] = <<>>
    BY DEF Init
  <2>2. OnTheWay(w) = {}
    <3>1. \A x \in Workers \X (1..ConcurrentRequests) : ~(x[2] <= Len(flight[w][x[1]]))
      BY <2>1, EnoughRequests
    <3> QED BY <3>1 DEF OnTheWay
  <2>3. InFlight(w) = 0
    BY <2>1, <2>2, FS_EmptySet DEF InFlight
  <2> QED BY <2>1, <2>3, EnoughRequests DEF Pool
<1>3. Contents /\ FlightOnce /\ BatchSent /\ PartitionSet
  BY DEF Init, Contents, FlightOnce, BatchSent, PartitionSet
<1>4. ASSUME NEW e \in Keys, Real(e)
      PROVE  phase[e[1]] = "idle" /\ ~Unsorted(e) /\ ~InBatch(e) /\ ~Flying(e) /\ ~Arrived(e)
  <2>1. e[1] \in Workers /\ PartitionOf(e) \in Workers
    BY <1>1, <1>4, PartitionExists
  <2> QED BY <2>1 DEF Init, Unsorted, InBatch, Flying, Arrived
<1>5. OneStage
  BY <1>4 DEF OneStage
<1> QED BY <1>1, <1>2, <1>3, <1>5 DEF IndInv

-----------------------------------------------------------------------------
(* ShuffleKey. *)

LEMMA IndShuffleKey ==
  ASSUME IndInv, NEW w \in Workers, ShuffleKey(w)
  PROVE  IndInv'
<1>0. BaseType /\ \A v \in Workers : Pool(v)
  BY DEF IndInv
<1>1. /\ calls[w] < MaxCalls /\ phase[w] = "idle"
      /\ calls' = [calls EXCEPT ![w] = calls[w] + 1]
      /\ phase' = [phase EXCEPT ![w] = "keys"]
      /\ free' = [free EXCEPT ![w] = ConcurrentRequests - N]
      /\ UNCHANGED <<keys, pivots, batch, flight, got>>
      /\ UNCHANGED <<next, answers, partition, dones>>
  BY DEF ShuffleKey
<1>2. /\ phase'[w] = "keys" /\ free'[w] = ConcurrentRequests - N
      /\ \A v \in Workers : v # w => phase'[v] = phase[v] /\ free'[v] = free[v]
  BY <1>0, <1>1 DEF BaseType
<1>3. BaseType'
  <2>1. calls' \in [Workers -> 0..MaxCalls]
    BY <1>0, <1>1, BoundsAssumption DEF BaseType
  <2>2. phase' \in [Workers -> {"idle", "keys", "take", "rest", "drain", "over"}]
    BY <1>0, <1>1 DEF BaseType
  <2>3. free' \in [Workers -> Nat]
    BY <1>0, <1>1, EnoughRequests, NAssumption DEF BaseType
  <2> QED BY <1>0, <1>1, <2>1, <2>2, <2>3, SameKeys DEF BaseType
<1>4. Pool(w)'
  <2>1. InFlight(w)' = InFlight(w)
    BY <1>1 DEF InFlight, OnTheWay
  <2>2. InFlight(w) = 0 /\ next[w] = 1
    BY <1>0, <1>1, Counts DEF Pool
  <2>3. free'[w] + InFlight(w)' = ConcurrentRequests - N
    BY <1>0, <1>2, <2>1, <2>2, Counts
  <2> QED BY <1>0, <1>1, <1>2, <2>3 DEF Pool
<1>5. \A v \in Workers : Pool(v)'
  BY <1>0, <1>1, <1>2, <1>4, PoolOfOthers
<1>6. Contents' /\ FlightOnce'
  BY <1>1, SameContents
<1>7. OneStage'
  <2>1. ASSUME NEW e \in Keys, Real(e)
        PROVE  \/ (Unsorted(e)' <=> Unsorted(e)) /\ (phase'[e[1]] = "idle" <=> phase[e[1]] = "idle")
               \/ phase[e[1]] = "idle" /\ phase'[e[1]] # "idle" /\ Unsorted(e)'
    <3>1. e[1] \in Workers /\ e[2] \in Nat /\ e[2] >= 1
      BY <1>0, <2>1, PartitionExists, Counts
    <3>2. CASE e[1] = w
      <4>1. next'[w] = 1
        BY <1>0, <1>1 DEF Pool
      <4>2. Unsorted(e)'
        BY <1>2, <3>1, <3>2, <4>1 DEF Unsorted
      <4> QED BY <1>1, <1>2, <3>2, <4>2
    <3>3. CASE e[1] # w
      BY <1>1, <1>2, <3>1, <3>3 DEF Unsorted
    <3> QED BY <3>2, <3>3
  <2> QED BY <1>1, <2>1, SameStages
<1>8. BatchSent' /\ PartitionSet'
  BY <1>1, <1>2 DEF IndInv, BatchSent, PartitionSet
<1> QED BY <1>3, <1>5, <1>6, <1>7, <1>8 DEF IndInv

LEMMA IndShuffleKeyError ==
  ASSUME IndInv, NEW w \in Workers, ShuffleKeyError(w)
  PROVE  IndInv'
<1>0. BaseType /\ \A v \in Workers : Pool(v)
  BY DEF IndInv
<1>1. /\ calls[w] < MaxCalls
      /\ calls' = [calls EXCEPT ![w] = calls[w] + 1]
      /\ dones' = [dones EXCEPT ![w] = dones[w] \o <<"error">>]
      /\ UNCHANGED <<keys, pivots, batch, flight, got>>
      /\ UNCHANGED <<phase, next, free, answers, partition>>
  BY DEF ShuffleKeyError, Done
<1>2. BaseType'
  <2>1. calls' \in [Workers -> 0..MaxCalls]
    BY <1>0, <1>1, BoundsAssumption DEF BaseType
  <2>2. dones' \in [Workers -> Seq({"elapsed", "default", "error"})]
    <3>1. dones[w] \o <<"error">> \in Seq({"elapsed", "default", "error"})
      BY <1>0 DEF BaseType
    <3> QED BY <1>0, <1>1, <3>1 DEF BaseType
  <2> QED BY <1>0, <1>1, <2>1, <2>2, SameKeys DEF BaseType
<1>3. \A v \in Workers : Pool(v)'
  BY <1>0, <1>1, SamePool
<1>4. Contents' /\ FlightOnce'
  BY <1>1, SameContents
<1>5. OneStage'
  <2>1. \A e : Unsorted(e)' <=> Unsorted(e)
    BY <1>1 DEF Unsorted
  <2> QED BY <1>1, <2>1, SameStages
<1>6. BatchSent' /\ PartitionSet'
  BY <1>1 DEF IndInv, BatchSent, PartitionSet
<1> QED BY <1>2, <1>3, <1>4, <1>5, <1>6 DEF IndInv

-----------------------------------------------------------------------------
(* Steps of the thread that move no key. *)

LEMMA IndTake ==
  ASSUME IndInv, NEW w \in Workers, Take(w)
  PROVE  IndInv'
<1>0. BaseType /\ \A v \in Workers : Pool(v)
  BY DEF IndInv
<1>1. /\ phase[w] = "take" /\ free[w] > 0
      /\ phase' = [phase EXCEPT ![w] = "keys"]
      /\ free' = [free EXCEPT ![w] = free[w] - 1]
      /\ UNCHANGED <<keys, pivots, batch, flight, got>>
      /\ UNCHANGED <<calls, next, answers, partition, dones>>
  BY DEF Take
<1>2. /\ phase'[w] = "keys" /\ free'[w] = free[w] - 1
      /\ \A v \in Workers : v # w => phase'[v] = phase[v] /\ free'[v] = free[v]
  BY <1>0, <1>1 DEF BaseType
<1>3. BaseType'
  <2>1. phase' \in [Workers -> {"idle", "keys", "take", "rest", "drain", "over"}]
    BY <1>0, <1>1 DEF BaseType
  <2>2. free' \in [Workers -> Nat]
    BY <1>0, <1>1 DEF BaseType
  <2> QED BY <1>0, <1>1, <2>1, <2>2, SameKeys DEF BaseType
<1>4. Pool(w)'
  <2>1. InFlight(w)' = InFlight(w)
    BY <1>1 DEF InFlight, OnTheWay
  <2>2. free[w] + InFlight(w) = ConcurrentRequests - N + 1
    BY <1>0, <1>1 DEF Pool
  <2>3. free'[w] + InFlight(w)' = ConcurrentRequests - N
    BY <1>0, <1>2, <2>1, <2>2, Counts
  <2> QED BY <1>0, <1>1, <1>2, <2>3 DEF Pool
<1>5. \A v \in Workers : Pool(v)'
  BY <1>0, <1>1, <1>2, <1>4, PoolOfOthers
<1>6. Contents' /\ FlightOnce'
  BY <1>1, SameContents
<1>7. OneStage'
  <2>1. ASSUME NEW e \in Keys, Real(e)
        PROVE  (Unsorted(e)' <=> Unsorted(e)) /\ (phase'[e[1]] = "idle" <=> phase[e[1]] = "idle")
    <3>1. e[1] \in Workers
      BY <1>0, <2>1, PartitionExists
    <3> QED BY <1>1, <1>2, <3>1 DEF Unsorted
  <2> QED BY <1>1, <2>1, SameStages
<1>8. BatchSent' /\ PartitionSet'
  BY <1>1, <1>2 DEF IndInv, BatchSent, PartitionSet
<1> QED BY <1>3, <1>5, <1>6, <1>7, <1>8 DEF IndInv

LEMMA IndKeysOver ==
  ASSUME IndInv, NEW w \in Workers, KeysOver(w)
  PROVE  IndInv'
<1>0. BaseType /\ \A v \in Workers : Pool(v)
  BY DEF IndInv
<1>1. /\ phase[w] = "keys" /\ next[w] > Len(keys[w])
      /\ phase' = [phase EXCEPT ![w] = "rest"]
      /\ next' = [next EXCEPT ![w] = 1]
      /\ UNCHANGED <<keys, pivots, batch, flight, got>>
      /\ UNCHANGED <<calls, free, answers, partition, dones>>
  BY DEF KeysOver
<1>2. /\ phase'[w] = "rest" /\ next'[w] = 1
      /\ \A v \in Workers : v # w => phase'[v] = phase[v] /\ next'[v] = next[v]
  BY <1>0, <1>1 DEF BaseType
<1>3. BaseType'
  <2>1. phase' \in [Workers -> {"idle", "keys", "take", "rest", "drain", "over"}]
    BY <1>0, <1>1 DEF BaseType
  <2>2. next' \in [Workers -> Nat \ {0}]
    BY <1>0, <1>1 DEF BaseType
  <2> QED BY <1>0, <1>1, <2>1, <2>2, SameKeys DEF BaseType
<1>4. Pool(w)'
  <2>1. InFlight(w)' = InFlight(w)
    BY <1>1 DEF InFlight, OnTheWay
  <2>2. free[w] + InFlight(w) = ConcurrentRequests - N
    BY <1>0, <1>1 DEF Pool
  <2>3. /\ next'[w] <= N
        /\ free'[w] + InFlight(w)' <= ConcurrentRequests - N + (next'[w] - 1)
    BY <1>0, <1>1, <1>2, <2>1, <2>2, Counts, NAssumption
  <2> QED BY <1>0, <1>1, <1>2, <2>3 DEF Pool
<1>5. \A v \in Workers : Pool(v)'
  BY <1>0, <1>1, <1>2, <1>4, PoolOfOthers
<1>6. Contents' /\ FlightOnce'
  BY <1>1, SameContents
<1>7. OneStage'
  <2>1. ASSUME NEW e \in Keys, Real(e)
        PROVE  (Unsorted(e)' <=> Unsorted(e)) /\ (phase'[e[1]] = "idle" <=> phase[e[1]] = "idle")
    <3>1. e[1] \in Workers /\ e[2] \in 1..Len(keys[e[1]])
      BY <1>0, <2>1, PartitionExists
    <3>2. CASE e[1] = w
      <4>1. ~(next[w] <= e[2])
        BY <1>0, <1>1, <3>1, <3>2, Counts
      <4> QED BY <1>1, <1>2, <3>2, <4>1 DEF Unsorted
    <3>3. CASE e[1] # w
      BY <1>2, <3>1, <3>3 DEF Unsorted
    <3> QED BY <3>2, <3>3
  <2> QED BY <1>1, <2>1, SameStages
<1>8. BatchSent' /\ PartitionSet'
  <2>1. ASSUME NEW v \in Workers, NEW p \in Workers,
               phase'[v] \in {"drain", "over"} \/ (phase'[v] = "rest" /\ p < next'[v])
        PROVE  batch'[v][p] = {}
    <3>1. v # w
      BY <1>2, <2>1 DEF Workers
    <3> QED BY <1>1, <1>2, <2>1, <3>1 DEF IndInv, BatchSent
  <2> QED BY <1>1, <2>1 DEF IndInv, BatchSent, PartitionSet
<1> QED BY <1>3, <1>5, <1>6, <1>7, <1>8 DEF IndInv

LEMMA IndDrain ==
  ASSUME IndInv, NEW w \in Workers, Drain(w)
  PROVE  IndInv'
<1>0. BaseType /\ (\A v \in Workers : Pool(v)) /\ phase[w] = "drain"
  BY DEF IndInv, Drain
<1>1. /\ UNCHANGED <<keys, pivots, batch, flight, got>>
      /\ UNCHANGED <<calls, answers, partition>>
  BY DEF Drain
<1>2. CASE ~Drained(w)
  <2>1. /\ free[w] > 0 /\ free' = [free EXCEPT ![w] = free[w] - 1]
        /\ next' = [next EXCEPT ![w] = next[w] + 1]
        /\ UNCHANGED <<phase, dones>>
    BY <1>2 DEF Drain
  <2>2. /\ free'[w] = free[w] - 1 /\ next'[w] = next[w] + 1
        /\ \A v \in Workers : v # w => free'[v] = free[v] /\ next'[v] = next[v]
    BY <1>0, <2>1 DEF BaseType
  <2>3. BaseType'
    <3>1. free' \in [Workers -> Nat]
      BY <1>0, <2>1 DEF BaseType
    <3>2. next' \in [Workers -> Nat \ {0}]
      BY <1>0, <2>1 DEF BaseType
    <3> QED BY <1>0, <1>1, <2>1, <3>1, <3>2, SameKeys DEF BaseType
  <2>4. Pool(w)'
    <3>1. InFlight(w)' = InFlight(w)
      BY <1>1 DEF InFlight, OnTheWay
    <3>2. next[w] >= N + 1 /\ free[w] + InFlight(w) <= ConcurrentRequests - (next[w] - (N + 1))
      BY <1>0 DEF Pool
    <3>3. /\ free[w] \in Nat /\ next[w] \in Nat /\ InFlight(w) \in Nat
          /\ N \in Nat /\ ConcurrentRequests \in Nat
      BY <1>0, Counts
    <3>4. next'[w] >= N + 1 /\ free'[w] + InFlight(w)' <= ConcurrentRequests - (next'[w] - (N + 1))
      BY <2>2, <3>1, <3>2, <3>3
    <3> QED BY <1>0, <1>1, <2>1, <3>4 DEF Pool
  <2>5. \A v \in Workers : Pool(v)'
    BY <1>0, <1>1, <2>1, <2>2, <2>4, PoolOfOthers
  <2>6. OneStage'
    <3>1. ASSUME NEW e \in Keys, Real(e)
          PROVE  (Unsorted(e)' <=> Unsorted(e)) /\ (phase'[e[1]] = "idle" <=> phase[e[1]] = "idle")
      <4>1. e[1] \in Workers
        BY <1>0, <3>1, PartitionExists
      <4> QED BY <1>0, <2>1, <2>2, <4>1 DEF Unsorted
    <3> QED BY <1>1, <3>1, SameStages
  <2>7. BatchSent' /\ PartitionSet'
    <3>1. ASSUME NEW v \in Workers, NEW p \in Workers,
                 phase'[v] \in {"drain", "over"} \/ (phase'[v] = "rest" /\ p < next'[v])
          PROVE  batch'[v][p] = {}
      BY <1>0, <1>1, <2>1, <2>2, <3>1 DEF IndInv, BatchSent
    <3> QED BY <1>1, <3>1 DEF IndInv, BatchSent, PartitionSet
  <2> QED BY <1>1, <2>3, <2>5, <2>6, <2>7, SameContents DEF IndInv
<1>3. CASE Drained(w)
  <2>1. /\ phase' = [phase EXCEPT ![w] = "over"]
        /\ dones' = [dones EXCEPT ![w] = dones[w] \o <<"elapsed", "default">>]
        /\ UNCHANGED <<free, next>>
    BY <1>3 DEF Drain, Done
  <2>2. phase'[w] = "over" /\ \A v \in Workers : v # w => phase'[v] = phase[v]
    BY <1>0, <2>1 DEF BaseType
  <2>3. BaseType'
    <3>1. phase' \in [Workers -> {"idle", "keys", "take", "rest", "drain", "over"}]
      BY <1>0, <2>1 DEF BaseType
    <3>2. dones[w] \o <<"elapsed", "default">> \in Seq({"elapsed", "default", "error"})
      BY <1>0 DEF BaseType
    <3>3. dones' \in [Workers -> Seq({"elapsed", "default", "error"})]
      BY <1>0, <2>1, <3>2 DEF BaseType
    <3> QED BY <1>0, <1>1, <2>1, <3>1, <3>3, SameKeys DEF BaseType
  <2>4. Pool(w)'
    <3>1. InFlight(w)' = InFlight(w)
      BY <1>1 DEF InFlight, OnTheWay
    <3>2. next[w] >= N + 1 /\ free[w] + InFlight(w) <= ConcurrentRequests - (next[w] - (N + 1))
      BY <1>0 DEF Pool
    <3>3. free'[w] + InFlight(w)' = 0
      BY <1>0, <1>3, <2>1, <3>1, <3>2, Counts DEF Drained
    <3> QED BY <1>0, <1>1, <2>2, <3>3 DEF Pool
  <2>5. \A v \in Workers : Pool(v)'
    BY <1>0, <1>1, <2>1, <2>2, <2>4, PoolOfOthers
  <2>6. OneStage'
    <3>1. ASSUME NEW e \in Keys, Real(e)
          PROVE  (Unsorted(e)' <=> Unsorted(e)) /\ (phase'[e[1]] = "idle" <=> phase[e[1]] = "idle")
      <4>1. e[1] \in Workers
        BY <1>0, <3>1, PartitionExists
      <4> QED BY <1>0, <2>1, <2>2, <4>1 DEF Unsorted
    <3> QED BY <1>1, <3>1, SameStages
  <2>7. BatchSent' /\ PartitionSet'
    <3>1. ASSUME NEW v \in Workers, NEW p \in Workers,
                 phase'[v] \in {"drain", "over"} \/ (phase'[v] = "rest" /\ p < next'[v])
          PROVE  batch'[v][p] = {}
      BY <1>0, <1>1, <2>1, <2>2, <3>1 DEF IndInv, BatchSent
    <3> QED BY <1>1, <3>1 DEF IndInv, BatchSent, PartitionSet
  <2> QED BY <1>1, <2>3, <2>5, <2>6, <2>7, SameContents DEF IndInv
<1> QED BY <1>2, <1>3

-----------------------------------------------------------------------------
(* The loops. *)

LEMMA IndDoneShardKey ==
  ASSUME IndInv, NEW w \in Workers, DoneShardKey(w)
  PROVE  IndInv'
<1>0. BaseType /\ \A v \in Workers : Pool(v)
  BY DEF IndInv
<1>1. /\ answers[w] > 0
      /\ answers' = [answers EXCEPT ![w] = answers[w] - 1]
      /\ free' = [free EXCEPT ![w] = free[w] + 1]
      /\ UNCHANGED <<keys, pivots, batch, flight, got>>
      /\ UNCHANGED <<calls, phase, next, partition, dones>>
  BY DEF DoneShardKey
<1>2. /\ answers'[w] = answers[w] - 1 /\ free'[w] = free[w] + 1
      /\ \A v \in Workers : v # w => answers'[v] = answers[v] /\ free'[v] = free[v]
  BY <1>0, <1>1 DEF BaseType
<1>3. BaseType'
  <2>1. answers' \in [Workers -> Nat]
    BY <1>0, <1>1 DEF BaseType
  <2>2. free' \in [Workers -> Nat]
    BY <1>0, <1>1 DEF BaseType
  <2> QED BY <1>0, <1>1, <2>1, <2>2, SameKeys DEF BaseType
<1>4. Pool(w)'
  <2>1. OnTheWay(w)' = OnTheWay(w)
    BY <1>1 DEF OnTheWay
  <2>2. InFlight(w)' = answers'[w] + Cardinality(OnTheWay(w))
    BY <2>1 DEF InFlight
  <2>3. free'[w] + InFlight(w)' = free[w] + InFlight(w)
    BY <1>0, <1>2, <2>2, Counts
  <2> QED BY <1>0, <1>1, <2>3 DEF Pool
<1>5. \A v \in Workers : Pool(v)'
  BY <1>0, <1>1, <1>2, <1>4, PoolOfOthers
<1>6. Contents' /\ FlightOnce'
  BY <1>1, SameContents
<1>7. OneStage'
  <2>1. \A e : Unsorted(e)' <=> Unsorted(e)
    BY <1>1 DEF Unsorted
  <2> QED BY <1>1, <2>1, SameStages
<1>8. BatchSent' /\ PartitionSet'
  BY <1>1 DEF IndInv, BatchSent, PartitionSet
<1> QED BY <1>3, <1>5, <1>6, <1>7, <1>8 DEF IndInv

LEMMA IndShardKey ==
  ASSUME IndInv, NEW w \in Workers, NEW p \in Workers, ShardKey(w, p)
  PROVE  IndInv'
<1>0. BaseType /\ (\A v \in Workers : Pool(v)) /\ FirstTaken(w, p) /\ flight[w][p] # <<>>
  BY DEF IndInv, ShardKey, FirstTaken
<1> DEFINE b == flight[w][p][1]
<1>1. /\ flight' \in [Workers -> [Workers -> Seq(SUBSET Keys)]]
      /\ \A v, q \in Workers : v # w \/ q # p => flight'[v][q] = flight[v][q]
      /\ Len(flight[w][p]) \in Nat \ {0}
      /\ Len(flight'[w][p]) = Len(flight[w][p]) - 1
      /\ \A i \in 1..Len(flight'[w][p]) : flight'[w][p][i] = flight[w][p][i + 1]
      /\ Head(flight[w][p]) = b /\ b \in SUBSET Keys
  BY <1>0, TakenFlight, ZenonT(60)
<1>2. /\ partition' = [partition EXCEPT ![p] = IF partition[p] = 0 THEN p ELSE partition[p]]
      /\ got' = [got EXCEPT ![p] = got[p] \cup b]
      /\ answers' = [answers EXCEPT ![w] = answers[w] + 1]
      /\ UNCHANGED <<keys, pivots>>
      /\ UNCHANGED <<calls, phase, next, batch, free, dones>>
  BY <1>1 DEF ShardKey
<1> HIDE DEF b
<1>3. /\ got'[p] = got[p] \cup b /\ answers'[w] = answers[w] + 1
      /\ \A q \in Workers : q # p => got'[q] = got[q]
      /\ \A v \in Workers : v # w => answers'[v] = answers[v]
  BY <1>0, <1>2 DEF BaseType
<1>4. BaseType'
  <2>1. partition' \in [Workers -> 0..N]
    <3>1. partition \in [Workers -> 0..N]
      BY <1>0 DEF BaseType
    <3>2. p \in 0..N
      BY NAssumption DEF Workers
    <3>3. partition' = [partition EXCEPT ![p] = IF partition[p] = 0 THEN p ELSE partition[p]]
      BY <1>2
    <3> QED BY <3>1, <3>2, <3>3
  <2>2. got' \in [Workers -> SUBSET Keys]
    BY <1>0, <1>1, <1>2 DEF BaseType
  <2>3. answers' \in [Workers -> Nat]
    <3>1. answers \in [Workers -> Nat] /\ answers' = [answers EXCEPT ![w] = answers[w] + 1]
      BY <1>0, <1>2 DEF BaseType
    <3> QED BY <3>1
  <2> QED BY <1>0, <1>1, <1>2, <2>1, <2>2, <2>3, SameKeys DEF BaseType
<1>5. Pool(w)'
  <2>1. Len(flight[w][p]) <= ConcurrentRequests
    BY <1>0 DEF Pool
  <2>2. Cardinality(OnTheWay(w)') = Cardinality(OnTheWay(w)) - 1
    BY <1>0, <2>1, TakenCounted
  <2>3. InFlight(w)' = answers'[w] + Cardinality(OnTheWay(w)')
    BY DEF InFlight
  <2>4. free'[w] = free[w]
    BY <1>2
  <2>5. free'[w] + InFlight(w)' = free[w] + InFlight(w)
    <3>1. /\ free[w] \in Nat /\ answers[w] \in Nat /\ Cardinality(OnTheWay(w)) \in Nat
          /\ InFlight(w) = answers[w] + Cardinality(OnTheWay(w))
      BY <1>0, Counts
    <3>2. answers'[w] = answers[w] + 1
      BY <1>3
    <3> QED BY <2>2, <2>3, <2>4, <3>1, <3>2
  <2>6. ASSUME NEW q \in Workers PROVE Len(flight'[w][q]) <= ConcurrentRequests
    <3>1. CASE q = p
      BY <1>1, <2>1, <3>1, EnoughRequests
    <3>2. CASE q # p
      <4>1. flight'[w][q] = flight[w][q]
        BY <1>1, <3>2
      <4> QED BY <1>0, <4>1 DEF Pool
    <3> QED BY <3>1, <3>2
  <2> QED BY <1>0, <1>2, <2>5, <2>6 DEF Pool
<1>6. \A v \in Workers : Pool(v)'
  <2>1. \A v \in Workers : v # w => /\ phase'[v] = phase[v] /\ next'[v] = next[v]
                                    /\ free'[v] = free[v] /\ answers'[v] = answers[v]
                                    /\ \A q \in Workers : flight'[v][q] = flight[v][q]
    BY <1>1, <1>2, <1>3
  <2>2. \A v \in Workers : Pool(v)
    BY <1>0
  <2> QED BY <1>5, <2>1, <2>2, PoolOfOthers
<1>7. \A e : (Real(e)' <=> Real(e)) /\ PartitionOf(e)' = PartitionOf(e)
  BY <1>2, SameKeys
<1>8. /\ 1 \in 1..Len(flight[w][p])
      /\ \A i \in 1..Len(flight'[w][p]) : i + 1 \in 1..Len(flight[w][p]) /\ i + 1 # 1
      /\ \A i \in 1..Len(flight[w][p]) :
           i = 1 \/ (i - 1 \in 1..Len(flight'[w][p]) /\ flight'[w][p][i - 1] = flight[w][p][i])
  <2> DEFINE n == Len(flight[w][p])
  <2>1. n \in Nat \ {0} /\ Len(flight'[w][p]) = n - 1
    BY <1>1
  <2> HIDE DEF n
  <2>2. 1 \in 1..n /\ \A i \in 1..(n - 1) : i + 1 \in 1..n /\ i + 1 # 1
    BY <2>1
  <2>3. ASSUME NEW i \in 1..n, i # 1
        PROVE  i - 1 \in 1..(n - 1) /\ (i - 1) + 1 = i
    BY <2>1, <2>3
  <2>4. \A i \in 1..(n - 1) : flight'[w][p][i] = flight[w][p][i + 1]
    BY <1>1, <2>1
  <2>5. ASSUME NEW i \in 1..n, i # 1 PROVE flight'[w][p][i - 1] = flight[w][p][i]
    <3>1. flight'[w][p][i - 1] = flight[w][p][(i - 1) + 1]
      BY <2>3, <2>4, <2>5
    <3> QED BY <2>3, <2>5, <3>1
  <2> QED BY <2>1, <2>2, <2>3, <2>5 DEF n
<1>9. \A e \in b : Real(e) /\ e[1] = w /\ PartitionOf(e) = p
  BY <1>8 DEF IndInv, Contents, b
<1>10. Contents'
  <2>1. ASSUME NEW v \in Workers, NEW q \in Workers, NEW i \in 1..Len(flight'[v][q]),
               NEW e \in flight'[v][q][i]
        PROVE  Real(e) /\ e[1] = v /\ PartitionOf(e) = q
    <3>1. CASE v = w /\ q = p
      <4>1. i + 1 \in 1..Len(flight[w][p]) /\ e \in flight[w][p][i + 1]
        BY <1>1, <1>8, <2>1, <3>1
      <4> QED BY <3>1, <4>1 DEF IndInv, Contents
    <3>2. CASE v # w \/ q # p
      <4>1. flight'[v][q] = flight[v][q]
        BY <1>1, <3>2
      <4> QED BY <2>1, <4>1 DEF IndInv, Contents
    <3> QED BY <3>1, <3>2
  <2>2. ASSUME NEW q \in Workers, NEW e \in got'[q] PROVE Real(e) /\ PartitionOf(e) = q
    <3>1. e \in got[q] \/ (q = p /\ e \in b)
      BY <1>3, <2>2
    <3> QED BY <1>9, <3>1 DEF IndInv, Contents
  <2>3. \A v, q \in Workers : \A e \in batch'[v][q] : Real(e) /\ e[1] = v /\ PartitionOf(e) = q
    BY <1>2 DEF IndInv, Contents
  <2> QED BY <1>7, <2>1, <2>2, <2>3 DEF Contents
<1>11. FlightOnce'
  <2>1. ASSUME NEW v \in Workers, NEW q \in Workers, NEW i \in 1..Len(flight'[v][q]),
               NEW j \in 1..Len(flight'[v][q]), NEW e \in flight'[v][q][i], e \in flight'[v][q][j]
        PROVE  i = j
    <3>1. CASE v = w /\ q = p
      <4>1. /\ i + 1 \in 1..Len(flight[w][p]) /\ e \in flight[w][p][i + 1]
            /\ j + 1 \in 1..Len(flight[w][p]) /\ e \in flight[w][p][j + 1]
        BY <1>1, <1>8, <2>1, <3>1
      <4>2. i + 1 = j + 1
        BY <4>1 DEF IndInv, FlightOnce
      <4> QED BY <1>1, <3>1, <4>2
    <3>2. CASE v # w \/ q # p
      <4>1. flight'[v][q] = flight[v][q]
        BY <1>1, <3>2
      <4> QED BY <2>1, <4>1 DEF IndInv, FlightOnce
    <3> QED BY <3>1, <3>2
  <2> QED BY <2>1 DEF FlightOnce
<1>12. ASSUME NEW e \in Keys, Real(e)
       PROVE  /\ (Unsorted(e)' <=> Unsorted(e)) /\ (InBatch(e)' <=> InBatch(e))
              /\ Flying(e)' <=> Flying(e) /\ e \notin b
              /\ Arrived(e)' <=> Arrived(e) \/ e \in b
              /\ e \in b => Flying(e)
  <2>1. e[1] \in Workers /\ PartitionOf(e) \in Workers
    BY <1>0, <1>12, PartitionExists
  <2>2. (Unsorted(e)' <=> Unsorted(e)) /\ (InBatch(e)' <=> InBatch(e))
    BY <1>2, <1>7 DEF Unsorted, InBatch
  <2>3. Arrived(e)' <=> Arrived(e) \/ e \in b
    <3>1. Arrived(e)' <=> e \in got'[PartitionOf(e)]
      BY <1>7 DEF Arrived
    <3> QED BY <1>3, <1>9, <2>1, <3>1 DEF Arrived
  <2>4. e \in b => Flying(e)
    <3>1. ASSUME e \in b PROVE Flying(e)
      <4>1. e[1] = w /\ PartitionOf(e) = p /\ e \in flight[w][p][1]
        BY <1>9, <3>1 DEF b
      <4> QED BY <1>8, <4>1 DEF Flying
    <3> QED BY <3>1
  <2>5. Flying(e)' <=> Flying(e) /\ e \notin b
    <3>0. /\ Flying(e)' <=> \E i \in 1..Len(flight'[e[1]][PartitionOf(e)]) :
                              e \in flight'[e[1]][PartitionOf(e)][i]
          /\ Flying(e) <=> \E i \in 1..Len(flight[e[1]][PartitionOf(e)]) :
                              e \in flight[e[1]][PartitionOf(e)][i]
      BY <1>7 DEF Flying
    <3>1. CASE e[1] = w /\ PartitionOf(e) = p
      <4>1. ASSUME NEW i \in 1..Len(flight'[w][p]), e \in flight'[w][p][i]
            PROVE  Flying(e) /\ e \notin b
        <5>1. i + 1 \in 1..Len(flight[w][p]) /\ i + 1 # 1 /\ e \in flight[w][p][i + 1]
          BY <1>1, <1>8, <4>1
        <5>2. Flying(e)
          BY <3>0, <3>1, <5>1
        <5>3. e \notin flight[w][p][1]
          BY <1>8, <5>1 DEF IndInv, FlightOnce
        <5> QED BY <5>2, <5>3 DEF b
      <4>2. ASSUME NEW i \in 1..Len(flight[w][p]), e \in flight[w][p][i], e \notin b
            PROVE  Flying(e)'
        <5>1. i # 1
          BY <4>2 DEF b
        <5>2. i - 1 \in 1..Len(flight'[w][p]) /\ e \in flight'[w][p][i - 1]
          BY <1>8, <4>2, <5>1
        <5> QED BY <3>0, <3>1, <5>2
      <4> QED BY <3>0, <3>1, <4>1, <4>2
    <3>2. CASE e[1] # w \/ PartitionOf(e) # p
      <4>1. flight'[e[1]][PartitionOf(e)] = flight[e[1]][PartitionOf(e)]
        BY <1>1, <2>1, <3>2
      <4>2. e \notin b
        BY <1>9, <3>2
      <4> QED BY <3>0, <4>1, <4>2
    <3> QED BY <3>1, <3>2
  <2> QED BY <2>2, <2>3, <2>4, <2>5
<1>13. OneStage'
  <2>1. ASSUME NEW e \in Keys, Real(e)
        PROVE  /\ phase'[e[1]] = "idle" => ~InBatch(e)' /\ ~Flying(e)' /\ ~Arrived(e)'
               /\ phase'[e[1]] # "idle" => Unsorted(e)' \/ InBatch(e)' \/ Flying(e)' \/ Arrived(e)'
               /\ Unsorted(e)' => ~InBatch(e)' /\ ~Flying(e)' /\ ~Arrived(e)'
               /\ InBatch(e)' => ~Flying(e)' /\ ~Arrived(e)'
               /\ Flying(e)' => ~Arrived(e)'
    <3>1. /\ phase[e[1]] = "idle" => ~InBatch(e) /\ ~Flying(e) /\ ~Arrived(e)
          /\ phase[e[1]] # "idle" => Unsorted(e) \/ InBatch(e) \/ Flying(e) \/ Arrived(e)
          /\ Unsorted(e) => ~InBatch(e) /\ ~Flying(e) /\ ~Arrived(e)
          /\ InBatch(e) => ~Flying(e) /\ ~Arrived(e)
          /\ Flying(e) => ~Arrived(e)
      BY <2>1 DEF IndInv, OneStage
    <3>2. phase'[e[1]] = phase[e[1]]
      BY <1>2
    <3> QED BY <1>12, <2>1, <3>1, <3>2
  <2> QED BY <1>7, <2>1 DEF OneStage
<1>14. BatchSent' /\ PartitionSet'
  <2>1. BatchSent'
    BY <1>2 DEF IndInv, BatchSent
  <2>2. ASSUME NEW q \in Workers PROVE partition'[q] \in {0, q} /\ (got'[q] # {} => partition'[q] = q)
    <3>1. partition[q] \in {0, q} /\ (got[q] # {} => partition[q] = q)
      BY DEF IndInv, PartitionSet
    <3>2. CASE q = p
      BY <1>0, <1>2, <3>1, <3>2 DEF BaseType
    <3>3. CASE q # p
      BY <1>0, <1>2, <1>3, <3>1, <3>3 DEF BaseType
    <3> QED BY <3>2, <3>3
  <2> QED BY <2>1, <2>2 DEF PartitionSet
<1> QED BY <1>4, <1>6, <1>10, <1>11, <1>13, <1>14 DEF IndInv

-----------------------------------------------------------------------------
(* Steps of the thread that move keys. *)

(* What it means for the keys that request b, the batch of partition p     *)
(* with the keys of extra, is sent.                                        *)
KeysSent(w, p, extra, b) ==
  /\ Contents' /\ FlightOnce'
  /\ batch' \in [Workers -> [Workers -> SUBSET Keys]]
  /\ \A v, q \in Workers : batch'[v][q] = IF v = w /\ q = p THEN {} ELSE batch[v][q]
  /\ \A e \in b : Real(e) /\ e[1] = w /\ PartitionOf(e) = p /\ (InBatch(e) \/ e \in extra)
  /\ \A e : (Real(e)' <=> Real(e)) /\ PartitionOf(e)' = PartitionOf(e)
  /\ \A e \in Keys : Real(e) => /\ InBatch(e)' <=> InBatch(e) /\ e \notin b
                                /\ Flying(e)' <=> Flying(e) \/ e \in b
                                /\ Arrived(e)' <=> Arrived(e)

LEMMA SentContents ==
  ASSUME IndInv, NEW w \in Workers, NEW p \in Workers, NEW extra \in SUBSET Keys, NEW b,
         b = batch[w][p] \cup extra, ShardKeyCall(w, p, b),
         batch' = [batch EXCEPT ![w][p] = {}], UNCHANGED <<keys, pivots>>, UNCHANGED got,
         \A e \in extra : Real(e) /\ e[1] = w /\ PartitionOf(e) = p /\ ~Flying(e)
  PROVE  KeysSent(w, p, extra, b)
<1> DEFINE n == Len(flight[w][p])
<1>0. BaseType /\ n \in Nat
  <2>1. BaseType
    BY DEF IndInv
  <2>2. flight[w][p] \in Seq(SUBSET Keys)
    BY <2>1 DEF BaseType
  <2> QED BY <2>1, <2>2
<1>1. batch \in [Workers -> [Workers -> SUBSET Keys]] /\ b \in SUBSET Keys
  <2>1. batch \in [Workers -> [Workers -> SUBSET Keys]]
    BY <1>0 DEF BaseType
  <2>2. batch[w][p] \in SUBSET Keys
    BY <2>1
  <2> QED BY <2>1, <2>2
<1>2. /\ batch' \in [Workers -> [Workers -> SUBSET Keys]]
      /\ \A v, q \in Workers : batch'[v][q] = IF v = w /\ q = p THEN {} ELSE batch[v][q]
  BY <1>1
<1>3. /\ \A v, q \in Workers : v # w \/ q # p => flight'[v][q] = flight[v][q]
      /\ Len(flight'[w][p]) = n + 1
      /\ \A i \in 1..n : flight'[w][p][i] = flight[w][p][i]
      /\ flight'[w][p][n + 1] = b
  BY <1>0, <1>1, SentFlight
<1>4. \A e : (Real(e)' <=> Real(e)) /\ PartitionOf(e)' = PartitionOf(e)
  BY SameKeys
<1>5. \A e \in b : Real(e) /\ e[1] = w /\ PartitionOf(e) = p /\ (InBatch(e) \/ e \in extra)
  BY DEF IndInv, Contents, InBatch
<1>6. \A e \in b : e \in Keys /\ ~Flying(e)
  BY <1>1, <1>5 DEF IndInv, OneStage
<1> HIDE DEF n
<1>7. /\ n + 1 \in 1..Len(flight'[w][p])
      /\ \A i \in 1..n : i \in 1..Len(flight'[w][p])
      /\ \A i \in 1..Len(flight'[w][p]) : i \in 1..n \/ i = n + 1
      /\ 1..Len(flight[w][p]) = 1..n
  BY <1>0, <1>3 DEF n
<1>8. \A e \in b : \A i \in 1..n : e \notin flight[w][p][i]
  BY <1>5, <1>6, <1>7 DEF Flying
<1>9. Contents'
  <2>1. ASSUME NEW v \in Workers, NEW q \in Workers, NEW i \in 1..Len(flight'[v][q]),
               NEW e \in flight'[v][q][i]
        PROVE  Real(e) /\ e[1] = v /\ PartitionOf(e) = q
    <3>1. CASE v = w /\ q = p
      <4>1. CASE i \in 1..n
        <5>1. i \in 1..Len(flight[w][p]) /\ e \in flight[w][p][i]
          BY <1>3, <1>7, <2>1, <3>1, <4>1
        <5> QED BY <3>1, <5>1 DEF IndInv, Contents
      <4>2. CASE i = n + 1
        BY <1>3, <1>5, <2>1, <3>1, <4>2
      <4> QED BY <1>7, <3>1, <4>1, <4>2
    <3>2. CASE v # w \/ q # p
      <4>1. flight'[v][q] = flight[v][q]
        BY <1>3, <3>2
      <4> QED BY <2>1, <4>1 DEF IndInv, Contents
    <3> QED BY <3>1, <3>2
  <2>2. \A v, q \in Workers : \A e \in batch'[v][q] : Real(e) /\ e[1] = v /\ PartitionOf(e) = q
    BY <1>2 DEF IndInv, Contents
  <2>3. \A q \in Workers : \A e \in got'[q] : Real(e) /\ PartitionOf(e) = q
    BY DEF IndInv, Contents
  <2> QED BY <1>4, <2>1, <2>2, <2>3 DEF Contents
<1>10. FlightOnce'
  <2>1. ASSUME NEW v \in Workers, NEW q \in Workers, NEW i \in 1..Len(flight'[v][q]),
               NEW j \in 1..Len(flight'[v][q]), NEW e \in flight'[v][q][i], e \in flight'[v][q][j]
        PROVE  i = j
    <3>1. CASE v = w /\ q = p
      <4>1. CASE i \in 1..n /\ j \in 1..n
        <5>1. e \in flight[w][p][i] /\ e \in flight[w][p][j]
          BY <1>3, <2>1, <3>1, <4>1
        <5> QED BY <1>7, <4>1, <5>1 DEF IndInv, FlightOnce
      <4>2. CASE i = n + 1 /\ j \in 1..n
        BY <1>3, <1>8, <2>1, <3>1, <4>2
      <4>3. CASE i \in 1..n /\ j = n + 1
        BY <1>3, <1>8, <2>1, <3>1, <4>3
      <4> QED BY <1>7, <3>1, <4>1, <4>2, <4>3
    <3>2. CASE v # w \/ q # p
      <4>1. flight'[v][q] = flight[v][q]
        BY <1>3, <3>2
      <4> QED BY <2>1, <4>1 DEF IndInv, FlightOnce
    <3> QED BY <3>1, <3>2
  <2> QED BY <2>1 DEF FlightOnce
<1>11. ASSUME NEW e \in Keys, Real(e)
       PROVE  /\ InBatch(e)' <=> InBatch(e) /\ e \notin b
              /\ Flying(e)' <=> Flying(e) \/ e \in b
              /\ Arrived(e)' <=> Arrived(e)
  <2>1. e[1] \in Workers /\ PartitionOf(e) \in Workers
    BY <1>0, <1>11, PartitionExists
  <2>2. Arrived(e)' <=> Arrived(e)
    BY <1>4 DEF Arrived
  <2>3. InBatch(e)' <=> InBatch(e) /\ e \notin b
    <3>1. InBatch(e)' <=> e \in batch'[e[1]][PartitionOf(e)]
      BY <1>4 DEF InBatch
    <3>2. CASE e[1] = w /\ PartitionOf(e) = p
      BY <1>2, <2>1, <3>1, <3>2 DEF InBatch
    <3>3. CASE e[1] # w \/ PartitionOf(e) # p
      BY <1>2, <1>5, <2>1, <3>1, <3>3 DEF InBatch
    <3> QED BY <3>2, <3>3
  <2>4. Flying(e)' <=> Flying(e) \/ e \in b
    <3>0. /\ Flying(e)' <=> \E i \in 1..Len(flight'[e[1]][PartitionOf(e)]) :
                              e \in flight'[e[1]][PartitionOf(e)][i]
          /\ Flying(e) <=> \E i \in 1..Len(flight[e[1]][PartitionOf(e)]) :
                              e \in flight[e[1]][PartitionOf(e)][i]
      BY <1>4 DEF Flying
    <3>1. CASE e[1] = w /\ PartitionOf(e) = p
      <4>1. (\E i \in 1..Len(flight'[w][p]) : e \in flight'[w][p][i])
              <=> (\E i \in 1..n : e \in flight[w][p][i]) \/ e \in b
        BY <1>3, <1>7
      <4> QED BY <1>7, <3>0, <3>1, <4>1
    <3>2. CASE e[1] # w \/ PartitionOf(e) # p
      <4>1. flight'[e[1]][PartitionOf(e)] = flight[e[1]][PartitionOf(e)]
        BY <1>3, <2>1, <3>2
      <4>2. e \notin b
        BY <1>5, <3>2
      <4> QED BY <3>0, <4>1, <4>2
    <3> QED BY <3>1, <3>2
  <2> QED BY <2>2, <2>3, <2>4
<1> QED BY <1>2, <1>4, <1>5, <1>9, <1>10, <1>11 DEF KeysSent

(* One more is on its way. *)
LEMMA SentPool ==
  ASSUME IndInv, NEW w \in Workers, NEW p \in Workers, NEW b \in SUBSET Keys,
         ShardKeyCall(w, p, b), UNCHANGED <<answers, free>>,
         free[w] + InFlight(w) < ConcurrentRequests
  PROVE  /\ InFlight(w)' \in Nat /\ free'[w] + InFlight(w)' = free[w] + InFlight(w) + 1
         /\ \A q \in Workers : Len(flight'[w][q]) <= ConcurrentRequests
<1>0. BaseType /\ \A q \in Workers : Len(flight[w][q]) <= ConcurrentRequests
  BY DEF IndInv, Pool
<1>1. /\ free[w] \in Nat /\ answers[w] \in Nat /\ Cardinality(OnTheWay(w)) \in Nat
      /\ InFlight(w) = answers[w] + Cardinality(OnTheWay(w)) /\ ConcurrentRequests \in Nat
  BY <1>0, Counts
<1>2. Len(flight[w][p]) \in Nat /\ Len(flight[w][p]) <= Cardinality(OnTheWay(w))
  BY <1>0, QueueCounted
<1>3. Len(flight[w][p]) < ConcurrentRequests
  BY <1>1, <1>2
<1>4. Cardinality(OnTheWay(w)') = Cardinality(OnTheWay(w)) + 1
  BY <1>0, <1>3, SentCounted
<1>5. InFlight(w)' = answers'[w] + Cardinality(OnTheWay(w)')
  BY DEF InFlight
<1>6. InFlight(w)' \in Nat /\ free'[w] + InFlight(w)' = free[w] + InFlight(w) + 1
  BY <1>1, <1>4, <1>5
<1>7. ASSUME NEW q \in Workers PROVE Len(flight'[w][q]) <= ConcurrentRequests
  <2>1. CASE q = p
    BY <1>0, <1>1, <1>2, <1>3, <2>1, SentFlight
  <2>2. CASE q # p
    <3>1. flight'[w][q] = flight[w][q]
      BY <1>0, <2>2, SentFlight
    <3> QED BY <1>0, <3>1
  <2> QED BY <2>1, <2>2
<1> QED BY <1>6, <1>7

LEMMA IndShard ==
  ASSUME IndInv, NEW w \in Workers, Shard(w)
  PROVE  IndInv'
<1> DEFINE e == <<w, next[w]>>
           p == PartitionOf(e)
<1>0. BaseType /\ (\A v \in Workers : Pool(v))
  BY DEF IndInv
<1>1. /\ phase[w] = "keys" /\ next[w] <= Len(keys[w])
      /\ next' = [next EXCEPT ![w] = next[w] + 1]
      /\ UNCHANGED <<keys, pivots>> /\ UNCHANGED got /\ UNCHANGED <<answers, free>>
      /\ UNCHANGED <<calls, partition, dones>>
  BY DEF Shard
<1>2. next[w] \in Nat \ {0} /\ next'[w] = next[w] + 1 /\ \A v \in Workers : v # w => next'[v] = next[v]
  BY <1>0, <1>1 DEF BaseType
<1>3. e[1] = w /\ e[2] = next[w] /\ e \in Keys /\ Real(e)
  <2>1. keys[w] \in Shards
    BY <1>0 DEF BaseType
  <2>2. next[w] \in 1..MaxShard
    BY <1>1, <1>2, <2>1, ShardFacts, BoundsAssumption
  <2>3. e[1] = w /\ e[2] = next[w] /\ e \in Keys
    BY <2>2 DEF Keys
  <2> QED BY <1>1, <2>3 DEF Real
<1>4. p \in Workers
  BY <1>0, <1>3, PartitionExists
<1>5. Unsorted(e) /\ ~InBatch(e) /\ ~Flying(e) /\ ~Arrived(e)
  <2>1. Unsorted(e)
    BY <1>1, <1>2, <1>3 DEF Unsorted
  <2> QED BY <1>3, <2>1 DEF IndInv, OneStage
<1>6. \/ /\ ShardKeyCall(w, p, batch[w][p] \cup {e})
         /\ batch' = [batch EXCEPT ![w][p] = {}]
         /\ phase' = [phase EXCEPT ![w] = "take"]
      \/ /\ batch' = [batch EXCEPT ![w][p] = batch[w][p] \cup {e}]
         /\ UNCHANGED <<phase, flight>>
  <2>1. CASE Cardinality(batch[w][p]) + 1 >= KBatch
    BY <2>1 DEF Shard, WithKey
  <2>2. CASE ~(Cardinality(batch[w][p]) + 1 >= KBatch)
    BY <2>2 DEF Shard, WithKey
  <2> QED BY <2>1, <2>2
<1> HIDE DEF p
<1>b. batch \in [Workers -> [Workers -> SUBSET Keys]] /\ batch[w][p] \in SUBSET Keys
  <2>1. batch \in [Workers -> [Workers -> SUBSET Keys]]
    BY <1>0 DEF BaseType
  <2> QED BY <1>4, <2>1
<1>7. next' \in [Workers -> Nat \ {0}]
  BY <1>0, <1>1, <1>2 DEF BaseType
<1>8. ASSUME NEW d \in Keys, Real(d), phase'[d[1]] = phase[d[1]] \/ (d[1] = w /\ phase'[w] = "take")
      PROVE  /\ Unsorted(d)' <=> Unsorted(d) /\ d # e
             /\ phase'[d[1]] = "idle" <=> phase[d[1]] = "idle"
  <2>1. d[1] \in Workers /\ d[2] \in Nat /\ d = <<d[1], d[2]>>
    BY <1>0, <1>8, PartitionExists, Counts DEF Keys
  <2>2. CASE d[1] = w
    <3>1. d = e <=> d[2] = next[w]
      BY <2>1, <2>2
    <3>2. next[w] + 1 <= d[2] <=> next[w] <= d[2] /\ d[2] # next[w]
      BY <1>2, <2>1
    <3>3. phase'[w] \in {"keys", "take"}
      BY <1>1, <1>8, <2>2
    <3> QED BY <1>1, <1>2, <2>2, <3>1, <3>2, <3>3 DEF Unsorted
  <2>3. CASE d[1] # w
    BY <1>2, <1>3, <1>8, <2>1, <2>3 DEF Unsorted
  <2> QED BY <2>2, <2>3
<1>9. PartitionSet'
  BY <1>1 DEF IndInv, PartitionSet
<1>10. \A v, q \in Workers :
         phase[v] \in {"drain", "over"} \/ (phase[v] = "rest" /\ q < next[v]) => batch[v][q] = {}
  BY DEF IndInv, BatchSent
<1>11. CASE /\ ShardKeyCall(w, p, batch[w][p] \cup {e})
            /\ batch' = [batch EXCEPT ![w][p] = {}]
            /\ phase' = [phase EXCEPT ![w] = "take"]
  <2> DEFINE b == batch[w][p] \cup {e}
  <2>1. {e} \in SUBSET Keys /\ b \in SUBSET Keys
    BY <1>3, <1>b
  <2> DEFINE x == {e}
  <2>2. \A d \in x : Real(d) /\ d[1] = w /\ PartitionOf(d) = p /\ ~Flying(d)
    BY <1>3, <1>5 DEF p
  <2>3. b = batch[w][p] \cup x /\ ShardKeyCall(w, p, b) /\ x \in SUBSET Keys /\ e \in b
    BY <1>11, <2>1
  <2>a. batch' = [batch EXCEPT ![w][p] = {}] /\ UNCHANGED <<keys, pivots>> /\ UNCHANGED got
    BY <1>1, <1>11
  <2>y. \A d \in x : d = e
    OBVIOUS
  <2> HIDE DEF b, e, x
  <2>c. KeysSent(w, p, x, b)
    BY <1>4, <2>2, <2>3, <2>a, SentContents
  <2>4. /\ Contents' /\ FlightOnce'
        /\ batch' \in [Workers -> [Workers -> SUBSET Keys]]
        /\ \A v, q \in Workers : batch'[v][q] = IF v = w /\ q = p THEN {} ELSE batch[v][q]
        /\ \A d \in b : d[1] = w /\ (InBatch(d) \/ d = e)
        /\ \A d : (Real(d)' <=> Real(d))
        /\ \A d \in Keys : Real(d) => /\ InBatch(d)' <=> InBatch(d) /\ d \notin b
                                      /\ Flying(d)' <=> Flying(d) \/ d \in b
                                      /\ Arrived(d)' <=> Arrived(d)
    BY <2>c, <2>y DEF KeysSent
  <2>5. phase'[w] = "take" /\ \A v \in Workers : v # w => phase'[v] = phase[v]
    BY <1>0, <1>11 DEF BaseType
  <2>6. /\ flight' \in [Workers -> [Workers -> Seq(SUBSET Keys)]]
        /\ \A v, q \in Workers : v # w \/ q # p => flight'[v][q] = flight[v][q]
    BY <1>0, <1>4, <2>1, <2>3, SentFlight
  <2>7. BaseType'
    <3>1. phase' \in [Workers -> {"idle", "keys", "take", "rest", "drain", "over"}]
      BY <1>0, <1>11 DEF BaseType
    <3> QED BY <1>0, <1>1, <1>7, <2>4, <2>6, <3>1, SameKeys DEF BaseType
  <2>8. Pool(w)'
    <3>1. free[w] + InFlight(w) = ConcurrentRequests - N
      BY <1>0, <1>1 DEF Pool
    <3>2. /\ free[w] \in Nat /\ InFlight(w) \in Nat
          /\ N \in Nat \ {0} /\ ConcurrentRequests \in Nat
      BY <1>0, Counts, NAssumption
    <3>3. free[w] + InFlight(w) < ConcurrentRequests
      BY <3>1, <3>2
    <3>4. /\ free'[w] + InFlight(w)' = free[w] + InFlight(w) + 1
          /\ \A q \in Workers : Len(flight'[w][q]) <= ConcurrentRequests
      BY <1>1, <1>4, <2>1, <2>3, <3>3, SentPool
    <3>5. free'[w] + InFlight(w)' = ConcurrentRequests - N + 1
      BY <3>1, <3>4
    <3> QED BY <2>5, <3>4, <3>5 DEF Pool
  <2>9. \A v \in Workers : Pool(v)'
    BY <1>0, <1>1, <1>2, <2>5, <2>6, <2>8, PoolOfOthers
  <2>10. OneStage'
    <3>1. ASSUME NEW d \in Keys, Real(d)
          PROVE  /\ phase'[d[1]] = "idle" => ~InBatch(d)' /\ ~Flying(d)' /\ ~Arrived(d)'
                 /\ phase'[d[1]] # "idle" => Unsorted(d)' \/ InBatch(d)' \/ Flying(d)' \/ Arrived(d)'
                 /\ Unsorted(d)' => ~InBatch(d)' /\ ~Flying(d)' /\ ~Arrived(d)'
                 /\ InBatch(d)' => ~Flying(d)' /\ ~Arrived(d)'
                 /\ Flying(d)' => ~Arrived(d)'
      <4>1. /\ phase[d[1]] = "idle" => ~InBatch(d) /\ ~Flying(d) /\ ~Arrived(d)
            /\ phase[d[1]] # "idle" => Unsorted(d) \/ InBatch(d) \/ Flying(d) \/ Arrived(d)
            /\ Unsorted(d) => ~InBatch(d) /\ ~Flying(d) /\ ~Arrived(d)
            /\ InBatch(d) => ~Flying(d) /\ ~Arrived(d)
            /\ Flying(d) => ~Arrived(d)
        BY <3>1 DEF IndInv, OneStage
      <4>2. d[1] \in Workers
        BY <1>0, <3>1, PartitionExists
      <4>3. phase'[d[1]] = phase[d[1]] \/ (d[1] = w /\ phase'[w] = "take")
        BY <2>5, <4>2
      <4>4. (Unsorted(d)' <=> Unsorted(d) /\ d # e) /\ (phase'[d[1]] = "idle" <=> phase[d[1]] = "idle")
        BY <1>8, <3>1, <4>3
      <4>5. /\ InBatch(d)' <=> InBatch(d) /\ d \notin b
            /\ Flying(d)' <=> Flying(d) \/ d \in b
            /\ Arrived(d)' <=> Arrived(d)
        BY <2>4, <3>1
      <4>6. d \in b => (InBatch(d) \/ d = e) /\ phase[d[1]] # "idle"
        BY <1>1, <2>4
      <4>7. d = e => d \in b
        BY <2>3
      <4>8. CASE d = e
        BY <1>5, <4>1, <4>4, <4>5, <4>6, <4>7, <4>8
      <4>9. CASE d # e
        BY <4>1, <4>4, <4>5, <4>6, <4>9
      <4> QED BY <4>8, <4>9
    <3> QED BY <2>4, <3>1 DEF OneStage
  <2>11. BatchSent'
    <3>1. ASSUME NEW v \in Workers, NEW q \in Workers,
                 phase'[v] \in {"drain", "over"} \/ (phase'[v] = "rest" /\ q < next'[v])
          PROVE  batch'[v][q] = {}
      <4>1. v # w
        BY <2>5, <3>1
      <4> QED BY <1>2, <1>10, <2>4, <2>5, <3>1, <4>1
    <3> QED BY <3>1 DEF BatchSent
  <2> QED BY <1>9, <2>4, <2>7, <2>9, <2>10, <2>11 DEF IndInv
<1>12. CASE /\ batch' = [batch EXCEPT ![w][p] = batch[w][p] \cup {e}]
            /\ UNCHANGED <<phase, flight>>
  <2>1. batch \in [Workers -> [Workers -> SUBSET Keys]] /\ batch[w][p] \cup {e} \in SUBSET Keys
    BY <1>3, <1>b
  <2> HIDE DEF e
  <2>2. /\ batch' \in [Workers -> [Workers -> SUBSET Keys]]
        /\ batch'[w][p] = batch[w][p] \cup {e}
        /\ \A v, q \in Workers : v # w \/ q # p => batch'[v][q] = batch[v][q]
    BY <1>4, <1>12, <2>1, QueueReplaced
  <2>3. BaseType'
    BY <1>0, <1>1, <1>7, <1>12, <2>2, SameKeys DEF BaseType
  <2>4. \A d : (Real(d)' <=> Real(d)) /\ PartitionOf(d)' = PartitionOf(d)
    BY <1>1, SameKeys
  <2>5. Pool(w)'
    <3>1. InFlight(w)' = InFlight(w)
      BY <1>1, <1>12 DEF InFlight, OnTheWay
    <3>2. free'[w] + InFlight(w)' = free[w] + InFlight(w) /\ phase'[w] = "keys"
      BY <1>1, <1>12, <3>1
    <3> QED BY <1>0, <1>1, <1>12, <3>2 DEF Pool
  <2>6. \A v \in Workers : Pool(v)'
    BY <1>0, <1>1, <1>2, <1>12, <2>5, PoolOfOthers
  <2>7. Contents'
    <3>1. ASSUME NEW v \in Workers, NEW q \in Workers, NEW d \in batch'[v][q]
          PROVE  Real(d) /\ d[1] = v /\ PartitionOf(d) = q
      <4>1. CASE d \in batch[v][q]
        BY <4>1 DEF IndInv, Contents
      <4>2. CASE d \notin batch[v][q]
        <5>1. v = w /\ q = p /\ d = e
          BY <2>2, <3>1, <4>2
        <5> QED BY <1>3, <5>1 DEF p
      <4> QED BY <4>1, <4>2
    <3>2. \A v, q \in Workers : \A i \in 1..Len(flight'[v][q]) : \A d \in flight'[v][q][i] :
            Real(d) /\ d[1] = v /\ PartitionOf(d) = q
      BY <1>12 DEF IndInv, Contents
    <3>3. \A q \in Workers : \A d \in got'[q] : Real(d) /\ PartitionOf(d) = q
      BY <1>1 DEF IndInv, Contents
    <3> QED BY <2>4, <3>1, <3>2, <3>3 DEF Contents
  <2>8. FlightOnce'
    BY <1>12 DEF IndInv, FlightOnce
  <2>9. OneStage'
    <3>1. ASSUME NEW d \in Keys, Real(d)
          PROVE  /\ phase'[d[1]] = "idle" => ~InBatch(d)' /\ ~Flying(d)' /\ ~Arrived(d)'
                 /\ phase'[d[1]] # "idle" => Unsorted(d)' \/ InBatch(d)' \/ Flying(d)' \/ Arrived(d)'
                 /\ Unsorted(d)' => ~InBatch(d)' /\ ~Flying(d)' /\ ~Arrived(d)'
                 /\ InBatch(d)' => ~Flying(d)' /\ ~Arrived(d)'
                 /\ Flying(d)' => ~Arrived(d)'
      <4>1. /\ phase[d[1]] = "idle" => ~InBatch(d) /\ ~Flying(d) /\ ~Arrived(d)
            /\ phase[d[1]] # "idle" => Unsorted(d) \/ InBatch(d) \/ Flying(d) \/ Arrived(d)
            /\ Unsorted(d) => ~InBatch(d) /\ ~Flying(d) /\ ~Arrived(d)
            /\ InBatch(d) => ~Flying(d) /\ ~Arrived(d)
            /\ Flying(d) => ~Arrived(d)
        BY <3>1 DEF IndInv, OneStage
      <4>2. d[1] \in Workers /\ PartitionOf(d) \in Workers
        BY <1>0, <3>1, PartitionExists
      <4>3. (Unsorted(d)' <=> Unsorted(d) /\ d # e) /\ (phase'[d[1]] = "idle" <=> phase[d[1]] = "idle")
        BY <1>8, <1>12, <3>1
      <4>4. (Flying(d)' <=> Flying(d)) /\ (Arrived(d)' <=> Arrived(d))
        BY <1>1, <1>12, <2>4 DEF Flying, Arrived
      <4>5. InBatch(d)' <=> InBatch(d) \/ d = e
        <5>1. (InBatch(d)' <=> d \in batch'[d[1]][PartitionOf(d)])
                /\ (InBatch(d) <=> d \in batch[d[1]][PartitionOf(d)])
          BY <2>4 DEF InBatch
        <5>2. d = e => d[1] = w /\ PartitionOf(d) = p
          BY <1>3 DEF p
        <5>3. CASE d[1] = w /\ PartitionOf(d) = p
          BY <2>2, <5>1, <5>3
        <5>4. CASE d[1] # w \/ PartitionOf(d) # p
          BY <2>2, <4>2, <5>1, <5>2, <5>4
        <5> QED BY <5>3, <5>4
      <4>6. d = e => phase[d[1]] # "idle"
        BY <1>1, <1>3
      <4>7. CASE d = e
        BY <1>5, <4>1, <4>3, <4>4, <4>5, <4>6, <4>7
      <4>8. CASE d # e
        BY <4>1, <4>3, <4>4, <4>5, <4>8
      <4> QED BY <4>7, <4>8
    <3> QED BY <2>4, <3>1 DEF OneStage
  <2>10. BatchSent'
    <3>1. ASSUME NEW v \in Workers, NEW q \in Workers,
                 phase'[v] \in {"drain", "over"} \/ (phase'[v] = "rest" /\ q < next'[v])
          PROVE  batch'[v][q] = {}
      <4>1. v # w
        BY <1>1, <1>12, <3>1
      <4> QED BY <1>2, <1>10, <1>12, <2>2, <3>1, <4>1
    <3> QED BY <3>1 DEF BatchSent
  <2> QED BY <1>9, <2>3, <2>6, <2>7, <2>8, <2>9, <2>10 DEF IndInv
<1> QED BY <1>6, <1>11, <1>12

LEMMA IndSendRest ==
  ASSUME IndInv, NEW w \in Workers, SendRest(w)
  PROVE  IndInv'
<1> DEFINE p == next[w]
<1>0. BaseType /\ (\A v \in Workers : Pool(v))
  BY DEF IndInv
<1>1. /\ phase[w] = "rest" /\ p <= N
      /\ next' = [next EXCEPT ![w] = p + 1]
      /\ phase' = [phase EXCEPT ![w] = IF p = N THEN "drain" ELSE "rest"]
      /\ UNCHANGED <<keys, pivots>> /\ UNCHANGED got /\ UNCHANGED <<answers, free>>
      /\ UNCHANGED <<calls, partition, dones>>
  BY DEF SendRest
<1>2. \/ /\ batch[w][p] # {} /\ ShardKeyCall(w, p, batch[w][p])
         /\ batch' = [batch EXCEPT ![w][p] = {}]
      \/ batch[w][p] = {} /\ UNCHANGED <<flight, batch>>
  BY DEF SendRest
<1>3. p \in Workers /\ p \in Nat
  <2>1. p \in Nat \ {0}
    BY <1>0, Counts
  <2> QED BY <1>1, <2>1, NAssumption DEF Workers
<1>4. /\ next'[w] = p + 1 /\ phase'[w] = IF p = N THEN "drain" ELSE "rest"
      /\ \A v \in Workers : v # w => next'[v] = next[v] /\ phase'[v] = phase[v]
  BY <1>0, <1>1 DEF BaseType
<1>5. batch \in [Workers -> [Workers -> SUBSET Keys]] /\ batch[w][p] \in SUBSET Keys
  <2>1. batch \in [Workers -> [Workers -> SUBSET Keys]]
    BY <1>0 DEF BaseType
  <2> QED BY <1>3, <2>1
<1>6. next' \in [Workers -> Nat \ {0}]
  <2>1. next \in [Workers -> Nat \ {0}]
    BY <1>0 DEF BaseType
  <2>2. p + 1 \in Nat \ {0}
    BY <1>3
  <2> QED BY <1>1, <2>1, <2>2
<1>7. phase' \in [Workers -> {"idle", "keys", "take", "rest", "drain", "over"}]
  BY <1>0, <1>1 DEF BaseType
<1> HIDE DEF p
<1>8. ASSUME NEW d \in Keys, Real(d)
      PROVE  (Unsorted(d)' <=> Unsorted(d)) /\ (phase'[d[1]] = "idle" <=> phase[d[1]] = "idle")
  <2>1. d[1] \in Workers
    BY <1>0, <1>8, PartitionExists
  <2> QED BY <1>1, <1>4, <2>1 DEF Unsorted
<1>9. PartitionSet'
  BY <1>1 DEF IndInv, PartitionSet
<1>10. /\ free[w] + InFlight(w) <= ConcurrentRequests - N + (p - 1)
       /\ free[w] \in Nat /\ InFlight(w) \in Nat /\ N \in Nat /\ ConcurrentRequests \in Nat
       /\ free[w] + InFlight(w) < ConcurrentRequests
  <2>1. free[w] + InFlight(w) <= ConcurrentRequests - N + (p - 1)
    BY <1>0, <1>1 DEF Pool, p
  <2>2. free[w] \in Nat /\ InFlight(w) \in Nat /\ N \in Nat /\ ConcurrentRequests \in Nat
    BY <1>0, Counts
  <2> QED BY <1>1, <1>3, <2>1, <2>2
<1>11. ASSUME \A q \in Workers : Len(flight'[w][q]) <= ConcurrentRequests,
              InFlight(w)' \in Nat, free'[w] + InFlight(w)' <= free[w] + InFlight(w) + 1
       PROVE  Pool(w)'
  <2>1. CASE p = N
    <3>1. phase'[w] = "drain" /\ next'[w] = N + 1
      BY <1>4, <2>1
    <3>2. free'[w] + InFlight(w)' <= ConcurrentRequests - (next'[w] - (N + 1))
      BY <1>1, <1>10, <1>11, <2>1, <3>1
    <3>3. next'[w] >= N + 1
      BY <1>10, <3>1
    <3> QED BY <1>11, <3>1, <3>2, <3>3 DEF Pool
  <2>2. CASE p # N
    <3>1. phase'[w] = "rest" /\ next'[w] = p + 1
      BY <1>4, <2>2
    <3>2. /\ next'[w] <= N
          /\ free'[w] + InFlight(w)' <= ConcurrentRequests - N + (next'[w] - 1)
      BY <1>1, <1>3, <1>10, <1>11, <2>2, <3>1, SMTT(40)
    <3> QED BY <1>11, <3>1, <3>2 DEF Pool
  <2> QED BY <2>1, <2>2
<1>12. ASSUME \A v, q \in Workers : batch'[v][q] = IF v = w /\ q = p THEN {} ELSE batch[v][q]
       PROVE  BatchSent'
  <2>1. ASSUME NEW v \in Workers, NEW q \in Workers,
               phase'[v] \in {"drain", "over"} \/ (phase'[v] = "rest" /\ q < next'[v])
        PROVE  batch'[v][q] = {}
    <3>1. CASE v # w
      BY <1>4, <1>12, <2>1, <3>1 DEF IndInv, BatchSent
    <3>2. CASE v = w /\ q = p
      BY <1>12, <3>2
    <3>3. CASE v = w /\ q # p
      <4>1. q < p
        BY <1>1, <1>3, <1>4, <2>1, <3>3, NAssumption DEF Workers
      <4>2. batch[w][q] = {}
        BY <1>1, <4>1 DEF IndInv, BatchSent, p
      <4> QED BY <1>12, <3>3, <4>2
    <3> QED BY <3>1, <3>2, <3>3
  <2> QED BY <2>1 DEF BatchSent
<1>13. CASE /\ batch[w][p] # {} /\ ShardKeyCall(w, p, batch[w][p])
            /\ batch' = [batch EXCEPT ![w][p] = {}]
  <2> DEFINE b == batch[w][p]
             x == {}
  <2>1. /\ b = batch[w][p] \cup x /\ ShardKeyCall(w, p, b) /\ x \in SUBSET Keys
        /\ \A d \in x : Real(d) /\ d[1] = w /\ PartitionOf(d) = p /\ ~Flying(d)
    BY <1>13
  <2>2. batch' = [batch EXCEPT ![w][p] = {}] /\ UNCHANGED <<keys, pivots>> /\ UNCHANGED got
    BY <1>1, <1>13
  <2>3. x = {} /\ b \in SUBSET Keys
    BY <1>5
  <2> HIDE DEF b, x
  <2>4. KeysSent(w, p, x, b)
    BY <1>3, <2>1, <2>2, SentContents
  <2>5. /\ Contents' /\ FlightOnce'
        /\ batch' \in [Workers -> [Workers -> SUBSET Keys]]
        /\ \A v, q \in Workers : batch'[v][q] = IF v = w /\ q = p THEN {} ELSE batch[v][q]
        /\ \A d \in b : InBatch(d)
        /\ \A d : (Real(d)' <=> Real(d))
        /\ \A d \in Keys : Real(d) => /\ InBatch(d)' <=> InBatch(d) /\ d \notin b
                                      /\ Flying(d)' <=> Flying(d) \/ d \in b
                                      /\ Arrived(d)' <=> Arrived(d)
    BY <2>3, <2>4 DEF KeysSent
  <2>6. /\ flight' \in [Workers -> [Workers -> Seq(SUBSET Keys)]]
        /\ \A v, q \in Workers : v # w \/ q # p => flight'[v][q] = flight[v][q]
    BY <1>0, <1>3, <2>1, <2>3, SentFlight, ZenonT(60)
  <2>7. BaseType'
    BY <1>0, <1>1, <1>6, <1>7, <2>5, <2>6, SameKeys DEF BaseType
  <2>8. Pool(w)'
    <3>1. /\ InFlight(w)' \in Nat /\ free'[w] + InFlight(w)' = free[w] + InFlight(w) + 1
          /\ \A q \in Workers : Len(flight'[w][q]) <= ConcurrentRequests
      BY <1>1, <1>3, <1>10, <2>1, <2>3, SentPool
    <3> QED BY <1>10, <1>11, <3>1
  <2>9. \A v \in Workers : Pool(v)'
    BY <1>0, <1>1, <1>4, <2>6, <2>8, PoolOfOthers
  <2>10. OneStage'
    <3>1. ASSUME NEW d \in Keys, Real(d)
          PROVE  /\ phase'[d[1]] = "idle" => ~InBatch(d)' /\ ~Flying(d)' /\ ~Arrived(d)'
                 /\ phase'[d[1]] # "idle" => Unsorted(d)' \/ InBatch(d)' \/ Flying(d)' \/ Arrived(d)'
                 /\ Unsorted(d)' => ~InBatch(d)' /\ ~Flying(d)' /\ ~Arrived(d)'
                 /\ InBatch(d)' => ~Flying(d)' /\ ~Arrived(d)'
                 /\ Flying(d)' => ~Arrived(d)'
      <4>1. /\ phase[d[1]] = "idle" => ~InBatch(d) /\ ~Flying(d) /\ ~Arrived(d)
            /\ phase[d[1]] # "idle" => Unsorted(d) \/ InBatch(d) \/ Flying(d) \/ Arrived(d)
            /\ Unsorted(d) => ~InBatch(d) /\ ~Flying(d) /\ ~Arrived(d)
            /\ InBatch(d) => ~Flying(d) /\ ~Arrived(d)
            /\ Flying(d) => ~Arrived(d)
        BY <3>1 DEF IndInv, OneStage
      <4>2. (Unsorted(d)' <=> Unsorted(d)) /\ (phase'[d[1]] = "idle" <=> phase[d[1]] = "idle")
        BY <1>8, <3>1
      <4>3. /\ InBatch(d)' <=> InBatch(d) /\ d \notin b
            /\ Flying(d)' <=> Flying(d) \/ d \in b
            /\ Arrived(d)' <=> Arrived(d)
            /\ d \in b => InBatch(d)
        BY <2>5, <3>1
      <4> QED BY <4>1, <4>2, <4>3
    <3> QED BY <2>5, <3>1 DEF OneStage
  <2>11. BatchSent'
    BY <1>12, <2>5
  <2> QED BY <1>9, <2>5, <2>7, <2>9, <2>10, <2>11 DEF IndInv
<1>14. CASE batch[w][p] = {} /\ UNCHANGED <<flight, batch>>
  <2>1. UNCHANGED <<keys, pivots, batch, flight, got>>
    BY <1>1, <1>14
  <2>2. BaseType'
    BY <1>0, <1>1, <1>6, <1>7, <1>14, SameKeys DEF BaseType
  <2>3. Pool(w)'
    <3>1. InFlight(w)' = InFlight(w) /\ free'[w] = free[w]
      BY <1>1, <1>14 DEF InFlight, OnTheWay
    <3>2. \A q \in Workers : Len(flight'[w][q]) <= ConcurrentRequests
      BY <1>0, <1>14 DEF Pool
    <3> QED BY <1>10, <1>11, <3>1, <3>2
  <2>4. \A v \in Workers : Pool(v)'
    BY <1>0, <1>1, <1>4, <1>14, <2>3, PoolOfOthers
  <2>5. Contents' /\ FlightOnce'
    BY <2>1, SameContents
  <2>6. OneStage'
    BY <1>8, <2>1, SameStages
  <2>7. BatchSent'
    <3>1. \A v, q \in Workers : batch'[v][q] = IF v = w /\ q = p THEN {} ELSE batch[v][q]
      BY <1>14
    <3> QED BY <1>12, <3>1
  <2> QED BY <1>9, <2>2, <2>4, <2>5, <2>6, <2>7 DEF IndInv
<1> QED BY <1>2, <1>13, <1>14 DEF p

-----------------------------------------------------------------------------
LEMMA IndNext == IndInv /\ [Next]_vars => IndInv'
<1> SUFFICES ASSUME IndInv, [Next]_vars PROVE IndInv'
  OBVIOUS
<1>1. CASE UNCHANGED vars
  <2>1. /\ UNCHANGED <<keys, pivots, batch, flight, got>>
        /\ UNCHANGED <<calls, phase, next, free, answers, partition, dones>>
    BY <1>1 DEF vars
  <2>2. BaseType'
    BY <2>1, SameKeys DEF IndInv, BaseType
  <2>3. \A v \in Workers : Pool(v)'
    BY <2>1, SamePool DEF IndInv
  <2>4. OneStage'
    <3>1. \A e : Unsorted(e)' <=> Unsorted(e)
      BY <2>1 DEF Unsorted
    <3> QED BY <2>1, <3>1, SameStages
  <2>5. BatchSent' /\ PartitionSet'
    BY <2>1 DEF IndInv, BatchSent, PartitionSet
  <2> QED BY <2>1, <2>2, <2>3, <2>4, <2>5, SameContents DEF IndInv
<1>2. CASE Next
  BY <1>2, IndShuffleKey, IndShuffleKeyError, IndShard, IndTake, IndKeysOver, IndSendRest,
     IndDrain, IndShardKey, IndDoneShardKey DEF Next
<1> QED BY <1>1, <1>2

LEMMA Invariance == Spec => []IndInv
  BY IndInit, IndNext, PTL DEF Spec

-----------------------------------------------------------------------------
(* What the invariant says of the properties. *)

LEMMA TypeFollows == IndInv => TypeOK
<1> SUFFICES ASSUME IndInv PROVE TypeOK
  OBVIOUS
<1>0. BaseType /\ \A w \in Workers : Pool(w)
  BY DEF IndInv
<1>1. ASSUME NEW w \in Workers PROVE free[w] + InFlight(w) <= ConcurrentRequests
  <2>1. phase[w] \in {"idle", "keys", "take", "rest", "drain", "over"}
    BY <1>0 DEF BaseType
  <2>2. /\ free[w] \in Nat /\ InFlight(w) \in Nat /\ next[w] \in Nat
        /\ N \in Nat \ {0} /\ ConcurrentRequests \in Nat /\ ConcurrentRequests >= N
    BY <1>0, Counts, NAssumption
  <2> QED BY <1>0, <2>1, <2>2, SMTT(40) DEF Pool
<1>2. ASSUME NEW w \in Workers
      PROVE  free[w] \in 0..ConcurrentRequests /\ answers[w] \in 0..ConcurrentRequests
  <2>1. /\ free[w] \in Nat /\ InFlight(w) \in Nat /\ answers[w] \in Nat
        /\ Cardinality(OnTheWay(w)) \in Nat /\ ConcurrentRequests \in Nat
        /\ InFlight(w) = answers[w] + Cardinality(OnTheWay(w))
    BY <1>0, Counts
  <2> QED BY <1>1, <2>1
<1>3. free \in [Workers -> 0..ConcurrentRequests] /\ answers \in [Workers -> 0..ConcurrentRequests]
  <2>1. free \in [Workers -> Nat] /\ answers \in [Workers -> Nat]
    BY <1>0 DEF BaseType
  <2> QED BY <1>2, <2>1
<1>4. \A w, p \in Workers : \A i \in 1..Len(flight[w][p]) : flight[w][p][i] \subseteq Keys
  <2>1. \A w, p \in Workers : flight[w][p] \in Seq(SUBSET Keys)
    BY <1>0 DEF BaseType
  <2> QED BY <2>1
<1>5. \A w \in Workers : \A i \in 1..Len(dones[w]) : dones[w][i] \in {"elapsed", "default", "error"}
  <2>1. \A w \in Workers : dones[w] \in Seq({"elapsed", "default", "error"})
    BY <1>0 DEF BaseType
  <2> QED BY <2>1
<1>6. next \in [Workers -> Nat]
  BY <1>0 DEF BaseType
<1> QED BY <1>0, <1>3, <1>4, <1>5, <1>6 DEF BaseType, TypeOK

LEMMA PoolFollows == IndInv => PoolConserved
<1> SUFFICES ASSUME IndInv, NEW w \in Workers
             PROVE  /\ phase[w] = "keys" => free[w] + InFlight(w) = ConcurrentRequests - N
                    /\ phase[w] = "take" => free[w] + InFlight(w) = ConcurrentRequests - N + 1
                    /\ phase[w] \in {"rest", "drain"} => free[w] + InFlight(w) <= ConcurrentRequests
  BY DEF PoolConserved
<1>1. BaseType /\ Pool(w)
  BY DEF IndInv
<1>2. /\ free[w] \in Nat /\ InFlight(w) \in Nat /\ next[w] \in Nat
      /\ N \in Nat \ {0} /\ ConcurrentRequests \in Nat
  BY <1>1, Counts, NAssumption
<1> QED BY <1>1, <1>2 DEF Pool

LEMMA OnePlace ==
  ASSUME IndInv, NEW e, Real(e), phase[e[1]] # "idle"
  PROVE  Cardinality(Places(e)) = 1
<1> DEFINE w == e[1]
           p == PartitionOf(e)
<1>0. BaseType /\ e \in Keys
  BY DEF IndInv, Real
<1>1. w \in Workers /\ p \in Workers
  BY <1>0, PartitionExists
<1>2. /\ Unsorted(e) \/ InBatch(e) \/ Flying(e) \/ Arrived(e)
      /\ Unsorted(e) => ~InBatch(e) /\ ~Flying(e) /\ ~Arrived(e)
      /\ InBatch(e) => ~Flying(e) /\ ~Arrived(e)
      /\ Flying(e) => ~Arrived(e)
  BY <1>0 DEF IndInv, OneStage
<1>3. /\ Unsorted(e) => ShardPlaces(e) = {<<"shard">>}
      /\ ~Unsorted(e) => ShardPlaces(e) = {}
  BY DEF ShardPlaces, Unsorted
<1>4. /\ InBatch(e) => BatchPlaces(e) = {<<"batch", p>>}
      /\ ~InBatch(e) => BatchPlaces(e) = {}
  <2>1. \A q \in Workers : e \in batch[w][q] <=> InBatch(e) /\ q = p
    BY <1>1 DEF IndInv, Contents, InBatch
  <2>2. {q \in Workers : e \in batch[e[1]][q]} = IF InBatch(e) THEN {p} ELSE {}
    BY <1>1, <2>1
  <2> QED BY <2>2 DEF BatchPlaces
<1>5. /\ Arrived(e) => GotPlaces(e) = {<<"got", p>>}
      /\ ~Arrived(e) => GotPlaces(e) = {}
  <2>1. \A q \in Workers : e \in got[q] <=> Arrived(e) /\ q = p
    BY <1>1 DEF IndInv, Contents, Arrived
  <2>2. {q \in Workers : e \in got[q]} = IF Arrived(e) THEN {p} ELSE {}
    BY <1>1, <2>1
  <2> QED BY <2>2 DEF GotPlaces
<1>6. /\ Flying(e) => \E i : FlightPlaces(e) = {<<"flight", p, i>>}
      /\ ~Flying(e) => FlightPlaces(e) = {}
  <2>0. Len(flight[w][p]) \in Nat /\ Len(flight[w][p]) <= ConcurrentRequests /\ ConcurrentRequests \in Nat
    <3>1. flight[w][p] \in Seq(SUBSET Keys)
      BY <1>0, <1>1 DEF BaseType
    <3> QED BY <1>1, <3>1, EnoughRequests DEF IndInv, Pool
  <2>1. ASSUME NEW y \in OnTheWay(w), e \in flight[w][y[1]][y[2]]
        PROVE  y = <<p, y[2]>> /\ y[2] \in 1..Len(flight[w][p]) /\ e \in flight[w][p][y[2]]
    <3>1. y \in Workers \X (1..ConcurrentRequests) /\ y[2] <= Len(flight[w][y[1]])
      BY DEF OnTheWay
    <3>2. y = <<y[1], y[2]>> /\ y[1] \in Workers /\ y[2] \in 1..ConcurrentRequests
      BY <3>1
    <3>3. flight[w][y[1]] \in Seq(SUBSET Keys)
      BY <1>0, <1>1, <3>2 DEF BaseType
    <3>4. y[2] \in 1..Len(flight[w][y[1]])
      BY <3>1, <3>2, <3>3, <2>0
    <3>5. y[1] = p
      BY <1>1, <2>1, <3>2, <3>4 DEF IndInv, Contents
    <3> QED BY <2>1, <3>2, <3>4, <3>5
  <2> DEFINE Y == {y \in OnTheWay(w) : e \in flight[w][y[1]][y[2]]}
  <2>2. FlightPlaces(e) = {<<"flight", x[1], x[2]>> : x \in Y}
    BY DEF FlightPlaces
  <2>3. CASE ~Flying(e)
    <3>1. Y = {}
      BY <2>1, <2>3 DEF Flying
    <3> QED BY <2>2, <2>3, <3>1
  <2>4. CASE Flying(e)
    <3>1. PICK i \in 1..Len(flight[w][p]) : e \in flight[w][p][i]
      BY <2>4 DEF Flying
    <3>2. <<p, i>> \in OnTheWay(w)
      BY <1>1, <2>0, <3>1 DEF OnTheWay
    <3>3. \A y \in Y : y = <<p, i>>
      <4>1. ASSUME NEW y \in Y PROVE y = <<p, i>>
        <5>1. y = <<p, y[2]>> /\ y[2] \in 1..Len(flight[w][p]) /\ e \in flight[w][p][y[2]]
          BY <2>1
        <5>2. y[2] = i
          BY <1>1, <3>1, <5>1 DEF IndInv, FlightOnce
        <5> QED BY <5>1, <5>2
      <4> QED BY <4>1
    <3>4. Y = {<<p, i>>}
      BY <3>1, <3>2, <3>3
    <3> HIDE DEF Y
    <3>5. FlightPlaces(e) = {<<"flight", p, i>>}
      BY <2>2, <3>4
    <3> QED BY <2>4, <3>5
  <2> QED BY <2>3, <2>4
<1>7. \E x : Places(e) = {x}
  <2>1. CASE Unsorted(e)
    BY <1>2, <1>3, <1>4, <1>5, <1>6, <2>1 DEF Places
  <2>2. CASE InBatch(e)
    BY <1>2, <1>3, <1>4, <1>5, <1>6, <2>2 DEF Places
  <2>3. CASE Flying(e)
    <3>1. PICK i : FlightPlaces(e) = {<<"flight", p, i>>}
      BY <1>6, <2>3
    <3> QED BY <1>2, <1>3, <1>4, <1>5, <2>3, <3>1 DEF Places
  <2>4. CASE Arrived(e)
    BY <1>2, <1>3, <1>4, <1>5, <1>6, <2>4 DEF Places
  <2> QED BY <1>2, <2>1, <2>2, <2>3, <2>4
<1> QED BY <1>7, FS_Singleton

(* Neither requests nor keys are lost or doubled: worker.cc's shuffle      *)
(* thread, doneShardKey on the loop and the peers' ShardKey share a pool   *)
(* of requests; in all their interleavings the pool has what the thread's  *)
(* position leaves, and each key of a worker that shuffles is at exactly   *)
(* one place.                                                              *)
THEOREM KeysAreConserved == Spec => []KeysConserved
<1>1. ASSUME IndInv PROVE EveryKeyOnce
  <2>1. ASSUME NEW w \in Workers, phase[w] # "idle", NEW i \in 1..Len(keys[w])
        PROVE  Cardinality(Places(<<w, i>>)) = 1
    <3> DEFINE e == <<w, i>>
    <3>1. keys[w] \in Shards
      BY <1>1 DEF IndInv, BaseType
    <3>2. i \in 1..MaxShard
      BY <3>1, ShardFacts, BoundsAssumption
    <3>3. e[1] = w /\ e[2] = i /\ e \in Keys
      BY <3>2 DEF Keys
    <3>4. Real(e)
      BY <3>1, <3>3, ShardFacts DEF Real
    <3> HIDE DEF e
    <3>5. Cardinality(Places(e)) = 1
      BY <1>1, <2>1, <3>3, <3>4, OnePlace
    <3> QED BY <3>5 DEF e
  <2> QED BY <2>1 DEF EveryKeyOnce
<1>2. IndInv => KeysConserved
  BY <1>1, TypeFollows, PoolFollows DEF KeysConserved
<1> QED BY <1>2, Invariance, PTL

(* A worker that is over has delivered its keys. *)
LEMMA OverDelivered ==
  ASSUME IndInv, NEW e, Real(e), phase[e[1]] = "over"
  PROVE  Arrived(e)
<1> DEFINE w == e[1]
           p == PartitionOf(e)
<1>0. BaseType /\ e \in Keys
  BY DEF IndInv, Real
<1>1. w \in Workers /\ p \in Workers
  BY <1>0, PartitionExists
<1>2. Unsorted(e) \/ InBatch(e) \/ Flying(e) \/ Arrived(e)
  BY <1>0 DEF IndInv, OneStage
<1>3. ~Unsorted(e)
  BY DEF Unsorted
<1>4. ~InBatch(e)
  BY <1>1 DEF IndInv, BatchSent, InBatch
<1>5. Len(flight[w][p]) = 0
  <2>1. free[w] + InFlight(w) = 0 /\ Len(flight[w][p]) <= ConcurrentRequests
    BY <1>1 DEF IndInv, Pool
  <2>2. /\ free[w] \in Nat /\ answers[w] \in Nat /\ Cardinality(OnTheWay(w)) \in Nat
        /\ InFlight(w) = answers[w] + Cardinality(OnTheWay(w))
    BY <1>0, <1>1, Counts
  <2>3. Len(flight[w][p]) \in Nat /\ Len(flight[w][p]) <= Cardinality(OnTheWay(w))
    BY <1>0, <1>1, <2>1, QueueCounted
  <2> HIDE DEF w, p
  <2>4. Cardinality(OnTheWay(w)) = 0
    BY <2>1, <2>2
  <2> QED BY <2>3, <2>4
<1>6. ~Flying(e)
  BY <1>5 DEF Flying
<1> QED BY <1>2, <1>3, <1>4, <1>6

(* Pairing with w is a bijection. *)
LEMMA PairedCount ==
  ASSUME NEW w, NEW H, IsFiniteSet(H), NEW G,
         \A i \in H : <<w, i>> \in G, \A e \in G : \E i \in H : e = <<w, i>>
  PROVE  Cardinality(G) = Cardinality(H)
<1> DEFINE f == [i \in H |-> <<w, i>>]
<1>1. f \in [H -> G]
  OBVIOUS
<1>2. \A i, j \in H : f[i] = f[j] => i = j
  OBVIOUS
<1>3. \A e \in G : \E i \in H : f[i] = e
  OBVIOUS
<1>4. f \in Bijection(H, G)
  BY <1>1, <1>2, <1>3 DEF Bijection, Injection, Surjection, IsInjective
<1>5. ExistsBijection(H, G)
  BY <1>4 DEF ExistsBijection
<1> QED BY <1>5, FS_Bijection

(* When a worker reports that it has shuffled, its peers hold as many of   *)
(* its keys as GetHistogram counted, and when all have, SortKey reports    *)
(* the keys of its partition: the wait for concurrentRequests_ requests in *)
(* worker.cc's shuffle is long enough, in every order of answers.          *)
THEOREM DeliveryIsAsCounted == Spec => []DeliveredAsCounted
<1>1. ASSUME IndInv, NEW w \in Workers, NEW i \in 1..Len(keys[w])
      PROVE  Real(<<w, i>>) /\ <<w, i>> \in Keys
  <2>1. keys[w] \in Shards
    BY <1>1 DEF IndInv, BaseType
  <2>2. i \in 1..MaxShard /\ i <= Len(keys[w])
    BY <2>1, ShardFacts, BoundsAssumption
  <2>3. <<w, i>> \in Keys
    BY <2>2 DEF Keys
  <2> QED BY <2>2, <2>3 DEF Real
<1>2. ASSUME IndInv, NEW e, Real(e)
      PROVE  /\ e[1] \in Workers /\ e[2] \in 1..Len(keys[e[1]]) /\ e = <<e[1], e[2]>>
             /\ PartitionOf(e) \in Workers
  <2>1. e = <<e[1], e[2]>>
    BY <1>2 DEF Real, Keys
  <2> QED BY <1>2, <2>1, PartitionExists DEF IndInv
<1>3. ASSUME IndInv, NEW w \in Workers, phase[w] = "over", NEW p \in Workers
      PROVE  Cardinality({e \in got[p] : e[1] = w}) = Histogram(w, p)
  <2> DEFINE G == {e \in got[p] : e[1] = w}
             H == {i \in 1..Len(keys[w]) : PartitionOf(<<w, i>>) = p}
  <2>1. IsFiniteSet(H)
    <3>1. Len(keys[w]) \in Nat
      BY <1>3, Counts DEF IndInv
    <3>2. IsFiniteSet(1..Len(keys[w]))
      BY <3>1, FS_Interval
    <3> QED BY <3>2, FS_Subset
  <2>2. ASSUME NEW i \in H PROVE <<w, i>> \in G
    <3> DEFINE e == <<w, i>>
    <3>1. Real(e) /\ e[1] = w /\ PartitionOf(e) = p
      BY <1>1, <1>3
    <3> HIDE DEF e
    <3>2. Arrived(e)
      BY <1>3, <3>1, OverDelivered
    <3>3. e \in G
      BY <3>1, <3>2 DEF Arrived
    <3> QED BY <3>3 DEF e
  <2>3. ASSUME NEW e \in G PROVE \E i \in H : e = <<w, i>>
    <3>1. Real(e) /\ PartitionOf(e) = p /\ e[1] = w
      BY <1>3 DEF IndInv, Contents
    <3>2. e = <<w, e[2]>> /\ e[2] \in 1..Len(keys[w])
      BY <1>2, <1>3, <3>1
    <3>3. e[2] \in H
      BY <3>1, <3>2
    <3> QED BY <3>2, <3>3
  <2> HIDE DEF G, H
  <2>4. Cardinality(G) = Cardinality(H)
    BY <2>1, <2>2, <2>3, PairedCount
  <2> QED BY <2>4 DEF G, H, Histogram
<1>4. ASSUME IndInv, \A w \in Workers : phase[w] = "over", NEW p \in Workers
      PROVE  got[p] = {e \in Keys : e[2] <= Len(keys[e[1]]) /\ PartitionOf(e) = p}
  <2>1. ASSUME NEW e \in Keys, e[2] <= Len(keys[e[1]]), PartitionOf(e) = p PROVE e \in got[p]
    <3>1. Real(e)
      BY <2>1 DEF Real
    <3>2. phase[e[1]] = "over"
      BY <1>2, <1>4, <3>1
    <3>3. Arrived(e)
      BY <1>4, <3>1, <3>2, OverDelivered
    <3> QED BY <2>1, <3>3 DEF Arrived
  <2>2. ASSUME NEW e \in got[p]
        PROVE  e \in Keys /\ e[2] <= Len(keys[e[1]]) /\ PartitionOf(e) = p
    BY <1>4 DEF IndInv, Contents, Real
  <2> QED BY <2>1, <2>2
<1>5. ASSUME IndInv, NEW p \in Workers
      PROVE  /\ SortKeyResponse(p).count = Cardinality(got[p])
             /\ SortKeyResponse(p).count > 0 => SortKeyResponse(p).partition = p
             /\ \A k \in SortKeyResponse(p).ends : Partition(k) = p
  <2>1. /\ SortKeyResponse(p).count = Cardinality(got[p])
        /\ SortKeyResponse(p).partition = partition[p]
        /\ SortKeyResponse(p).ends \subseteq {keys[e[1]][e[2]] : e \in got[p]}
    BY DEF SortKeyResponse
  <2>2. Cardinality(got[p]) > 0 => partition[p] = p
    <3>1. got[p] # {} => partition[p] = p
      BY <1>5 DEF IndInv, PartitionSet
    <3> QED BY <3>1, FS_EmptySet
  <2>3. \A e \in got[p] : Partition(keys[e[1]][e[2]]) = p
    BY <1>5 DEF IndInv, Contents, PartitionOf
  <2> QED BY <2>1, <2>2, <2>3
<1>6. IndInv => DeliveredAsCounted
  BY <1>3, <1>4, <1>5 DEF DeliveredAsCounted
<1> QED BY <1>6, Invariance, PTL

-----------------------------------------------------------------------------
(***************************************************************************)
(* The controller, module WordControl, which gathers the workers before    *)
(* they shuffle.  WordControlInstance has its names; its assumptions on    *)
(* the constants are hypotheses of the lemmas.                             *)
(***************************************************************************)

(* Every peer of the worker is connected or has been. *)
WasReady(w) == Control!Range(peers[w]) \subseteq linked[w] \cup lost[w]

InfoOf(w) == [gotInfo |-> TRUE, keys |-> shard[w].keys, max |-> shard[w].max, peers |-> peers[w]]

Gathered == {i \in 1..Len(clients) : workers[i].gotInfo}

ControlTypes ==
  /\ peers \in [Addresses -> Lists]
  /\ shard \in [Addresses -> [keys : Totals, max : Totals]]
  /\ linked \in [Addresses -> SUBSET Addresses] /\ lost \in [Addresses -> SUBSET Addresses]
  /\ stage \in Control!Phases
  /\ latch \in Nat
  /\ client \in 1..(1 + Len(clients))
  /\ clients \in Lists \cup {<<>>}
  /\ open \subseteq 1..Len(clients)
  /\ asked \subseteq 0..Len(clients)
  /\ \A a \in infos : a.part \in 0..Len(clients) /\ a.ready \in BOOLEAN

Before == stage \in {"connectHead", "getInfoHead"}
Connecting == stage \in {"connect", "connecting"}
Gathering == stage \in {"getInfo", "waiting", "ready", "fatal"}

(* Up to the answer of the head nothing is known but whom to ask. *)
HeadFacts ==
  /\ client = 1 /\ open = {} /\ workers = <<>>
  /\ stage = "connectHead" => latch \in {0, 1} /\ clients = <<>> /\ asked = {} /\ infos = {}
  /\ stage = "getInfoHead" =>
       \/ /\ latch = 1 /\ clients = <<>> /\ asked \subseteq {0}
          /\ \A a \in infos : infos = {a} /\ a.part = 0 /\ asked = {}
       \/ latch = 0 /\ clients = peers[HeadWorker] /\ asked = {} /\ infos = {}

(* The first latch counts the clients that are not connected. *)
ConnectFacts ==
  /\ clients = peers[HeadWorker] /\ asked = {} /\ infos = {} /\ workers = <<>>
  /\ latch + Cardinality(open) = Len(clients)
  /\ stage = "connect" => open \subseteq 1..(client - 1)
  /\ stage = "connecting" => client = 1

(* The second one counts those whose information is missing.  A client is  *)
(* not asked yet, asked, answering or known.                               *)
GatherFacts ==
  /\ clients = peers[HeadWorker] /\ open = 1..Len(clients)
  /\ DOMAIN workers = 1..Len(clients)
  /\ latch + Cardinality(Gathered) = Len(clients)
  /\ asked \subseteq 1..(client - 1)
  /\ \A i \in asked : ~workers[i].gotInfo
  /\ \A a \in infos : /\ a.part \in 1..(client - 1) /\ a.part \notin asked
                      /\ ~workers[a.part].gotInfo
                      /\ a.ready => WasReady(clients[a.part])
  /\ \A a, b \in infos : a.part = b.part => a = b
  /\ \A i \in 1..Len(clients) :
       \/ workers[i] = Control!NoInfo
       \/ i < client /\ workers[i] = InfoOf(clients[i]) /\ WasReady(clients[i])
  /\ stage = "ready" => \A i \in 1..Len(clients) : workers[i].gotInfo

ControlInv ==
  /\ ControlTypes
  /\ Before => HeadFacts
  /\ Connecting => ConnectFacts
  /\ Gathering => GatherFacts
  /\ Control!TotalsComplete /\ Control!OnePartitioning

-----------------------------------------------------------------------------
(* Lists of clients, and the greatest of their keys. *)

LEMMA ClientFacts ==
  ASSUME ControlAssumed, ControlTypes
  PROVE  /\ clients \in Seq(Addresses) /\ Len(clients) \in Nat
         /\ Control!Index = 1..Len(clients)
         /\ \A i \in 1..Len(clients) : clients[i] \in Addresses
<1>1. clients \in Seq(Addresses)
  <2>1. <<>> \in Seq(Addresses) /\ Lists \subseteq Seq(Addresses)
    BY EmptySeq DEF ControlAssumed, Control!ListsAssumption
  <2> QED BY <2>1 DEF ControlTypes
<1> QED BY <1>1, LenProperties, ElementOfSeq DEF Control!Index

LEMMA HeadList ==
  ASSUME ControlAssumed, ControlTypes
  PROVE  /\ peers[HeadWorker] \in Lists /\ peers[HeadWorker] \in Seq(Addresses)
         /\ Len(peers[HeadWorker]) \in Nat
<1>1. peers[HeadWorker] \in Lists
  BY DEF ControlTypes, ControlAssumed, Control!HeadAssumption
<1> QED BY <1>1, LenProperties DEF ControlAssumed, Control!ListsAssumption

LEMMA Gathers ==
  ASSUME ControlAssumed, ControlTypes
  PROVE  /\ IsFiniteSet(Gathered) /\ Cardinality(Gathered) \in Nat
         /\ Cardinality(Gathered) <= Len(clients)
         /\ Cardinality(Gathered) = Len(clients) => Gathered = 1..Len(clients)
         /\ IsFiniteSet(open) /\ Cardinality(open) \in Nat
         /\ Cardinality(open) <= Len(clients)
         /\ Cardinality(open) = Len(clients) => open = 1..Len(clients)
<1>1. Len(clients) \in Nat
  BY ClientFacts
<1>2. IsFiniteSet(1..Len(clients)) /\ Cardinality(1..Len(clients)) = Len(clients)
  <2>1. 1 \in Int /\ Len(clients) \in Int /\ ~(1 > Len(clients) /\ Len(clients) # 0)
    BY <1>1
  <2>2. IsFiniteSet(1..Len(clients))
        /\ Cardinality(1..Len(clients)) = IF 1 > Len(clients) THEN 0 ELSE Len(clients) - 1 + 1
    BY <2>1, FS_Interval
  <2> QED BY <1>1, <2>1, <2>2
<1>3. Gathered \in SUBSET (1..Len(clients))
  BY DEF Gathered
<1>4. open \in SUBSET (1..Len(clients))
  BY DEF ControlTypes
<1>5. IsFiniteSet(Gathered) /\ Cardinality(Gathered) <= Len(clients)
      /\ (Cardinality(Gathered) = Len(clients) => Gathered = 1..Len(clients))
  BY <1>2, <1>3, FS_Subset
<1>6. IsFiniteSet(open) /\ Cardinality(open) <= Len(clients)
      /\ (Cardinality(open) = Len(clients) => open = 1..Len(clients))
  BY <1>2, <1>4, FS_Subset
<1> QED BY <1>5, <1>6, FS_CardinalityType

(* The set that prepare takes the maximum of has one: the values of a      *)
(* finite sequence are bounded, and the least bound is one of them or 0.   *)
LEMMA GreatestIsBound ==
  ASSUME NEW n \in Nat, NEW f, \A i \in 1..n : f[i] \in Nat
  PROVE  \A i \in 1..n : f[i] <= Control!Max({0} \cup {f[j] : j \in 1..n})
<1> DEFINE Bounds(k) == {b \in Nat : \A i \in 1..k : f[i] <= b}
           T == {k \in 0..n : Bounds(k) = {}}
           S == {0} \cup {f[j] : j \in 1..n}
<1>1. T = {}
  <2> SUFFICES ASSUME T # {} PROVE FALSE
    OBVIOUS
  <2>1. PICK k \in T : \A m \in T : k <= m
    <3>1. T \subseteq Nat
      OBVIOUS
    <3> HIDE DEF T
    <3> QED BY <3>1, LeastNatural
  <2>2. k # 0
    <3>1. 0 \in Bounds(0)
      OBVIOUS
    <3> QED BY <2>1, <3>1
  <2>3. k \in 1..n /\ k - 1 \in 0..n /\ k - 1 \notin T
    <3>1. k \in 0..n /\ \A m \in T : k <= m
      BY <2>1
    <3>2. k \in 1..n /\ k - 1 \in 0..n /\ ~(k <= k - 1)
      BY <2>2, <3>1
    <3> HIDE DEF T
    <3> QED BY <3>1, <3>2
  <2>4. PICK b \in Nat : \A i \in 1..(k - 1) : f[i] <= b
    BY <2>3
  <2>5. PICK c \in Nat : c >= b /\ c >= f[k]
    <3>1. f[k] \in Nat
      BY <2>3
    <3> QED BY <3>1, <2>4
  <2>6. ASSUME NEW i \in 1..k PROVE f[i] <= c
    <3>1. CASE i = k
      BY <3>1, <2>3, <2>5
    <3>2. CASE i # k
      <4>1. i \in 1..(k - 1) /\ f[i] \in Nat
        BY <3>2, <2>3
      <4> QED BY <4>1, <2>4, <2>5
    <3> QED BY <3>1, <3>2
  <2>7. c \in Bounds(k)
    BY <2>5, <2>6
  <2> QED BY <2>1, <2>7
<1>2. Bounds(n) # {} /\ Bounds(n) \subseteq Nat
  BY <1>1
<1>3. PICK b \in Bounds(n) : \A m \in Bounds(n) : b <= m
  BY <1>2, LeastNatural
<1>4. b \in S
  <2> SUFFICES ASSUME b # 0, \A j \in 1..n : f[j] # b PROVE FALSE
    OBVIOUS
  <2>1. b - 1 \in Nat /\ \A i \in 1..n : f[i] <= b - 1
    <3>1. b \in Nat /\ \A i \in 1..n : f[i] \in Nat /\ f[i] <= b /\ f[i] # b
      BY <1>3
    <3>2. b - 1 \in Nat /\ \A x \in Nat : x <= b /\ x # b => x <= b - 1
      BY <3>1
    <3> QED BY <3>1, <3>2
  <2>2. b - 1 \in Bounds(n)
    BY <2>1
  <2> QED BY <2>2, <1>3
<1>5. \A y \in S : y \in Nat /\ b >= y
  BY <1>3
<1> HIDE DEF S
<1>6. Control!Max(S) \in S /\ \A y \in S : Control!Max(S) >= y
  BY <1>4, <1>5 DEF Control!Max
<1>7. \A i \in 1..n : f[i] \in S
  BY DEF S
<1>8. \A i \in 1..n : f[i] <= Control!Max(S)
  <2>1. Control!Max(S) \in Nat
    BY <1>5, <1>6
  <2> QED BY <2>1, <1>6, <1>7, <1>5
<1> QED BY <1>8 DEF S

(* What was connected stays connected or lost. *)
LEMMA ReadyStays ==
  ASSUME NEW w, peers' = peers, linked[w] \cup lost[w] \subseteq linked'[w] \cup lost'[w],
         WasReady(w)
  PROVE  WasReady(w)'
BY DEF WasReady

(* The properties of the stage "ready" hold outside it, and as long as     *)
(* nothing they speak of changes.                                          *)
LEMMA TotalsStay ==
  ASSUME Control!TotalsComplete, Control!OnePartitioning,
         stage' # "ready" \/ UNCHANGED <<stage, peers, shard, clients, keyCount, maxKey>>
  PROVE  Control!TotalsComplete' /\ Control!OnePartitioning'
BY DEF Control!TotalsComplete, Control!OnePartitioning, Control!Index

LEMMA ControlStart ==
  ASSUME ControlAssumed, Control!Init
  PROVE  ControlInv
<1>1. ControlTypes
  BY DEF Control!Init, ControlTypes, Control!Phases, ControlAssumed
<1>2. Before /\ ~Connecting /\ ~Gathering /\ stage # "ready"
  BY DEF Control!Init, Before, Connecting, Gathering
<1>3. HeadFacts
  BY DEF Control!Init, HeadFacts
<1> QED BY <1>1, <1>2, <1>3 DEF ControlInv, Control!TotalsComplete, Control!OnePartitioning

(* Connections between the workers come and go. *)
LEMMA ControlPeers ==
  ASSUME ControlAssumed, ControlInv,
         NEW w \in Addresses, NEW p \in Addresses, Control!PeerUp(w, p) \/ Control!PeerDown(w, p)
  PROVE  ControlInv'
<1>1. /\ UNCHANGED <<peers, shard, stage, latch, client, clients, open, asked, infos, workers>>
      /\ UNCHANGED <<keyCount, maxKey>>
  BY DEF Control!PeerUp, Control!PeerDown
<1>2. /\ linked' \in [Addresses -> SUBSET Addresses] /\ lost' \in [Addresses -> SUBSET Addresses]
      /\ \A v \in Addresses : linked[v] \cup lost[v] \subseteq linked'[v] \cup lost'[v]
  BY DEF ControlInv, ControlTypes, Control!PeerUp, Control!PeerDown
<1>3. ControlTypes'
  BY <1>1, <1>2 DEF ControlInv, ControlTypes
<1>4. (Before => HeadFacts)' /\ (Connecting => ConnectFacts)'
  BY <1>1 DEF ControlInv, Before, Connecting, HeadFacts, ConnectFacts
<1>5. ASSUME Gathering PROVE GatherFacts'
  <2>1. GatherFacts
    BY <1>5 DEF ControlInv
  <2>2. \A i \in 1..Len(clients) : WasReady(clients[i]) => WasReady(clients[i])'
    <3>1. \A i \in 1..Len(clients) : clients[i] \in Addresses
      BY ClientFacts DEF ControlInv
    <3> QED BY <1>1, <1>2, <3>1, ReadyStays
  <2>3. Gathered' = Gathered
    BY <1>1 DEF Gathered
  <2>4. \A a \in infos : a.part \in 1..Len(clients)
    <3>1. Len(clients) \in Nat /\ client \in 1..(1 + Len(clients))
      BY ClientFacts DEF ControlInv, ControlTypes
    <3> QED BY <2>1, <3>1 DEF GatherFacts
  <2>5. \A a \in infos : a.ready => WasReady(clients[a.part])'
    BY <2>1, <2>2, <2>4 DEF GatherFacts
  <2>6. \A i \in 1..Len(clients) :
          \/ workers[i] = Control!NoInfo
          \/ i < client /\ workers[i] = InfoOf(clients[i]) /\ WasReady(clients[i])'
    BY <2>1, <2>2 DEF GatherFacts
  <2> QED BY <1>1, <2>1, <2>3, <2>5, <2>6 DEF GatherFacts, InfoOf, Control!NoInfo
<1>6. (Gathering => GatherFacts)'
  BY <1>1, <1>5 DEF Gathering
<1> QED BY <1>1, <1>3, <1>4, <1>6, TotalsStay DEF ControlInv

LEMMA ControlGetInfo ==
  ASSUME ControlAssumed, ControlInv, NEW part \in 0..Len(clients), Control!GetInfo(part)
  PROVE  ControlInv'
<1> DEFINE a == [part |-> part, ready |-> Control!IsReady(Control!AddressOf(part))]
<1>1. /\ part \in asked /\ asked' = asked \ {part} /\ infos' = infos \cup {a}
      /\ UNCHANGED <<peers, shard, linked, lost, stage, latch, client, clients, open, workers>>
      /\ UNCHANGED <<keyCount, maxKey>>
  BY DEF Control!GetInfo, Control!cluster
<1>2. a.part = part /\ a.ready \in BOOLEAN /\ a.ready = Control!IsReady(Control!AddressOf(part))
  BY DEF Control!IsReady
<1> HIDE DEF a
<1>3. ControlTypes'
  BY <1>1, <1>2 DEF ControlInv, ControlTypes
<1>4. ASSUME Before PROVE HeadFacts'
  <2>1. HeadFacts
    BY <1>4 DEF ControlInv
  <2>2. stage = "getInfoHead" /\ latch = 1 /\ clients = <<>> /\ part = 0 /\ asked = {0} /\ infos = {}
    BY <1>1, <1>4, <2>1 DEF HeadFacts, Before
  <2> QED BY <1>1, <1>2, <2>1, <2>2 DEF HeadFacts
<1>5. ~Connecting
  <2>1. Connecting => asked = {}
    BY DEF ControlInv, ConnectFacts
  <2> QED BY <1>1, <2>1
<1>6. ASSUME Gathering PROVE GatherFacts'
  <2>1. GatherFacts
    BY <1>6 DEF ControlInv
  <2>2. Len(clients) \in Nat /\ client \in 1..(1 + Len(clients)) /\ part \in 1..(client - 1)
    BY <1>1, <2>1, ClientFacts DEF ControlInv, ControlTypes, GatherFacts
  <2>3. a.ready => WasReady(clients[part])
    <3>1. Control!AddressOf(part) = clients[part]
      BY <2>2 DEF Control!AddressOf
    <3>2. a.ready => Control!Range(peers[clients[part]]) \subseteq linked[clients[part]]
      BY <1>2, <3>1 DEF Control!IsReady
    <3> QED BY <3>2 DEF WasReady
  <2>4. Gathered' = Gathered
    BY <1>1 DEF Gathered
  <2>5. /\ \A i \in asked' : ~workers[i].gotInfo
        /\ asked' \subseteq 1..(client - 1)
    BY <1>1, <2>1 DEF GatherFacts
  <2>6. \A b \in infos' : /\ b.part \in 1..(client - 1) /\ b.part \notin asked'
                          /\ ~workers[b.part].gotInfo
                          /\ b.ready => WasReady(clients[b.part])
    BY <1>1, <1>2, <2>1, <2>2, <2>3 DEF GatherFacts
  <2>7. \A b, c \in infos' : b.part = c.part => b = c
    BY <1>1, <1>2, <2>1 DEF GatherFacts
  <2> QED BY <1>1, <2>1, <2>4, <2>5, <2>6, <2>7 DEF GatherFacts, InfoOf, Control!NoInfo, WasReady
<1>7. (Before => HeadFacts)' /\ (Connecting => ConnectFacts)' /\ (Gathering => GatherFacts)'
  BY <1>1, <1>4, <1>5, <1>6 DEF Before, Connecting, Gathering
<1> QED BY <1>1, <1>3, <1>7, TotalsStay DEF ControlInv

(* getPeers. *)
LEMMA ControlHead ==
  ASSUME ControlAssumed, ControlInv,
         \/ Control!HeadConnected \/ Control!GetInfoHead
         \/ \E a \in infos : Control!GetHeadInfoCb(a)
  PROVE  ControlInv'
<1>0. ControlTypes /\ (Before => HeadFacts)
  BY DEF ControlInv
<1>1. CASE Control!HeadConnected
  <2>1. /\ stage = "connectHead" /\ latch' = 0
        /\ UNCHANGED <<peers, shard, linked, lost, stage, client, clients, open, asked, infos>>
        /\ UNCHANGED <<workers, keyCount, maxKey>>
    BY <1>1 DEF Control!HeadConnected, Control!cluster
  <2>2. ControlTypes'
    BY <1>0, <2>1 DEF ControlTypes
  <2>3. HeadFacts' /\ Before' /\ ~Connecting' /\ ~Gathering' /\ stage' # "ready"
    BY <1>0, <2>1 DEF HeadFacts, Before, Connecting, Gathering
  <2> QED BY <2>2, <2>3, TotalsStay DEF ControlInv
<1>2. CASE Control!GetInfoHead
  <2>1. /\ stage = "connectHead" /\ stage' = "getInfoHead" /\ latch' = 1 /\ asked' = {0}
        /\ UNCHANGED <<peers, shard, linked, lost, client, clients, open, infos>>
        /\ UNCHANGED <<workers, keyCount, maxKey>>
    BY <1>2 DEF Control!GetInfoHead, Control!cluster
  <2>2. Len(clients) \in Nat
    BY <1>0, ClientFacts
  <2>3. ControlTypes'
    BY <1>0, <2>1, <2>2 DEF ControlTypes, Control!Phases
  <2>4. HeadFacts' /\ Before' /\ ~Connecting' /\ ~Gathering' /\ stage' # "ready"
    BY <1>0, <2>1 DEF HeadFacts, Before, Connecting, Gathering
  <2> QED BY <2>3, <2>4, TotalsStay DEF ControlInv
<1>3. ASSUME NEW a \in infos, Control!GetHeadInfoCb(a) PROVE ControlInv'
  <2>1. /\ stage = "getInfoHead" /\ infos' = infos \ {a}
        /\ clients' = peers[HeadWorker] /\ latch' = latch - 1
        /\ UNCHANGED <<peers, shard, linked, lost, stage, client, open, asked, workers>>
        /\ UNCHANGED <<keyCount, maxKey>>
    BY <1>3 DEF Control!GetHeadInfoCb, Control!cluster
  <2>2. HeadFacts /\ latch = 1 /\ infos = {a} /\ asked = {}
    BY <1>0, <2>1 DEF HeadFacts, Before
  <2>3. client = 1 /\ open = {} /\ latch' = 0 /\ infos' = {}
    BY <2>1, <2>2 DEF HeadFacts
  <2>4. ControlTypes'
    BY <1>0, <2>1, <2>2, <2>3, HeadList DEF ControlTypes
  <2>5. HeadFacts' /\ Before' /\ ~Connecting' /\ ~Gathering' /\ stage' # "ready"
    BY <2>1, <2>2, <2>3 DEF HeadFacts, Before, Connecting, Gathering
  <2> QED BY <2>4, <2>5, TotalsStay DEF ControlInv
<1> QED BY <1>1, <1>2, <1>3

(* connectAll. *)
LEMMA ControlConnectAll ==
  ASSUME ControlAssumed, ControlInv, Control!ConnectAll
  PROVE  ControlInv'
<1>1. /\ stage = "getInfoHead" /\ latch = 0 /\ stage' = "connect" /\ latch' = Len(clients)
      /\ UNCHANGED <<peers, shard, linked, lost, client, clients, open, asked, infos>>
      /\ UNCHANGED <<workers, keyCount, maxKey>>
  BY DEF Control!ConnectAll, Control!LatchOfClients, Control!cluster
<1>2. ControlTypes /\ HeadFacts
  BY <1>1 DEF ControlInv, Before
<1>3. /\ clients = peers[HeadWorker] /\ asked = {} /\ infos = {} /\ workers = <<>>
      /\ open = {} /\ client = 1
  BY <1>1, <1>2 DEF HeadFacts
<1>4. Len(clients) \in Nat /\ Cardinality({}) = 0
  BY <1>2, ClientFacts, FS_EmptySet
<1>5. ControlTypes'
  BY <1>1, <1>2, <1>4 DEF ControlTypes, Control!Phases
<1>6. ConnectFacts'
  BY <1>1, <1>3, <1>4 DEF ConnectFacts
<1>7. ~Before' /\ ~Gathering' /\ stage' # "ready"
  BY <1>1 DEF Before, Gathering
<1> QED BY <1>5, <1>6, <1>7, TotalsStay DEF ControlInv

LEMMA ControlConnect ==
  ASSUME ControlAssumed, ControlInv, Control!Connect
  PROVE  ControlInv'
<1>1. /\ stage = "connect"
      /\ \/ client <= Len(clients) /\ client' = client + 1 /\ stage' = stage
         \/ client' = 1 /\ stage' = "connecting"
      /\ UNCHANGED <<peers, shard, linked, lost, latch, clients, open, asked, infos>>
      /\ UNCHANGED <<workers, keyCount, maxKey>>
  BY DEF Control!Connect, Control!cluster
<1>2. ControlTypes /\ ConnectFacts
  BY <1>1 DEF ControlInv, Connecting
<1>3. Len(clients) \in Nat /\ client \in 1..(1 + Len(clients))
  BY <1>2, ClientFacts DEF ControlTypes
<1>4. client' \in 1..(1 + Len(clients))
  BY <1>1, <1>3
<1>5. ControlTypes'
  BY <1>1, <1>2, <1>4 DEF ControlTypes, Control!Phases
<1>6. stage' = "connect" => open \subseteq 1..(client' - 1)
  BY <1>1, <1>2, <1>3 DEF ConnectFacts
<1>7. ConnectFacts'
  BY <1>1, <1>2, <1>6 DEF ConnectFacts
<1>8. ~Before' /\ ~Gathering' /\ stage' # "ready"
  BY <1>1 DEF Before, Gathering
<1> QED BY <1>5, <1>7, <1>8, TotalsStay DEF ControlInv

LEMMA ControlOnConnection ==
  ASSUME ControlAssumed, ControlInv, NEW i \in Control!Index, Control!OnConnection(i)
  PROVE  ControlInv'
<1>1. /\ i \notin open /\ open' = open \cup {i} /\ latch' = latch - 1
      /\ stage = "connecting" \/ (stage = "connect" /\ i < client)
      /\ UNCHANGED <<peers, shard, linked, lost, stage, client, clients, asked, infos>>
      /\ UNCHANGED <<workers, keyCount, maxKey>>
  BY DEF Control!OnConnection, Control!cluster
<1>2. ControlTypes /\ ConnectFacts
  BY <1>1 DEF ControlInv, Connecting
<1>3. Len(clients) \in Nat /\ i \in 1..Len(clients) /\ client \in 1..(1 + Len(clients))
  BY <1>2, ClientFacts DEF ControlTypes
<1>4. IsFiniteSet(open) /\ Cardinality(open) \in Nat /\ latch \in Nat
      /\ latch + Cardinality(open) = Len(clients)
  BY <1>2, Gathers DEF ConnectFacts, ControlTypes
<1>5. Cardinality(open') = Cardinality(open) + 1
  BY <1>1, <1>4, FS_AddElement
<1>6. latch # 0
  <2> SUFFICES ASSUME latch = 0 PROVE FALSE
    OBVIOUS
  <2>1. Cardinality(open) = Len(clients)
    BY <1>4
  <2>2. open = 1..Len(clients)
    BY <1>2, <2>1, Gathers
  <2> QED BY <1>1, <1>3, <2>2
<1>7. latch' \in Nat /\ latch' + Cardinality(open') = Len(clients)
  BY <1>1, <1>4, <1>5, <1>6
<1>8. ControlTypes'
  BY <1>1, <1>2, <1>3, <1>7 DEF ControlTypes
<1>9. stage = "connect" => open' \subseteq 1..(client - 1)
  BY <1>1, <1>2, <1>3 DEF ConnectFacts
<1>10. ConnectFacts'
  BY <1>1, <1>2, <1>7, <1>9 DEF ConnectFacts
<1>11. ~Before' /\ ~Gathering' /\ stage' # "ready"
  BY <1>1 DEF Before, Gathering
<1> QED BY <1>8, <1>10, <1>11, TotalsStay DEF ControlInv

(* prepare, up to its wait. *)
LEMMA ControlGetInfoAll ==
  ASSUME ControlAssumed, ControlInv, Control!GetInfoAll
  PROVE  ControlInv'
<1>1. /\ stage = "connecting" /\ latch = 0 /\ stage' = "getInfo" /\ latch' = Len(clients)
      /\ workers' = [i \in Control!Index |-> Control!NoInfo]
      /\ UNCHANGED <<peers, shard, linked, lost, client, clients, open, asked, infos>>
      /\ UNCHANGED <<keyCount, maxKey>>
  BY DEF Control!GetInfoAll, Control!LatchOfClients, Control!cluster
<1>2. ControlTypes /\ ConnectFacts
  BY <1>1 DEF ControlInv, Connecting
<1>3. /\ Len(clients) \in Nat /\ Control!Index = 1..Len(clients)
      /\ clients = peers[HeadWorker] /\ asked = {} /\ infos = {} /\ client = 1
  BY <1>1, <1>2, ClientFacts DEF ConnectFacts
<1>4. open = 1..Len(clients)
  <2>1. Cardinality(open) \in Nat /\ latch + Cardinality(open) = Len(clients)
    BY <1>2, Gathers DEF ConnectFacts
  <2>2. Cardinality(open) = Len(clients)
    BY <1>1, <2>1
  <2> QED BY <1>2, <2>2, Gathers
<1>5. /\ DOMAIN workers' = 1..Len(clients)
      /\ \A i \in 1..Len(clients) : workers'[i] = Control!NoInfo /\ ~workers'[i].gotInfo
  BY <1>1, <1>3 DEF Control!NoInfo
<1>6. Gathered' = {} /\ Cardinality(Gathered') = 0
  <2>1. Gathered' = {}
    BY <1>1, <1>5 DEF Gathered
  <2> QED BY <2>1, FS_EmptySet
<1>7. ControlTypes'
  BY <1>1, <1>2, <1>3 DEF ControlTypes, Control!Phases
<1>8. GatherFacts'
  BY <1>1, <1>3, <1>4, <1>5, <1>6 DEF GatherFacts, Control!NoInfo
<1>9. ~Before' /\ ~Connecting' /\ stage' # "ready"
  BY <1>1 DEF Before, Connecting
<1> QED BY <1>7, <1>8, <1>9, TotalsStay DEF ControlInv

LEMMA ControlAskInfo ==
  ASSUME ControlAssumed, ControlInv, Control!AskInfo
  PROVE  ControlInv'
<1>1. /\ stage = "getInfo"
      /\ \/ /\ client <= Len(clients) /\ client' = client + 1 /\ stage' = stage
            /\ asked' = asked \cup {client}
         \/ stage' = "waiting" /\ UNCHANGED <<client, asked>>
      /\ UNCHANGED <<peers, shard, linked, lost, latch, clients, open, infos, workers>>
      /\ UNCHANGED <<keyCount, maxKey>>
  BY DEF Control!AskInfo, Control!cluster
<1>2. ControlTypes /\ GatherFacts
  BY <1>1 DEF ControlInv, Gathering
<1>3. Len(clients) \in Nat /\ client \in 1..(1 + Len(clients))
  BY <1>2, ClientFacts DEF ControlTypes
<1>4. client' \in 1..(1 + Len(clients)) /\ client <= client' /\ asked' \subseteq 0..Len(clients)
  <2>1. asked \subseteq 0..Len(clients)
    BY <1>2 DEF ControlTypes
  <2>2. client <= Len(clients) => client \in 0..Len(clients)
    BY <1>3
  <2>3. asked' \subseteq 0..Len(clients)
    BY <1>1, <2>1, <2>2
  <2>4. client' = client \/ (client <= Len(clients) /\ client' = client + 1)
    BY <1>1
  <2> QED BY <1>3, <2>3, <2>4
<1>5. ControlTypes'
  BY <1>1, <1>2, <1>4 DEF ControlTypes, Control!Phases
<1>6. \A i \in 1..Len(clients) : i >= client => workers[i] = Control!NoInfo /\ ~workers[i].gotInfo
  BY <1>2, <1>3 DEF GatherFacts, Control!NoInfo
<1>7. asked' \subseteq 1..(client' - 1) /\ \A i \in asked' : ~workers[i].gotInfo
  <2>1. asked \subseteq 1..(client - 1) /\ \A i \in asked : ~workers[i].gotInfo
    BY <1>2 DEF GatherFacts
  <2>2. CASE UNCHANGED <<client, asked>>
    BY <2>1, <2>2
  <2>3. CASE client <= Len(clients) /\ client' = client + 1 /\ asked' = asked \cup {client}
    <3>1. client \in 1..Len(clients) /\ client \in 1..(client' - 1)
          /\ 1..(client - 1) \subseteq 1..(client' - 1)
      BY <1>3, <2>3
    <3>2. ~workers[client].gotInfo
      BY <1>3, <1>6, <3>1
    <3> QED BY <2>1, <2>3, <3>1, <3>2
  <2> QED BY <1>1, <2>2, <2>3
<1>8. \A a \in infos : a.part \in 1..(client' - 1) /\ a.part \notin asked'
  BY <1>1, <1>2, <1>3 DEF GatherFacts
<1>9. \A i \in 1..Len(clients) :
        \/ workers[i] = Control!NoInfo
        \/ i < client' /\ workers[i] = InfoOf(clients[i]) /\ WasReady(clients[i])
  BY <1>2, <1>3, <1>4 DEF GatherFacts
<1>10. Gathered' = Gathered /\ stage' # "ready"
  BY <1>1 DEF Gathered
<1>11. GatherFacts'
  BY <1>1, <1>2, <1>7, <1>8, <1>9, <1>10 DEF GatherFacts, InfoOf, WasReady, Control!NoInfo
<1>12. ~Before' /\ ~Connecting' /\ stage' # "ready"
  BY <1>1 DEF Before, Connecting
<1> QED BY <1>5, <1>11, <1>12, TotalsStay DEF ControlInv

LEMMA ControlGetInfoCb ==
  ASSUME ControlAssumed, ControlInv, NEW a \in infos, Control!GetInfoCb(a)
  PROVE  ControlInv'
<1>1. /\ stage \in {"getInfo", "waiting"} /\ infos' = infos \ {a}
      /\ \/ stage' = "fatal" /\ UNCHANGED <<workers, latch>>
         \/ /\ a.ready /\ stage' = stage /\ latch' = latch - 1
            /\ workers' = [workers EXCEPT ![a.part] = InfoOf(clients[a.part])]
      /\ UNCHANGED <<peers, shard, linked, lost, client, clients, open, asked>>
      /\ UNCHANGED <<keyCount, maxKey>>
  BY DEF Control!GetInfoCb, Control!cluster, InfoOf
<1>2. ControlTypes /\ GatherFacts
  BY <1>1 DEF ControlInv, Gathering
<1>3. /\ Len(clients) \in Nat /\ client \in 1..(1 + Len(clients))
      /\ a.part \in 1..(client - 1) /\ a.part \in 1..Len(clients) /\ a.part \notin asked
      /\ ~workers[a.part].gotInfo /\ (a.ready => WasReady(clients[a.part]))
      /\ DOMAIN workers = 1..Len(clients)
  BY <1>2, ClientFacts DEF ControlTypes, GatherFacts
<1>4. /\ IsFiniteSet(Gathered) /\ Cardinality(Gathered) \in Nat /\ latch \in Nat
      /\ latch + Cardinality(Gathered) = Len(clients)
  BY <1>2, Gathers DEF ControlTypes, GatherFacts
<1>5. a.part \notin Gathered
  BY <1>3 DEF Gathered
<1>6. \A b \in infos' : b.part # a.part
  BY <1>1, <1>2 DEF GatherFacts
<1>7. ~Before' /\ ~Connecting' /\ stage' # "ready"
  BY <1>1 DEF Before, Connecting
<1>8. CASE stage' = "fatal" /\ UNCHANGED <<workers, latch>>
  <2>1. ControlTypes'
    BY <1>1, <1>2, <1>8 DEF ControlTypes, Control!Phases
  <2>2. Gathered' = Gathered
    BY <1>1, <1>8 DEF Gathered
  <2>3. GatherFacts'
    BY <1>1, <1>2, <1>8, <2>2 DEF GatherFacts, InfoOf, WasReady, Control!NoInfo
  <2> QED BY <1>7, <2>1, <2>3, TotalsStay DEF ControlInv
<1>9. CASE /\ a.ready /\ stage' = stage /\ latch' = latch - 1
           /\ workers' = [workers EXCEPT ![a.part] = InfoOf(clients[a.part])]
  <2>1. /\ DOMAIN workers' = 1..Len(clients)
        /\ workers'[a.part] = InfoOf(clients[a.part]) /\ workers'[a.part].gotInfo
        /\ \A i \in 1..Len(clients) : i # a.part => workers'[i] = workers[i]
    BY <1>3, <1>9 DEF InfoOf
  <2>2. Gathered' = Gathered \cup {a.part}
    BY <1>1, <1>3, <2>1 DEF Gathered
  <2>3. Cardinality(Gathered') = Cardinality(Gathered) + 1
    BY <1>4, <1>5, <2>2, FS_AddElement
  <2>4. Cardinality(Gathered) # Len(clients)
    <3> SUFFICES ASSUME Cardinality(Gathered) = Len(clients) PROVE FALSE
      OBVIOUS
    <3>1. Gathered = 1..Len(clients)
      BY <1>2, Gathers
    <3> QED BY <1>3, <1>5, <3>1
  <2>5. latch' \in Nat /\ latch' + Cardinality(Gathered') = Len(clients)
    BY <1>4, <1>9, <2>3, <2>4
  <2>6. ControlTypes'
    BY <1>1, <1>2, <1>9, <2>5 DEF ControlTypes
  <2>7. \A i \in asked : ~workers'[i].gotInfo
    <3>1. \A i \in asked : i \in 1..Len(clients) /\ i # a.part /\ ~workers[i].gotInfo
      BY <1>2, <1>3 DEF GatherFacts
    <3> QED BY <2>1, <3>1
  <2>8. \A b \in infos' : ~workers'[b.part].gotInfo
    <3>1. \A b \in infos' : b.part \in 1..Len(clients) /\ ~workers[b.part].gotInfo
      BY <1>1, <1>2, <1>3 DEF GatherFacts
    <3> QED BY <1>6, <2>1, <3>1
  <2>9. \A i \in 1..Len(clients) :
          \/ workers'[i] = Control!NoInfo
          \/ i < client /\ workers'[i] = InfoOf(clients[i]) /\ WasReady(clients[i])
    <3> SUFFICES ASSUME NEW i \in 1..Len(clients)
                 PROVE  \/ workers'[i] = Control!NoInfo
                        \/ i < client /\ workers'[i] = InfoOf(clients[i]) /\ WasReady(clients[i])
      OBVIOUS
    <3>1. CASE i = a.part
      BY <1>3, <1>9, <2>1, <3>1
    <3>2. CASE i # a.part
      BY <1>2, <2>1, <3>2 DEF GatherFacts
    <3> QED BY <3>1, <3>2
  <2>10. GatherFacts'
    <3>1. /\ clients' = clients /\ peers' = peers /\ shard' = shard /\ linked' = linked
          /\ lost' = lost /\ open' = open /\ client' = client /\ asked' = asked
          /\ infos' \subseteq infos
      BY <1>1
    <3> HIDE DEF GatherFacts
    <3>2. /\ clients = peers[HeadWorker] /\ open = 1..Len(clients)
          /\ asked \subseteq 1..(client - 1)
          /\ \A b \in infos : /\ b.part \in 1..(client - 1) /\ b.part \notin asked
                              /\ b.ready => WasReady(clients[b.part])
          /\ \A b, c \in infos : b.part = c.part => b = c
      BY <1>2 DEF GatherFacts
    <3>3. \A v : WasReady(v) => WasReady(v)'
      BY <3>1 DEF WasReady
    <3>4. \A i \in 1..Len(clients) :
            \/ workers'[i] = Control!NoInfo
            \/ i < client /\ workers'[i] = InfoOf(clients[i])' /\ WasReady(clients[i])'
      BY <2>9, <3>1 DEF InfoOf, WasReady
    <3> QED BY <1>7, <2>1, <2>5, <2>7, <2>8, <3>1, <3>2, <3>4
         DEF GatherFacts, WasReady, InfoOf, Control!NoInfo
  <2> QED BY <1>7, <2>6, <2>10, TotalsStay DEF ControlInv
<1> QED BY <1>1, <1>8, <1>9

(* The rest of prepare.  The latch is 0, so every worker has answered. *)
LEMMA ControlPrepare ==
  ASSUME ControlAssumed, ControlInv, Control!Prepare
  PROVE  ControlInv'
<1>1. /\ stage = "waiting" /\ latch = 0
      /\ keyCount' = Control!SumFunction([i \in DOMAIN workers |-> workers[i].keys])
      /\ maxKey' = Control!Max({0} \cup {workers[i].max : i \in DOMAIN workers})
      /\ stage' \in {"ready", "fatal"} /\ (stage' = "ready" => Control!SamePeers)
      /\ UNCHANGED <<peers, shard, linked, lost, latch, client, clients, open, asked, infos>>
      /\ UNCHANGED workers
  BY DEF Control!Prepare, Control!cluster
<1>2. ControlTypes /\ GatherFacts
  BY <1>1 DEF ControlInv, Gathering
<1>3. /\ Len(clients) \in Nat /\ Control!Index = 1..Len(clients)
      /\ DOMAIN workers = 1..Len(clients) /\ clients = peers[HeadWorker]
      /\ \A i \in 1..Len(clients) : clients[i] \in Addresses
  BY <1>2, ClientFacts DEF GatherFacts
<1>4. Gathered = 1..Len(clients)
  <2>1. Cardinality(Gathered) \in Nat /\ latch + Cardinality(Gathered) = Len(clients)
    BY <1>2, Gathers DEF GatherFacts
  <2>2. Cardinality(Gathered) = Len(clients)
    BY <1>1, <2>1
  <2> QED BY <1>2, <2>2, Gathers
<1>5. \A i \in 1..Len(clients) : workers[i].gotInfo /\ workers[i] = InfoOf(clients[i])
  <2>1. ASSUME NEW i \in 1..Len(clients) PROVE workers[i].gotInfo
    BY <1>4 DEF Gathered
  <2>2. ASSUME NEW i \in 1..Len(clients), workers[i] = Control!NoInfo PROVE ~workers[i].gotInfo
    BY <2>2 DEF Control!NoInfo
  <2> QED BY <1>2, <2>1, <2>2 DEF GatherFacts
<1>6. \A i \in 1..Len(clients) : /\ workers[i].keys = shard[clients[i]].keys
                                 /\ workers[i].max = shard[clients[i]].max
                                 /\ workers[i].peers = peers[clients[i]]
  <2>1. \A w : /\ InfoOf(w).keys = shard[w].keys /\ InfoOf(w).max = shard[w].max
                /\ InfoOf(w).peers = peers[w]
    BY DEF InfoOf
  <2> QED BY <1>5, <2>1
<1>7. ControlTypes'
  BY <1>1, <1>2 DEF ControlTypes, Control!Phases
<1>8. GatherFacts'
  <2>1. Gathered' = Gathered
    BY <1>1 DEF Gathered
  <2> QED BY <1>1, <1>2, <1>5, <2>1 DEF GatherFacts, InfoOf, WasReady, Control!NoInfo
<1>9. Control!TotalsComplete'
  <2>1. [i \in DOMAIN workers |-> workers[i].keys]
          = [i \in Control!Index |-> shard[clients[i]].keys]
    BY <1>3, <1>6
  <2>2. keyCount' = Control!SumFunction([i \in Control!Index |-> shard[clients[i]].keys])
    BY <1>1, <2>1
  <2> DEFINE m == [i \in 1..Len(clients) |-> workers[i].max]
  <2>3. \A i \in 1..Len(clients) : m[i] \in Nat /\ m[i] = shard[clients[i]].max
    BY <1>2, <1>3, <1>6 DEF ControlTypes, ControlAssumed, Control!CountsAssumption
  <2>4. {workers[i].max : i \in DOMAIN workers} = {m[i] : i \in 1..Len(clients)}
    BY <1>3
  <2> HIDE DEF m
  <2>5. \A i \in 1..Len(clients) : m[i] <= Control!Max({0} \cup {m[j] : j \in 1..Len(clients)})
    <3>1. Len(clients) \in Nat /\ \A i \in 1..Len(clients) : m[i] \in Nat
      BY <1>3, <2>3
    <3> QED BY <3>1, GreatestIsBound
  <2>6. \A i \in Control!Index : shard[clients[i]].max <= maxKey'
    BY <1>1, <1>3, <2>3, <2>4, <2>5
  <2> QED BY <1>1, <2>2, <2>6 DEF Control!TotalsComplete, Control!Index
<1>10. Control!OnePartitioning'
  BY <1>1, <1>3, <1>6 DEF Control!OnePartitioning, Control!SamePeers, Control!Index
<1>11. ~Before' /\ ~Connecting'
  BY <1>1 DEF Before, Connecting
<1> QED BY <1>7, <1>8, <1>9, <1>10, <1>11 DEF ControlInv

LEMMA ControlInvariance == ControlAssumed /\ Control!Spec => []ControlInv
<1> SUFFICES ASSUME ControlAssumed PROVE Control!Spec => []ControlInv
  OBVIOUS
<1>1. Control!Init => ControlInv
  BY ControlStart
<1>2. ControlInv /\ [Control!Next]_Control!vars => ControlInv'
  <2> SUFFICES ASSUME ControlInv, [Control!Next]_Control!vars PROVE ControlInv'
    OBVIOUS
  <2>1. CASE Control!Next
    BY <2>1, ControlPeers, ControlGetInfo, ControlHead, ControlConnectAll, ControlConnect,
       ControlOnConnection, ControlGetInfoAll, ControlAskInfo, ControlGetInfoCb, ControlPrepare
       DEF Control!Next
  <2>2. CASE UNCHANGED Control!vars
    <3>1. /\ UNCHANGED <<peers, shard, linked, lost, stage, latch, client, clients, open, asked>>
          /\ UNCHANGED <<infos, workers, keyCount, maxKey>>
      BY <2>2 DEF Control!vars, Control!cluster
    <3>2. Control!TotalsComplete' /\ Control!OnePartitioning'
      BY <3>1, TotalsStay DEF ControlInv
    <3>3. ControlTypes' /\ (Before => HeadFacts)' /\ (Connecting => ConnectFacts)'
      BY <3>1 DEF ControlInv, ControlTypes, Before, Connecting, HeadFacts, ConnectFacts
    <3>4. (Gathering => GatherFacts)'
      BY <3>1 DEF ControlInv, Gathering, GatherFacts, Gathered, InfoOf, WasReady
    <3> QED BY <3>2, <3>3, <3>4 DEF ControlInv
  <2> QED BY <2>1, <2>2
<1> QED BY <1>1, <1>2, PTL DEF Control!Spec

(* The controller asks only clients that are connected, and when it is     *)
(* ready its totals are those of all workers, whatever the order of the    *)
(* callbacks on the loop thread, all workers have the head's list, and     *)
(* each has had its connections to the others: the two latches of          *)
(* control.cc's connectAll and prepare hold the main thread long enough.   *)
THEOREM ControllerIsPrepared == ControlAssumed /\ Control!Spec => []PreparedRight
<1>1. ASSUME ControlAssumed, ControlInv PROVE PreparedRight
  <2>0. ControlTypes /\ Control!TotalsComplete /\ Control!OnePartitioning
    BY <1>1 DEF ControlInv
  <2>1. Len(clients) \in Nat /\ Control!Index = 1..Len(clients)
    BY <1>1, <2>0, ClientFacts
  <2>2. Before \/ Connecting \/ Gathering
    BY <2>0 DEF ControlTypes, Control!Phases, Before, Connecting, Gathering
  <2>3. latch \in 0..(1 + Len(clients)) /\ DOMAIN workers \subseteq 1..Len(clients)
    <3>1. CASE Before
      BY <1>1, <2>0, <2>1, <3>1 DEF ControlInv, HeadFacts, Before, ControlTypes
    <3>2. CASE Connecting
      BY <1>1, <2>0, <2>1, <3>2, Gathers DEF ControlInv, ConnectFacts, ControlTypes
    <3>3. CASE Gathering
      BY <1>1, <2>0, <2>1, <3>3, Gathers DEF ControlInv, GatherFacts, ControlTypes
    <3> QED BY <2>2, <3>1, <3>2, <3>3
  <2>4. Control!TypeOK
    BY <2>0, <2>1, <2>3 DEF ControlTypes, Control!TypeOK
  <2>5. Control!AskedConnected
    BY <1>1, <2>0, <2>1, <2>2 DEF ControlInv, ControlTypes, HeadFacts, ConnectFacts, GatherFacts,
       Before, Control!AskedConnected
  <2>6. Control!ReadyWasConnected
    <3> SUFFICES ASSUME stage = "ready", NEW i \in Control!Index
                 PROVE  Control!Range(clients) \subseteq linked[clients[i]] \cup lost[clients[i]]
      BY DEF Control!ReadyWasConnected
    <3>1. GatherFacts
      BY <1>1 DEF ControlInv, Gathering
    <3>2. i \in 1..Len(clients) /\ workers[i].gotInfo /\ clients = peers[HeadWorker]
      BY <2>1, <3>1 DEF GatherFacts
    <3>3. WasReady(clients[i])
      BY <3>1, <3>2 DEF GatherFacts, Control!NoInfo
    <3>4. peers[clients[i]] = clients
      BY <2>0, <3>2 DEF Control!OnePartitioning
    <3> QED BY <3>3, <3>4 DEF WasReady
  <2> QED BY <2>0, <2>4, <2>5, <2>6 DEF PreparedRight, Control!PreparedRight
<1> SUFFICES ASSUME ControlAssumed PROVE Control!Spec => []PreparedRight
  OBVIOUS
<1>2. ControlInv => PreparedRight
  BY <1>1
<1> QED BY <1>2, ControlInvariance, PTL
=============================================================================
