------------------------------ MODULE Wordfreq ------------------------------
(***************************************************************************)
(* examples/wordfreq: the workers' exchange of keys.  ShuffleKey starts a  *)
(* thread that sorts the worker's keys into one ShardKeyRequest per        *)
(* partition, sends a request when it is full and takes an empty one from  *)
(* a pool, freeShards_; the loop thread gives a request back to the pool   *)
(* when its ShardKey has been answered.                                    *)
(*                                                                         *)
(* The thread of a worker, its loop thread and its peers interleave at     *)
(* every take, send and answer.  Workers are 1..N, worker p has partition  *)
(* p (the controller insists on equal lists of peers), and connections     *)
(* stay up.  A key is <<w, i>>, the i-th of worker w's shard; a request    *)
(* object of the pool is only counted.                                     *)
(***************************************************************************)
EXTENDS Naturals, Sequences, FiniteSets

CONSTANTS
  N,             \* number of workers
  KBatch,        \* kBatch, keys of a full request
  KConcurrency,  \* kConcurrency, requests per peer
  MaxKey,        \* bound: keys are 1..MaxKey
  MaxShard,      \* bound: keys of one worker
  MaxKeys,       \* bound: keys of all workers
  MaxCalls       \* bound: calls of ShuffleKey per worker

ASSUME NAssumption == N \in Nat \ {0}
ASSUME BatchAssumption == KBatch \in Nat \ {0}
ASSUME ConcurrencyAssumption == KConcurrency \in Nat \ {0}
ASSUME BoundsAssumption ==
  MaxKey \in Nat /\ MaxShard \in Nat /\ MaxKeys \in Nat /\ MaxCalls \in Nat

Workers == 1..N
ConcurrentRequests == N * KConcurrency

VARIABLES
  keys,      \* keys[w]: keys_
  pivots,    \* pivots of the controller's request
  calls,     \* calls[w]: ShuffleKey calls so far
  phase,     \* phase[w]: where the shuffle thread of w is
  next,      \* next[w]: index of the next key or partition, requests deleted
  batch,     \* batch[w][p]: keys in shardRequests[p]
  free,      \* free[w]: size of freeShards_
  flight,    \* flight[w][p]: ShardKey requests on the way from w to p
  answers,   \* answers[w]: ShardKey responses on the way to w
  partition, \* partition[p]: partition_, 0 for the -1 at the start
  got,       \* got[p]: partitionKeys_
  dones      \* dones[w]: results of ShuffleKey of w, in order

vars == <<keys, pivots, calls, phase, next, batch, free, flight, answers, partition, got, dones>>

Keys == Workers \X (1..MaxShard)
Shards == UNION {[1..n -> 1..MaxKey] : n \in 0..MaxShard}

(* isSorted: no neighbour is greater or equal. *)
IsSorted(s) == \A i \in 1..(Len(s) - 1) : s[i] < s[i + 1]

(* readKeys: maxKey_ is 0 without keys. *)
MaxKeyOf(w) == CHOOSE k \in 0..MaxKey :
  /\ \A i \in 1..Len(keys[w]) : keys[w][i] <= k
  /\ k = 0 \/ \E i \in 1..Len(keys[w]) : keys[w][i] = k

(* The test at the start of ShuffleKey. *)
ValidPivots(w, s) ==
  /\ Len(s) = N
  /\ s[N] >= MaxKeyOf(w)
  /\ IsSorted(s)

(* lower_bound: the first pivot that is not less than the key. *)
Partition(k) == CHOOSE p \in 1..Len(pivots) :
                  k <= pivots[p] /\ \A q \in 1..(p - 1) : pivots[q] < k
PartitionOf(e) == Partition(keys[e[1]][e[2]])

(* GetHistogram: how many keys of w each pivot is the lower bound of. *)
Histogram(w, p) == Cardinality({i \in 1..Len(keys[w]) : PartitionOf(<<w, i>>) = p})

TypeOK ==
  /\ keys \in [Workers -> Shards]
  /\ calls \in [Workers -> 0..MaxCalls]
  /\ phase \in [Workers -> {"idle", "keys", "take", "rest", "drain", "over"}]
  /\ next \in [Workers -> Nat]
  /\ batch \in [Workers -> [Workers -> SUBSET Keys]]
  /\ free \in [Workers -> 0..ConcurrentRequests]
  /\ \A w, p \in Workers : \A i \in 1..Len(flight[w][p]) : flight[w][p][i] \subseteq Keys
  /\ answers \in [Workers -> 0..ConcurrentRequests]
  /\ partition \in [Workers -> 0..N]
  /\ got \in [Workers -> SUBSET Keys]
  /\ \A w \in Workers : \A i \in 1..Len(dones[w]) :
       dones[w][i] \in {"elapsed", "default", "error"}

(* Impl::Impl has read the shard.  The pivots are the controller's, sorted *)
(* and large enough for all workers (its findPivots is still to be done).  *)
Init ==
  /\ keys \in [Workers -> Shards]
  /\ Cardinality({e \in Keys : e[2] <= Len(keys[e[1]])}) <= MaxKeys
  /\ pivots \in [1..N -> 1..MaxKey]
  /\ \A w \in Workers : ValidPivots(w, pivots)
  /\ calls = [w \in Workers |-> 0]
  /\ phase = [w \in Workers |-> "idle"]
  /\ next = [w \in Workers |-> 1]
  /\ batch = [w \in Workers |-> [p \in Workers |-> {}]]
  /\ free = [w \in Workers |-> 0]
  /\ flight = [w \in Workers |-> [p \in Workers |-> <<>>]]
  /\ answers = [w \in Workers |-> 0]
  /\ partition = [w \in Workers |-> 0]
  /\ got = [w \in Workers |-> {}]
  /\ dones = [w \in Workers |-> <<>>]

-----------------------------------------------------------------------------
(* ShuffleKey, on the loop thread. *)

Done(w, results) == dones' = [dones EXCEPT ![w] = @ \o results]

(* The request is valid and the worker is not shuffling (it never stops to *)
(* be): the thread starts with one request per peer, the rest in the pool. *)
ShuffleKey(w) ==
  /\ calls[w] < MaxCalls
  /\ phase[w] = "idle"
  /\ calls' = [calls EXCEPT ![w] = @ + 1]
  /\ phase' = [phase EXCEPT ![w] = "keys"]
  /\ free' = [free EXCEPT ![w] = ConcurrentRequests - N]
  /\ UNCHANGED <<keys, pivots, next, batch, flight, answers, partition, got, dones>>

(* Any request once the worker is shuffling, and at any time one whose     *)
(* pivots fail the test, such as too few of them: an error.                *)
ShuffleKeyError(w) ==
  /\ calls[w] < MaxCalls
  /\ calls' = [calls EXCEPT ![w] = @ + 1]
  /\ Done(w, <<"error">>)
  /\ UNCHANGED <<keys, pivots, phase, next, batch, free, flight, answers, partition, got>>

-----------------------------------------------------------------------------
(* shuffle, on its own thread. *)

(* shardKey: the request goes to peer p. *)
ShardKeyCall(w, p, b) == flight' = [flight EXCEPT ![w][p] = Append(@, b)]

(* Mutant: the key that fills the request stays out of it. *)
WithoutKey(b, e) == IF Cardinality(b) + 1 >= KBatch THEN b ELSE b \cup {e}

(* add_keys *)
WithKey(b, e) == b \cup {e}

(* One key: into the request of its partition; a full one is sent and the  *)
(* thread goes on to take another.                                         *)
Shard(w) ==
  /\ phase[w] = "keys"
  /\ next[w] <= Len(keys[w])
  /\ next' = [next EXCEPT ![w] = @ + 1]
  /\ LET e == <<w, next[w]>>
         p == PartitionOf(e) IN
       IF Cardinality(batch[w][p]) + 1 >= KBatch
         THEN /\ ShardKeyCall(w, p, WithKey(batch[w][p], e))
              /\ batch' = [batch EXCEPT ![w][p] = {}]
              /\ phase' = [phase EXCEPT ![w] = "take"]
         ELSE /\ batch' = [batch EXCEPT ![w][p] = WithKey(@, e)]
              /\ UNCHANGED <<phase, flight>>
  /\ UNCHANGED <<keys, pivots, calls, free, answers, partition, got, dones>>

(* freeShards_.take() and Clear(). *)
Take(w) ==
  /\ phase[w] = "take"
  /\ free[w] > 0
  /\ free' = [free EXCEPT ![w] = @ - 1]
  /\ phase' = [phase EXCEPT ![w] = "keys"]
  /\ UNCHANGED <<keys, pivots, calls, next, batch, flight, answers, partition, got, dones>>

(* After the last key. *)
KeysOver(w) ==
  /\ phase[w] = "keys"
  /\ next[w] > Len(keys[w])
  /\ phase' = [phase EXCEPT ![w] = "rest"]
  /\ next' = [next EXCEPT ![w] = 1]
  /\ UNCHANGED <<keys, pivots, calls, batch, free, flight, answers, partition, got, dones>>

(* What is left in the request of a partition is sent; an empty request    *)
(* is not, and it is not put back either.                                  *)
SendRest(w) ==
  /\ phase[w] = "rest"
  /\ next[w] <= N
  /\ LET p == next[w] IN
       IF batch[w][p] # {}
         THEN /\ ShardKeyCall(w, p, batch[w][p])
              /\ batch' = [batch EXCEPT ![w][p] = {}]
         ELSE UNCHANGED <<flight, batch>>
  /\ next' = [next EXCEPT ![w] = @ + 1]
  /\ phase' = [phase EXCEPT ![w] = IF next[w] = N THEN "drain" ELSE "rest"]
  /\ UNCHANGED <<keys, pivots, calls, free, answers, partition, got, dones>>

(* Mutants: the thread waits for one request less, or one more. *)
DrainedEarly(w) == next[w] - N >= ConcurrentRequests
DrainedLate(w) == next[w] - (N + 1) > ConcurrentRequests

(* The loop has taken all requests. *)
Drained(w) == next[w] - (N + 1) >= ConcurrentRequests

(* concurrentRequests_ requests are taken from the pool and deleted; then  *)
(* done runs, twice.                                                       *)
Drain(w) ==
  /\ phase[w] = "drain"
  /\ IF ~Drained(w)
       THEN /\ free[w] > 0
            /\ free' = [free EXCEPT ![w] = @ - 1]
            /\ next' = [next EXCEPT ![w] = @ + 1]
            /\ UNCHANGED <<phase, dones>>
       ELSE /\ phase' = [phase EXCEPT ![w] = "over"]
            /\ Done(w, <<"elapsed", "default">>)
            /\ UNCHANGED <<free, next>>
  /\ UNCHANGED <<keys, pivots, calls, batch, flight, answers, partition, got>>

-----------------------------------------------------------------------------
(* Loop threads. *)

(* ShardKey at p: the keys are added, done answers.  The partition is only *)
(* compared for the log.                                                   *)
ShardKey(w, p) ==
  /\ flight[w][p] # <<>>
  /\ partition' = [partition EXCEPT ![p] = IF @ = 0 THEN p ELSE @]
  /\ got' = [got EXCEPT ![p] = @ \cup Head(flight[w][p])]
  /\ flight' = [flight EXCEPT ![w][p] = Tail(@)]
  /\ answers' = [answers EXCEPT ![w] = @ + 1]
  /\ UNCHANGED <<keys, pivots, calls, phase, next, batch, free, dones>>

(* doneShardKey: the request goes back to the pool. *)
DoneShardKey(w) ==
  /\ answers[w] > 0
  /\ answers' = [answers EXCEPT ![w] = @ - 1]
  /\ free' = [free EXCEPT ![w] = @ + 1]
  /\ UNCHANGED <<keys, pivots, calls, phase, next, batch, flight, partition, got, dones>>

(* SortKey's response: it sorts partitionKeys_ and reports the ends. *)
SortKeyResponse(p) ==
  LET values == {keys[e[1]][e[2]] : e \in got[p]} IN
  [partition |-> partition[p], count |-> Cardinality(got[p]),
   ends |-> {k \in values : (\A v \in values : k <= v) \/ (\A v \in values : v <= k)}]

-----------------------------------------------------------------------------
Next ==
  \E w \in Workers :
    \/ ShuffleKey(w) \/ ShuffleKeyError(w)
    \/ Shard(w) \/ Take(w) \/ KeysOver(w) \/ SendRest(w) \/ Drain(w)
    \/ \E p \in Workers : ShardKey(w, p)
    \/ DoneShardKey(w)

Spec == Init /\ [][Next]_vars

(* The shuffle threads run, messages arrive and loops handle them.         *)
Fairness ==
  \A w \in Workers :
    /\ WF_vars(Shard(w) \/ Take(w) \/ KeysOver(w) \/ SendRest(w) \/ Drain(w))
    /\ \A p \in Workers : WF_vars(ShardKey(w, p))
    /\ WF_vars(DoneShardKey(w))

FairSpec == Spec /\ Fairness

-----------------------------------------------------------------------------
(* Properties. *)

(* Requests on the way, as pairs of a peer and a place in its queue. *)
OnTheWay(w) == {x \in Workers \X (1..ConcurrentRequests) : x[2] <= Len(flight[w][x[1]])}

(* Requests on the way, or whose answer is. *)
InFlight(w) == answers[w] + Cardinality(OnTheWay(w))

(* The pool of requests is neither drained nor refilled by the races of    *)
(* the two threads: while keys are sorted, what is neither filled nor on   *)
(* its way is free.                                                        *)
PoolConserved ==
  \A w \in Workers :
    /\ phase[w] = "keys" => free[w] + InFlight(w) = ConcurrentRequests - N
    /\ phase[w] = "take" => free[w] + InFlight(w) = ConcurrentRequests - N + 1
    /\ phase[w] \in {"rest", "drain"} => free[w] + InFlight(w) <= ConcurrentRequests

(* Where a key of a worker that shuffles may be: not reached by the       *)
(* thread, in a request being filled, on its way, or with a peer.          *)
ShardPlaces(e) ==
  {<<"shard">> : x \in {y \in {e} : phase[e[1]] \in {"keys", "take"} /\ next[e[1]] <= e[2]}}
BatchPlaces(e) == {<<"batch", p>> : p \in {q \in Workers : e \in batch[e[1]][q]}}
FlightPlaces(e) ==
  {<<"flight", x[1], x[2]>> : x \in {y \in OnTheWay(e[1]) : e \in flight[e[1]][y[1]][y[2]]}}
GotPlaces(e) == {<<"got", p>> : p \in {q \in Workers : e \in got[q]}}
Places(e) == ShardPlaces(e) \cup BatchPlaces(e) \cup FlightPlaces(e) \cup GotPlaces(e)

(* No key is lost or sent twice, in batches that fill up in the middle or  *)
(* are left over at the end.                                               *)
EveryKeyOnce ==
  \A w \in Workers : phase[w] # "idle" =>
    \A i \in 1..Len(keys[w]) : Cardinality(Places(<<w, i>>)) = 1

(* When a worker reports that it has shuffled, its peers hold as many of   *)
(* its keys as GetHistogram counted for them under the same pivots: none   *)
(* is still on its way.  And when all have, SortKey reports all keys of    *)
(* the partition and no other.                                             *)
DeliveredAsCounted ==
  /\ \A w \in Workers : phase[w] = "over" =>
       \A p \in Workers : Cardinality({e \in got[p] : e[1] = w}) = Histogram(w, p)
  /\ (\A w \in Workers : phase[w] = "over") =>
       \A p \in Workers : LET response == SortKeyResponse(p) IN
         /\ response.count = Cardinality({e \in Keys : e[2] <= Len(keys[e[1]])
                                                      /\ PartitionOf(e) = p})
         /\ response.count > 0 => response.partition = p
         /\ \A k \in response.ends : Partition(k) = p

(* A shuffle is over in the end if no partition gets a multiple of kBatch  *)
(* keys: the wait for the pool does not deadlock with the peers' waits.    *)
UnevenShufflesEnd ==
  \A w \in Workers :
    (phase[w] # "idle" /\ \A p \in Workers : Histogram(w, p) % KBatch # 0)
      ~> (phase[w] = "over")

(* Neither requests nor keys are lost or doubled between the shuffle       *)
(* thread, the callbacks and the peers.                                    *)
KeysConserved == TypeOK /\ PoolConserved /\ EveryKeyOnce
=============================================================================
