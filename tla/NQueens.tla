------------------------------ MODULE NQueens ------------------------------
(***************************************************************************)
(* examples/nqueens: a client splits the board by the column of the queen  *)
(* in the first row (the Go client on large boards also by the second),    *)
(* asks for each part with Solve and adds the counts up.  The server gives *)
(* the parts to a pool of threads, which answer in any order.              *)
(*                                                                         *)
(* A bit mask is the set of its one bits.  A part is <<first_row,          *)
(* second_row>>, with NoRow (-1) when second_row is not set.               *)
(***************************************************************************)
EXTENDS Integers, FiniteSetsExt

CONSTANTS
  Boards,      \* numbers of queens to solve for
  Threads,     \* threads of the server's pool
  Thresholds,  \* values of threshold, 14 in the code
  MaxSpread    \* bound: the Go client's parts on their way are neighbours

VARIABLES
  client,      \* "cpp" or "go"
  n,           \* number of queens
  threshold,   \* the Go client splits larger boards by two rows
  part,        \* part[s]: where part s is
  link,        \* the connection
  results,     \* results[i]: what the client has added up for column i
  total,       \* what it printed or will print
  outcome      \* "running", "printed" or "quit"

vars == <<client, n, threshold, part, link, results, total, outcome>>

NoRow == -1
Half == (n + 1) \div 2
Split == client = "go" /\ n > threshold
Parts == (0..(Half - 1)) \X (IF Split THEN 0..(n - 1) ELSE {NoRow})
At(stage) == {s \in Parts : part[s] = stage}
Failed == At("failed")

-----------------------------------------------------------------------------
(* The search. *)

Right(s) == {i - 1 : i \in s \ {0}}
Left(s) == {i + 1 : i \in s}

(* The masks of the next row, with a queen in column i of this one. *)
Place(m, i) == [columns |-> m.columns \cup {i},
                diagonal |-> Right(m.diagonal \cup {i}),
                antidiagonal |-> Left(m.antidiagonal \cup {i})]
Avail(m) == (0..(n - 1)) \ (m.columns \cup m.diagonal \cup m.antidiagonal)
Empty == [columns |-> {}, diagonal |-> {}, antidiagonal |-> {}]

RECURSIVE Search(_, _)
(* BackTracking::search: how much it adds to count. *)
Search(m, row) ==
  IF row = n - 1 THEN Cardinality(Avail(m))
  ELSE MapThenSumSet(LAMBDA i : Search(Place(m, i), row + 1), Avail(m))

BackTrackingSub(first, second) ==
  LET m1 == Place(Empty, first)
  IN  IF second = NoRow THEN Search(m1, 1)
      ELSE IF second \in Avail(m1) THEN Search(Place(m1, second), 2) ELSE 0

-----------------------------------------------------------------------------
Init ==
  /\ client \in {"cpp", "go"}
  /\ n \in Boards
  /\ threshold \in Thresholds
  /\ part = [s \in Parts |-> "new"]
  /\ link = "up"
  /\ results = [i \in 0..(Half - 1) |-> 0]
  /\ total = 0
  /\ outcome = "running"

(* The number of a part, in the order in which mapper starts goroutines. *)
Number(s) == IF Split THEN s[1] * n + s[2] ELSE s[1]

(* run sends all parts from one callback; the goroutines of mapper do it   *)
(* on their own, but for the bound.                                        *)
SendParts ==
  /\ outcome = "running"
  /\ link = "up"
  /\ \/ /\ client = "cpp"
        /\ At("new") = Parts
        /\ part' = [s \in Parts |-> "sent"]
     \/ /\ client = "go"
        /\ \E s \in At("new") :
             /\ \A t \in Parts \ At("got") : Number(s) - Number(t) < MaxSpread
             /\ part' = [part EXCEPT ![s] = "sent"]
  /\ UNCHANGED <<client, n, threshold, link, results, total, outcome>>

(* Solve: pool_.run, which is a call when there are no threads. *)
Solve(s) ==
  /\ link = "up"
  /\ part[s] = "sent"
  /\ part' = [part EXCEPT ![s] = IF Threads = 0 THEN "answered" ELSE "queued"]
  /\ UNCHANGED <<client, n, threshold, link, results, total, outcome>>

(* A thread of the pool takes a task and runs doSolve ... *)
RunTask(s) ==
  /\ link = "up"
  /\ part[s] = "queued"
  /\ Cardinality(At("running")) < Threads
  /\ part' = [part EXCEPT ![s] = "running"]
  /\ UNCHANGED <<client, n, threshold, link, results, total, outcome>>

(* ... which ends with done. *)
DoSolve(s) ==
  /\ link = "up"
  /\ part[s] = "running"
  /\ part' = [part EXCEPT ![s] = "answered"]
  /\ UNCHANGED <<client, n, threshold, link, results, total, outcome>>

(* Mutant: the middle column of an odd board counts twice. *)
WeightTwo(i) == 2

(* A board and its mirror image are two solutions, unless the first queen  *)
(* stands in the middle.                                                   *)
Weight(i) == IF n % 2 = 1 /\ i = n \div 2 THEN 1 ELSE 2

(* Mutant: a reply for every column is expected. *)
AllColumns == n

(* if (g_got == (N+1)/2) *)
Expected == Half

(* The C++ client's callback: g_total, g_got, and the total when all came. *)
Replied(s) ==
  /\ client = "cpp"
  /\ link = "up"
  /\ part[s] = "answered"
  /\ part' = [part EXCEPT ![s] = "got"]
  /\ total' = total + Weight(s[1]) * BackTrackingSub(s[1], s[2])
  /\ outcome' = IF Cardinality(At("got")) + 1 = Expected THEN "printed" ELSE outcome
  /\ UNCHANGED <<client, n, threshold, link, results>>

(* The Go client's solve returns, and mapper receives the Shard. *)
Shard(s) ==
  /\ client = "go"
  /\ link = "up"
  /\ part[s] = "answered"
  /\ part' = [part EXCEPT ![s] = "got"]
  /\ results' = [results EXCEPT ![s[1]] = @ + BackTrackingSub(s[1], s[2])]
  /\ UNCHANGED <<client, n, threshold, link, total, outcome>>

(* net/rpc ends all pending calls with an error, which counts as -1. *)
ShardsFail ==
  /\ client = "go"
  /\ link = "down"
  /\ LET lost == Parts \ At("got") IN
       /\ lost # Failed
       /\ part' = [s \in Parts |-> IF s \in lost THEN "failed" ELSE part[s]]
       /\ results' = [i \in DOMAIN results |->
                        results[i] - Cardinality({s \in lost : s[1] = i})]
  /\ UNCHANGED <<client, n, threshold, link, total, outcome>>

(* mapper has all shards: reducer. *)
Reduce ==
  /\ client = "go"
  /\ outcome = "running"
  /\ Parts = At("got") \cup Failed
  /\ total' = MapThenSumSet(LAMBDA i : Weight(i) * results[i], 0..(Half - 1))
  /\ outcome' = "printed"
  /\ UNCHANGED <<client, n, threshold, part, link, results>>

(* The connection is lost.  The C++ client quits, whatever it waits for. *)
LinkDown ==
  /\ outcome = "running"
  /\ link = "up"
  /\ link' = "down"
  /\ outcome' = IF client = "cpp" THEN "quit" ELSE outcome
  /\ UNCHANGED <<client, n, threshold, part, results, total>>

Server == \E s \in Parts : Solve(s) \/ RunTask(s) \/ DoSolve(s)
Client == SendParts \/ ShardsFail \/ Reduce \/ \E s \in Parts : Replied(s) \/ Shard(s)

Next == Server \/ Client \/ LinkDown

Fairness == WF_vars(Server) /\ WF_vars(Client)

-----------------------------------------------------------------------------
(* Properties. *)

(* All placements of n queens, row by row, none of which attacks another. *)
Solutions == {q \in [0..(n - 1) -> 0..(n - 1)] :
  \A i, j \in 0..(n - 1) :
    i < j => q[i] # q[j] /\ q[i] - q[j] # i - j /\ q[i] - q[j] # j - i}

(* The total printed is the number of solutions, however the threads of    *)
(* the pool and the callbacks interleave and however the board was split,  *)
(* unless a part failed (its -1 is added) or the board has one square      *)
(* (search(1) never reaches row N - 1).                                    *)
TotalRight ==
  outcome = "printed" /\ Failed = {} /\ n > 1 => total = Cardinality(Solutions)

(* The client ends with a total, or because its connection was lost. *)
SolveEnds == <>(outcome # "running")
=============================================================================
