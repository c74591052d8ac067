------------------------- MODULE EchoBenchInstance --------------------------
(* EchoBench as its run and its proof use it, which stand beside those of  *)
(* other programs and of RpcChannel: some variables have other names here. *)
EXTENDS Naturals

CONSTANTS NumClients, NumThreads, NPipeline, KRequests, MaxCalls

VARIABLES
  prog,
  stage, nth, sends,   \* EchoBench's pc, i and k
  latch, allFinished,
  connection,          \* its conn
  flight,
  replies,             \* its count
  ended, stopping, counts, lastTotal

Bench == INSTANCE EchoBench
           WITH pc <- stage, i <- nth, k <- sends, conn <- connection, count <- replies

(* The programs read them from their arguments; kRequests is 50000. *)
BenchAssumed ==
  /\ NumClients \in Nat \ {0} /\ NumThreads \in Nat \ {0}
  /\ NPipeline \in Nat \ {0} /\ KRequests \in Nat \ {0}

(* rpcbench2: the figures stand for replies that came, the loops of calls  *)
(* are closed and the meters are right.                                    *)
BenchRight == Bench!BenchRight
=============================================================================
