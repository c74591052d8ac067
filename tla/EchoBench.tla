----------------------------- MODULE EchoBench -----------------------------
(***************************************************************************)
(* examples/rpcbench2: client.cc opens all connections, waits at a latch,  *)
(* starts nPipeline closed loops of calls on each and waits at another     *)
(* latch until every client has had kRequests replies; bench.cc starts its *)
(* clients one by one, stops them in the end, and meters them per thread.  *)
(*                                                                         *)
(* The main thread and the loop threads interleave.  A request on its way  *)
(* to the server and its reply on the way back are one call in flight.     *)
(***************************************************************************)
EXTENDS Integers, Sequences, SequencesExt

CONSTANTS
  NumClients,   \* nClients
  NumThreads,   \* nThreads
  NPipeline,    \* nPipeline
  KRequests,    \* kRequests, 50000
  MaxCalls      \* bound: replies a client of bench.cc gets before its stop

VARIABLES
  prog,         \* "client" or "bench"
  pc,           \* what the main thread does
  i, k,         \* its loop variables
  latch,        \* allConnected, or the latch of the client just created
  allFinished,
  conn,         \* conn[c]: "none", "up" or "lost"
  flight,       \* flight[c]: calls in flight
  count,        \* count[c]: count_
  ended,        \* ended[c]: finished_, or stop_
  stopping,     \* clients whose stopInLoop is queued in their loop
  counts,       \* counts[t]: counts_ of the meter of thread t
  lastTotal     \* lastTotal[t]: lastTotal_

main == <<pc, i, k, stopping>>
calls == <<flight, count, ended>>
meter == <<counts, lastTotal>>
vars == <<prog, main, latch, allFinished, conn, calls, meter>>

Clients == 1..NumClients
ThreadOf(c) == c % NumThreads      \* pool.getNextLoop()
MeterTotal(t) == FoldSeq(LAMBDA c, sum : sum + count[c], 0, counts[t])

Init ==
  /\ prog \in {"client", "bench"}
  /\ pc = "connect"
  /\ i = 1 /\ k = 0
  /\ latch = IF prog = "client" THEN NumClients ELSE 1
  /\ allFinished = NumClients
  /\ conn = [c \in Clients |-> "none"]
  /\ flight = [c \in Clients |-> 0]
  /\ count = [c \in Clients |-> 0]
  /\ ended = [c \in Clients |-> FALSE]
  /\ stopping = {}
  /\ counts = [t \in 0..(NumThreads - 1) |-> <<>>]
  /\ lastTotal = [t \in 0..(NumThreads - 1) |-> 0]

-----------------------------------------------------------------------------
(* The loop threads. *)

(* onConnection of client.cc, which has connected all its clients. *)
OnConnectionClient(c) ==
  /\ prog = "client"
  /\ conn[c] = "none"
  /\ conn' = [conn EXCEPT ![c] = "up"]
  /\ latch' = latch - 1
  /\ UNCHANGED <<prog, main, allFinished, calls, meter>>

(* onConnection of bench.cc, for the client just created: addConnection,   *)
(* and its own latch.                                                      *)
OnConnectionBench(c) ==
  /\ prog = "bench"
  /\ c = i /\ pc = "connect"
  /\ conn[c] = "none"
  /\ conn' = [conn EXCEPT ![c] = "up"]
  /\ latch' = latch - 1
  /\ counts' = [counts EXCEPT ![ThreadOf(c)] = Append(@, c)]
  /\ UNCHANGED <<prog, main, allFinished, calls, lastTotal>>

(* The connection is lost with all calls; nobody notices. *)
ConnectionLost(c) ==
  /\ conn[c] = "up"
  /\ conn' = [conn EXCEPT ![c] = "lost"]
  /\ flight' = [flight EXCEPT ![c] = 0]
  /\ UNCHANGED <<prog, main, latch, allFinished, count, ended, meter>>

(* Mutant: the latch is counted down by every late reply. *)
CountsDownAgain(c) == count[c] + 1 >= KRequests

(* count_ reaches kRequests for the first time. *)
CountsDown(c) == count[c] + 1 >= KRequests /\ ~ended[c]

(* replied of client.cc. *)
RepliedClient(c) ==
  /\ prog = "client"
  /\ conn[c] = "up"
  /\ flight[c] > 0
  /\ count' = [count EXCEPT ![c] = @ + 1]
  /\ flight' = IF count[c] + 1 < KRequests THEN flight ELSE [flight EXCEPT ![c] = @ - 1]
  /\ ended' = [ended EXCEPT ![c] = @ \/ CountsDown(c)]
  /\ allFinished' = IF CountsDown(c) THEN allFinished - 1 ELSE allFinished
  /\ UNCHANGED <<prog, main, latch, conn, meter>>

(* replied of bench.cc. *)
RepliedBench(c) ==
  /\ prog = "bench"
  /\ conn[c] = "up"
  /\ flight[c] > 0
  /\ ended[c] \/ count[c] < MaxCalls
  /\ count' = [count EXCEPT ![c] = @ + 1]
  /\ flight' = IF ended[c] THEN [flight EXCEPT ![c] = @ - 1] ELSE flight
  /\ UNCHANGED <<prog, main, latch, allFinished, conn, ended, meter>>

(* removeConnection: swap with the last, and pop. *)
Removed(s, c) == Front([s EXCEPT ![SelectInSeq(s, LAMBDA x : x = c)] = Last(s)])

(* stopInLoop; an assertion wants the client in counts_. *)
StopInLoop(c) ==
  /\ c \in stopping
  /\ stopping' = stopping \ {c}
  /\ ended' = [ended EXCEPT ![c] = TRUE]
  /\ IF Contains(counts[ThreadOf(c)], c)
       THEN counts' = [counts EXCEPT ![ThreadOf(c)] = Removed(@, c)] /\ UNCHANGED pc
       ELSE pc' = "assert" /\ UNCHANGED counts
  /\ UNCHANGED <<prog, i, k, latch, allFinished, conn, flight, count, lastTotal>>

CallsPerSecond(t) == lastTotal' = [lastTotal EXCEPT ![t] = MeterTotal(t)]

(* printPerThread, every second. *)
PrintPerThread(t) ==
  /\ prog = "bench"
  /\ counts[t] # <<>>
  /\ CallsPerSecond(t)
  /\ UNCHANGED <<prog, main, latch, allFinished, conn, calls, counts>>

-----------------------------------------------------------------------------
(* The main threads. *)

(* allConnected.wait(), or the wait for one client. *)
WaitConnected ==
  /\ pc = "connect"
  /\ latch = 0
  /\ pc' = "send"
  /\ UNCHANGED <<prog, i, k, stopping, latch, allFinished, conn, calls, meter>>

(* One sendRequest of the pipeline.  Nothing is sent on a lost connection. *)
SendRequest ==
  /\ pc = "send"
  /\ k < NPipeline
  /\ k' = k + 1
  /\ flight' = IF conn[i] = "up" THEN [flight EXCEPT ![i] = @ + 1] ELSE flight
  /\ UNCHANGED <<prog, pc, i, stopping, latch, allFinished, conn, count, ended, meter>>

(* client.cc: the next client, or the wait for all. *)
NextOfClient ==
  /\ prog = "client" /\ pc = "send"
  /\ k = NPipeline
  /\ k' = 0
  /\ IF i < NumClients THEN i' = i + 1 /\ UNCHANGED pc ELSE i' = 1 /\ pc' = "wait"
  /\ UNCHANGED <<prog, stopping, latch, allFinished, conn, calls, meter>>

(* bench.cc: the next client is created, with a latch of its own. *)
NextOfBench ==
  /\ prog = "bench" /\ pc = "send"
  /\ k = NPipeline
  /\ k' = 0
  /\ IF i < NumClients
       THEN i' = i + 1 /\ pc' = "connect" /\ latch' = 1
       ELSE i' = 1 /\ pc' = "stop" /\ UNCHANGED latch
  /\ UNCHANGED <<prog, stopping, allFinished, conn, calls, meter>>

(* client.cc: allFinished.wait(), then the figures are printed. *)
WaitFinished ==
  /\ pc = "wait"
  /\ allFinished <= 0
  /\ pc' = "done"
  /\ UNCHANGED <<prog, i, k, stopping, latch, allFinished, conn, calls, meter>>

(* bench.cc: stop(), which queues stopInLoop. *)
Stop ==
  /\ pc = "stop"
  /\ stopping' = stopping \cup {i}
  /\ IF i < NumClients THEN i' = i + 1 /\ UNCHANGED pc ELSE pc' = "done" /\ UNCHANGED i
  /\ UNCHANGED <<prog, k, latch, allFinished, conn, calls, meter>>

Main == WaitConnected \/ SendRequest \/ NextOfClient \/ NextOfBench \/ WaitFinished \/ Stop
Loop(c) ==
  \/ OnConnectionClient(c) \/ OnConnectionBench(c)
  \/ RepliedClient(c) \/ RepliedBench(c) \/ StopInLoop(c)

Next ==
  \/ Main
  \/ \E c \in Clients : Loop(c) \/ ConnectionLost(c)
  \/ \E t \in 0..(NumThreads - 1) : PrintPerThread(t)

Spec == Init /\ [][Next]_vars

Fairness == WF_vars(Main) /\ \A c \in Clients : WF_vars(Loop(c))

-----------------------------------------------------------------------------
(* Properties. *)

(* client.cc prints nClients * kRequests calls: when it does, every client *)
(* has had its kRequests replies, late ones of the pipeline included or    *)
(* not.                                                                    *)
FiguresTrue == pc = "done" /\ prog = "client" => \A c \in Clients : count[c] >= KRequests

(* No loop of calls is doubled: a client never has more calls in flight    *)
(* than the pipeline, nor replies than were asked for.                     *)
LoopsClosed ==
  \A c \in Clients :
    /\ flight[c] <= NPipeline
    /\ prog = "client" => count[c] < KRequests + NPipeline

(* A meter counts each client of its thread from its connection to its     *)
(* stop, once, so that the assertion of removeConnection holds.            *)
MeterRight ==
  /\ pc # "assert"
  /\ prog = "bench" =>
       \A t \in 0..(NumThreads - 1) :
         /\ ToSet(counts[t]) = {c \in Clients : ThreadOf(c) = t /\ conn[c] # "none" /\ ~ended[c]}
         /\ Len(counts[t]) = Cardinality(ToSet(counts[t]))

BenchRight == FiguresTrue /\ LoopsClosed /\ MeterRight

(* Unless a connection is lost the main thread ends, and all loops of      *)
(* calls come to rest.                                                     *)
BenchEnds ==
  <>(\/ \E c \in Clients : conn[c] = "lost"
     \/ pc = "done" /\ \A c \in Clients : flight[c] = 0)
=============================================================================
