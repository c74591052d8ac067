---------------------------- MODULE WordControl ----------------------------
(***************************************************************************)
(* examples/wordfreq/control.cc: the controller gathers the workers before *)
(* a shuffle.  Its main thread asks the head worker for the list of peers, *)
(* connects to every one of them and asks each for its information, and    *)
(* waits for the callbacks, which run on the loop thread, with a latch.    *)
(* Meanwhile the workers connect to each other; a worker that answers      *)
(* before it has is not ready.  Connections do not retry after a loss.     *)
(***************************************************************************)
EXTENDS Naturals, Sequences, FiniteSetsExt, Functions

CONSTANTS
  Workers,    \* addresses
  HeadWorker,       \* headWorker
  Lists,      \* bound: lists of peers a worker may have been started with
  Counts      \* bound: number of keys of a shard, its greatest key too

ListsAssumption == Lists \subseteq Seq(Workers)
HeadAssumption == HeadWorker \in Workers
CountsAssumption == Counts \subseteq Nat

VARIABLES
  peers,      \* peers[w]: peerAddresses_ of w
  shard,      \* shard[w]: number of keys of w and the greatest
  linked,     \* linked[w]: peers whose connected_ is true at w
  lost,       \* lost[w]: peers whose connection has been lost at w
  phase,      \* what the main thread does
  latch,      \* the latch it waits for
  next,       \* index of the next client to connect or ask
  clients,    \* clients_, by address
  open,       \* indices of clients that are connected
  asked,      \* indices whose GetInfo is on its way to the worker
  answers,    \* GetInfo responses on their way: index to ready
  workers,    \* workers_: index to gotInfo, count, max and peers
  keyCount, maxKey

cluster == <<peers, shard, linked, lost>>
vars == <<cluster, phase, latch, next, clients, open, asked, answers, workers, keyCount, maxKey>>

Index == DOMAIN clients
NoInfo == [gotInfo |-> FALSE, keys |-> 0, max |-> 0, peers |-> <<>>]
Phases == {"connectHead", "getInfoHead", "connect", "connecting", "getInfo", "waiting",
           "ready", "fatal"}

TypeOK ==
  /\ peers \in [Workers -> Lists]
  /\ linked \in [Workers -> SUBSET Workers] /\ lost \in [Workers -> SUBSET Workers]
  /\ phase \in Phases
  /\ latch \in 0..(1 + Len(clients))
  /\ next \in 1..(1 + Len(clients))
  /\ clients \in Lists \cup {<<>>}
  /\ open \subseteq Index
  /\ asked \subseteq 0..Len(clients)
  /\ \A a \in answers : a.part \in 0..Len(clients) /\ a.ready \in BOOLEAN
  /\ DOMAIN workers \subseteq Index

Init ==
  /\ peers \in [Workers -> Lists]
  /\ shard \in [Workers -> [keys : Counts, max : Counts]]
  /\ linked = [w \in Workers |-> {}]
  /\ lost = [w \in Workers |-> {}]
  /\ phase = "connectHead"
  /\ latch = 1
  /\ next = 1
  /\ clients = <<>>
  /\ open = {} /\ asked = {} /\ answers = {}
  /\ workers = <<>>
  /\ keyCount = 0 /\ maxKey = 0

-----------------------------------------------------------------------------
(* The workers. *)

(* onConnection of a peer at w; TcpClient tries until it is connected. *)
PeerUp(w, p) ==
  /\ p \in Range(peers[w]) \ (linked[w] \cup lost[w])
  /\ linked' = [linked EXCEPT ![w] = @ \cup {p}]
  /\ UNCHANGED <<peers, shard, lost, phase, latch, next, clients, open, asked, answers, workers,
                 keyCount, maxKey>>

PeerDown(w, p) ==
  /\ p \in linked[w]
  /\ linked' = [linked EXCEPT ![w] = @ \ {p}]
  /\ lost' = [lost EXCEPT ![w] = @ \cup {p}]
  /\ UNCHANGED <<peers, shard, phase, latch, next, clients, open, asked, answers, workers,
                 keyCount, maxKey>>

(* Mutant: always ready. *)
AlwaysReady(w) == TRUE

(* Every peer is connected. *)
IsReady(w) == Range(peers[w]) \subseteq linked[w]

(* The worker that a GetInfo with this index goes to, 0 for the head. *)
AddressOf(part) == IF part = 0 THEN HeadWorker ELSE clients[part]

(* GetInfo: isReady now, the rest never changes. *)
GetInfo(part) ==
  /\ part \in asked
  /\ asked' = asked \ {part}
  /\ answers' = answers \cup {[part |-> part, ready |-> IsReady(AddressOf(part))]}
  /\ UNCHANGED <<cluster, phase, latch, next, clients, open, workers, keyCount, maxKey>>

-----------------------------------------------------------------------------
(* getPeers. *)

(* onConnection of the head client. *)
HeadConnected ==
  /\ phase = "connectHead" /\ latch = 1
  /\ latch' = 0
  /\ UNCHANGED <<cluster, phase, next, clients, open, asked, answers, workers, keyCount, maxKey>>

(* The main thread goes on and asks the head. *)
GetInfoHead ==
  /\ phase = "connectHead" /\ latch = 0
  /\ phase' = "getInfoHead"
  /\ latch' = 1
  /\ asked' = {0}
  /\ UNCHANGED <<cluster, next, clients, open, answers, workers, keyCount, maxKey>>

(* getHeadInfoCb: a client per peer.  Whether the head is ready is not     *)
(* looked at.                                                              *)
GetHeadInfoCb(a) ==
  /\ phase = "getInfoHead"
  /\ a \in answers
  /\ answers' = answers \ {a}
  /\ clients' = peers[HeadWorker]
  /\ latch' = latch - 1
  /\ UNCHANGED <<cluster, phase, next, open, asked, workers, keyCount, maxKey>>

-----------------------------------------------------------------------------
(* connectAll. *)

(* Mutant: the latch waits for the head too. *)
LatchWithHead == Len(clients) + 1

(* The latches of connectAll and prepare. *)
LatchOfClients == Len(clients)

ConnectAll ==
  /\ phase = "getInfoHead" /\ latch = 0
  /\ phase' = "connect"
  /\ latch' = LatchOfClients
  /\ UNCHANGED <<cluster, next, clients, open, asked, answers, workers, keyCount, maxKey>>

(* One turn of the loop that connects the clients. *)
Connect ==
  /\ phase = "connect"
  /\ IF next <= Len(clients)
       THEN /\ next' = next + 1
            /\ UNCHANGED phase
       ELSE /\ next' = 1
            /\ phase' = "connecting"
  /\ UNCHANGED <<cluster, latch, clients, open, asked, answers, workers, keyCount, maxKey>>

(* onConnection of client i, any time after its connect. *)
OnConnection(i) ==
  /\ i \notin open
  /\ phase = "connecting" \/ (phase = "connect" /\ i < next)
  /\ open' = open \cup {i}
  /\ latch' = latch - 1
  /\ UNCHANGED <<cluster, phase, next, clients, asked, answers, workers, keyCount, maxKey>>

(* All are connected: workers_.resize and a new latch. *)
GetInfoAll ==
  /\ phase = "connecting" /\ latch = 0
  /\ phase' = "getInfo"
  /\ latch' = LatchOfClients
  /\ workers' = [i \in Index |-> NoInfo]
  /\ UNCHANGED <<cluster, next, clients, open, asked, answers, keyCount, maxKey>>

(* One turn of the loop that asks. *)
AskInfo ==
  /\ phase = "getInfo"
  /\ IF next <= Len(clients)
       THEN /\ next' = next + 1
            /\ asked' = asked \cup {next}
            /\ UNCHANGED phase
       ELSE /\ phase' = "waiting"
            /\ UNCHANGED <<next, asked>>
  /\ UNCHANGED <<cluster, latch, clients, open, answers, workers, keyCount, maxKey>>

(* getInfoCb, which may run before the last worker is asked.  LOG_FATAL    *)
(* aborts if the worker is not ready.                                      *)
GetInfoCb(a) ==
  /\ phase \in {"getInfo", "waiting"}
  /\ a \in answers
  /\ answers' = answers \ {a}
  /\ IF ~a.ready
       THEN /\ phase' = "fatal"
            /\ UNCHANGED <<workers, latch>>
       ELSE /\ workers' = [workers EXCEPT ![a.part] = [gotInfo |-> TRUE,
                                                       keys |-> shard[clients[a.part]].keys,
                                                       max |-> shard[clients[a.part]].max,
                                                       peers |-> peers[clients[a.part]]]]
            /\ latch' = latch - 1
            /\ UNCHANGED phase
  /\ UNCHANGED <<cluster, next, clients, open, asked, keyCount, maxKey>>

-----------------------------------------------------------------------------
(* Every worker has the list of the head. *)
SamePeers == \A i \in DOMAIN workers : workers[i].peers = clients

(* The rest of prepare: totals, and LOG_FATAL if the lists differ. *)
Prepare ==
  /\ phase = "waiting" /\ latch = 0
  /\ keyCount' = SumFunction([i \in DOMAIN workers |-> workers[i].keys])
  /\ maxKey' = Max({0} \cup {workers[i].max : i \in DOMAIN workers})
  /\ phase' = IF SamePeers THEN "ready" ELSE "fatal"
  /\ UNCHANGED <<cluster, latch, next, clients, open, asked, answers, workers>>

Next ==
  \/ \E w, p \in Workers : PeerUp(w, p) \/ PeerDown(w, p)
  \/ \E part \in 0..Len(clients) : GetInfo(part)
  \/ HeadConnected \/ GetInfoHead \/ \E a \in answers : GetHeadInfoCb(a)
  \/ ConnectAll \/ Connect \/ \E i \in Index : OnConnection(i)
  \/ GetInfoAll \/ AskInfo \/ \E a \in answers : GetInfoCb(a)
  \/ Prepare

Spec == Init /\ [][Next]_vars

(* Threads run, messages arrive and connections come up. *)
Fairness ==
  /\ WF_vars(HeadConnected)
  /\ WF_vars(GetInfoHead \/ ConnectAll \/ Connect \/ GetInfoAll \/ AskInfo \/ Prepare)
  /\ WF_vars(\E a \in answers : GetHeadInfoCb(a) \/ GetInfoCb(a))
  /\ WF_vars(\E part \in 0..Len(clients) : GetInfo(part))
  /\ WF_vars(\E i \in Index : OnConnection(i))

FairSpec == Spec /\ Fairness

-----------------------------------------------------------------------------
(* Properties. *)

(* No client is asked before it is connected: its channel would have no    *)
(* connection to send on.                                                  *)
AskedConnected == asked \subseteq open \cup {0}

(* When the controller is ready, its totals are those of all the workers   *)
(* on the list, however the callbacks raced the thread that sums them.     *)
TotalsComplete ==
  phase = "ready" =>
    /\ keyCount = SumFunction([i \in Index |-> shard[clients[i]].keys])
    /\ \A i \in Index : shard[clients[i]].max <= maxKey

(* When it is ready, partition p means the same worker to all workers, as  *)
(* ShuffleKey needs.                                                       *)
OnePartitioning ==
  phase = "ready" => \A i \in Index : peers[clients[i]] = peers[HeadWorker]

(* When it is ready, every worker has had a connection to every other: one *)
(* that is missing has been lost since GetInfo was answered.               *)
ReadyWasConnected ==
  phase = "ready" => \A i \in Index : Range(clients) \subseteq linked[clients[i]] \cup lost[clients[i]]

(* The controller does not hang: it is ready or has given up.  (It gives   *)
(* up on a worker that is still connecting.)                               *)
PrepareEnds == <>(phase \in {"ready", "fatal"})

(* The controller asks only who is connected; when it is ready its totals  *)
(* are complete, the workers agree on the partitioning and have all been   *)
(* connected to each other.                                                *)
PreparedRight ==
  TypeOK /\ AskedConnected /\ TotalsComplete /\ OnePartitioning /\ ReadyWasConnected
=============================================================================
