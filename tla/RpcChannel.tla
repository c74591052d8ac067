----------------------------- MODULE RpcChannel -----------------------------
(***************************************************************************)
(* muduo/protorpc2: RpcChannel on both ends of a TCP connection, RpcServer *)
(* creating and destroying the server's channel, and a client that keeps   *)
(* one RpcChannel across reconnections (examples/zurg/slave/RpcClient.cc). *)
(*                                                                         *)
(* A member of Calls is one invocation of RpcChannel::CallMethod with its  *)
(* request and its done callback; every call runs on a thread of its own,  *)
(* so the three steps of CallMethod interleave freely.  The content of a   *)
(* request, and of the response computed from it, is the call itself.      *)
(*                                                                         *)
(* A connection is two FIFO byte streams (TcpConnection, external).  Each  *)
(* end learns of its loss on its own; what the other end had sent and was  *)
(* not read by then is gone.  TcpConnection::send on a connection that is  *)
(* down drops the message.                                                 *)
(***************************************************************************)
EXTENDS Naturals, Sequences, FiniteSets

CONSTANTS
  Calls,       \* invocations of CallMethod
  Served,      \* those that name a service and a method the server has
  Failing,     \* those of them that a Java service completes with null
  MaxConns,    \* bound: connections in the client's life
  MaxReplies   \* bound: how often a service may run done for one request

ASSUME ServedAssumption == Failing \subseteq Served /\ Served \subseteq Calls
ASSUME MaxConnsAssumption == MaxConns \in Nat \ {0}
ASSUME MaxRepliesAssumption == MaxReplies \in Nat \ {0}

VARIABLES
  pc,            \* pc[c]: progress of CallMethod
  callId,        \* callId[c]: the local variable id
  id_,           \* the channel's counter (AtomicInt64)
  outstandings,  \* the channel's map id -> call, guarded by mutex_
  conn_,         \* the client channel's connection, 0 before the first
  clientUp,      \* the connection the client believes up, 0 if none
  server,        \* server[k]: the server's RpcChannel of connection k
  c2s, s2c,      \* the two streams of each connection
  invocations,   \* service methods called, with the done bound to each
  executions,    \* executions[c]: how often a service ran the request of c
  got,           \* got[c]: the responses done was called with
  lateDones      \* calls whose doneCallback ran on a destroyed channel

clientVars == <<pc, callId, id_, outstandings, got>>
serverVars == <<server, invocations, executions, lateDones>>
vars == <<clientVars, conn_, clientUp, c2s, s2c, serverVars>>

Conns == 1..MaxConns

Request(c) == [type |-> "REQUEST", id |-> callId[c], body |-> c]
Response(v) == [type |-> "RESPONSE", id |-> v.id, body |-> v.body]
ErrorMessage(v) == [type |-> "ERROR", id |-> v.id, body |-> v.body]

Requests == [type : {"REQUEST"}, id : Nat, body : Calls]
Responses == [type : {"RESPONSE", "ERROR"}, id : Nat, body : Calls]
Invocations == [conn : Conns, id : Nat, body : Calls, replies : 0..MaxReplies]

TypeOK ==
  /\ pc \in [Calls -> {"idle", "numbered", "registered", "sent"}]
  /\ callId \in [Calls -> Nat]
  /\ id_ \in Nat
  /\ DOMAIN outstandings \subseteq Nat
  /\ outstandings \in [DOMAIN outstandings -> Calls]
  /\ conn_ \in 0..MaxConns
  /\ clientUp \in 0..MaxConns
  /\ server \in [Conns -> {"none", "alive", "destroyed"}]
  /\ c2s \in [Conns -> Seq(Requests)]
  /\ s2c \in [Conns -> Seq(Responses)]
  /\ invocations \subseteq Invocations
  /\ executions \in [Calls -> Nat]
  /\ got \in [Calls -> Seq(Calls)]
  /\ lateDones \subseteq Calls

Init ==
  /\ pc = [c \in Calls |-> "idle"]
  /\ callId = [c \in Calls |-> 0]
  /\ id_ = 0
  /\ outstandings = [i \in {} |-> {}]
  /\ conn_ = 0
  /\ clientUp = 0
  /\ server = [k \in Conns |-> "none"]
  /\ c2s = [k \in Conns |-> <<>>]
  /\ s2c = [k \in Conns |-> <<>>]
  /\ invocations = {}
  /\ executions = [c \in Calls |-> 0]
  /\ got = [c \in Calls |-> <<>>]
  /\ lateDones = {}

-----------------------------------------------------------------------------
(* CallMethod, on the thread of the caller. *)

(* Mutant: id_ is a plain integer, the increment of another thread is lost. *)
NumberCallLostUpdate(c) ==
  /\ pc[c] = "idle"
  /\ conn_ # 0
  /\ id_' \in {id_, id_ + 1}
  /\ callId' = [callId EXCEPT ![c] = id_ + 1]
  /\ pc' = [pc EXCEPT ![c] = "numbered"]
  /\ UNCHANGED <<outstandings, got, conn_, clientUp, c2s, s2c, serverVars>>

(* id_.incrementAndGet().  Clients call only once they have been connected. *)
NumberCall(c) ==
  /\ pc[c] = "idle"
  /\ conn_ # 0
  /\ id_' = id_ + 1
  /\ callId' = [callId EXCEPT ![c] = id_ + 1]
  /\ pc' = [pc EXCEPT ![c] = "numbered"]
  /\ UNCHANGED <<outstandings, got, conn_, clientUp, c2s, s2c, serverVars>>

(* outstandings_[id] = out, under mutex_. *)
RegisterCall(c) ==
  /\ pc[c] = "numbered"
  /\ outstandings' = [i \in DOMAIN outstandings \cup {callId[c]} |->
                        IF i = callId[c] THEN c ELSE outstandings[i]]
  /\ pc' = [pc EXCEPT ![c] = "registered"]
  /\ UNCHANGED <<callId, id_, got, conn_, clientUp, c2s, s2c, serverVars>>

(* codec_.send(conn_, message). *)
SendRequest(c) ==
  /\ pc[c] = "registered"
  /\ pc' = [pc EXCEPT ![c] = "sent"]
  /\ c2s' = IF conn_ = clientUp /\ server[conn_] # "destroyed"
              THEN [c2s EXCEPT ![conn_] = Append(@, Request(c))]
              ELSE c2s
  /\ UNCHANGED <<callId, id_, outstandings, got, conn_, clientUp, s2c, serverVars>>

-----------------------------------------------------------------------------
(* Connections. *)

(* Mutant: a reconnection starts the numbering again. *)
ClientConnectedResetsId(k) ==
  /\ clientUp = 0
  /\ k = conn_ + 1
  /\ conn_' = k
  /\ clientUp' = k
  /\ id_' = 0
  /\ UNCHANGED <<pc, callId, outstandings, got, c2s, s2c, serverVars>>

(* The client's connection callback with connected() TRUE. *)
ClientConnected(k) ==
  /\ clientUp = 0
  /\ k = conn_ + 1
  /\ conn_' = k
  /\ clientUp' = k
  /\ UNCHANGED <<clientVars, c2s, s2c, serverVars>>

(* ... and with connected() FALSE: onDisconnect() does nothing. *)
ClientDisconnected ==
  /\ clientUp # 0
  /\ s2c' = [s2c EXCEPT ![clientUp] = <<>>]
  /\ clientUp' = 0
  /\ UNCHANGED <<clientVars, conn_, c2s, serverVars>>

(* RpcServer::onConnection, UP: a new channel for the connection. *)
ServerConnected(k) ==
  /\ server[k] = "none"
  /\ k <= conn_
  /\ server' = [server EXCEPT ![k] = "alive"]
  /\ UNCHANGED <<clientVars, conn_, clientUp, c2s, s2c, invocations, executions, lateDones>>

(* RpcServer::onConnection, DOWN: resetting the context destroys the       *)
(* channel, whatever the services still hold of it.                        *)
ServerDisconnected(k) ==
  /\ server[k] = "alive"
  /\ server' = [server EXCEPT ![k] = "destroyed"]
  /\ c2s' = [c2s EXCEPT ![k] = <<>>]
  /\ UNCHANGED <<clientVars, conn_, clientUp, s2c, invocations, executions, lateDones>>

-----------------------------------------------------------------------------
(* onRpcMessage on the server: callServiceMethod. *)

(* Mutant: the message is not retrieved from the input buffer. *)
OnRequestKeepsMessage(k) ==
  /\ server[k] = "alive"
  /\ c2s[k] # <<>>
  /\ LET m == Head(c2s[k]) IN
       /\ m.body \in Served
       /\ executions[m.body] < 2
       /\ invocations' = invocations \cup
            {[conn |-> k, id |-> m.id, body |-> m.body, replies |-> 0]}
       /\ executions' = [executions EXCEPT ![m.body] = @ + 1]
  /\ UNCHANGED <<clientVars, conn_, clientUp, c2s, s2c, server, lateDones>>

(* The service and the method are found: the method is called with done    *)
(* bound to the channel and to the id of the request.                      *)
OnRequest(k) ==
  /\ server[k] = "alive"
  /\ c2s[k] # <<>>
  /\ LET m == Head(c2s[k]) IN
       /\ m.body \in Served
       /\ invocations' = invocations \cup
            {[conn |-> k, id |-> m.id, body |-> m.body, replies |-> 0]}
       /\ executions' = [executions EXCEPT ![m.body] = @ + 1]
  /\ c2s' = [c2s EXCEPT ![k] = Tail(@)]
  /\ UNCHANGED <<clientVars, conn_, clientUp, s2c, server, lateDones>>

(* Mutant: the services are registered after start(), the lookup misses.   *)
OnUnknownRequestMisses(k) ==
  /\ server[k] = "alive"
  /\ c2s[k] # <<>>
  /\ c2s' = [c2s EXCEPT ![k] = Tail(@)]
  /\ UNCHANGED <<clientVars, conn_, clientUp, s2c, serverVars>>

(* No such service or method, or no services_ at all: the FIXME branches.  *)
(* A Java server answers nothing either: the ERROR that doRequest builds   *)
(* lacks the required id, so build() throws.                               *)
OnUnknownRequest(k) ==
  /\ server[k] = "alive"
  /\ c2s[k] # <<>>
  /\ Head(c2s[k]).body \notin Served
  /\ c2s' = [c2s EXCEPT ![k] = Tail(@)]
  /\ UNCHANGED <<clientVars, conn_, clientUp, s2c, serverVars>>

(* A service runs its done, now or later, once or (as WordFrequencyServer  *)
(* does for ShuffleKey) more than once, and the channel it is bound to     *)
(* sends m.  If that channel is gone the program has no meaning; the model *)
(* records it and sends nothing.                                           *)
RunDone(v, m) ==
  /\ v.replies < MaxReplies
  /\ invocations' = (invocations \ {v}) \cup {[v EXCEPT !.replies = @ + 1]}
  /\ s2c' = IF server[v.conn] = "alive" /\ clientUp = v.conn
              THEN [s2c EXCEPT ![v.conn] = Append(@, m)]
              ELSE s2c
  /\ lateDones' = lateDones \cup {c \in {v.body} : server[v.conn] = "destroyed"}
  /\ UNCHANGED <<clientVars, conn_, clientUp, c2s, server, executions>>

(* doneCallback, with the response. *)
DoneCallback(v) == v.body \notin Failing /\ RunDone(v, Response(v))

(* done of a Java server when the service gives it null: an ERROR. *)
DoneCallbackNull(v) == v.body \in Failing /\ RunDone(v, ErrorMessage(v))

-----------------------------------------------------------------------------
(* onRpcMessage on the client. *)

(* Mutant: the entry is found but not erased. *)
OnResponseKeepsEntry ==
  /\ clientUp # 0
  /\ s2c[clientUp] # <<>>
  /\ LET m == Head(s2c[clientUp]) IN
       /\ m.type = "RESPONSE"
       /\ m.id \in DOMAIN outstandings
       /\ got' = [got EXCEPT ![outstandings[m.id]] = Append(@, m.body)]
  /\ s2c' = [s2c EXCEPT ![clientUp] = Tail(@)]
  /\ UNCHANGED <<outstandings, pc, callId, id_, conn_, clientUp, c2s, serverVars>>

(* RESPONSE whose id is in outstandings_: erase the entry, run its done.   *)
OnResponse ==
  /\ clientUp # 0
  /\ s2c[clientUp] # <<>>
  /\ LET m == Head(s2c[clientUp]) IN
       /\ m.type = "RESPONSE"
       /\ m.id \in DOMAIN outstandings
       /\ outstandings' = [i \in DOMAIN outstandings \ {m.id} |-> outstandings[i]]
       /\ got' = [got EXCEPT ![outstandings[m.id]] = Append(@, m.body)]
  /\ s2c' = [s2c EXCEPT ![clientUp] = Tail(@)]
  /\ UNCHANGED <<pc, callId, id_, conn_, clientUp, c2s, serverVars>>

(* RESPONSE whose id is not: logged, ignored. *)
OnUnknownResponse ==
  /\ clientUp # 0
  /\ s2c[clientUp] # <<>>
  /\ Head(s2c[clientUp]).type = "RESPONSE"
  /\ Head(s2c[clientUp]).id \notin DOMAIN outstandings
  /\ s2c' = [s2c EXCEPT ![clientUp] = Tail(@)]
  /\ UNCHANGED <<clientVars, conn_, clientUp, c2s, serverVars>>

(* ERROR: the FIXME branch, ignored. *)
OnError ==
  /\ clientUp # 0
  /\ s2c[clientUp] # <<>>
  /\ Head(s2c[clientUp]).type = "ERROR"
  /\ s2c' = [s2c EXCEPT ![clientUp] = Tail(@)]
  /\ UNCHANGED <<clientVars, conn_, clientUp, c2s, serverVars>>

-----------------------------------------------------------------------------
(* Mutant: the request is sent before the entry is inserted. *)
CallMethodSendsFirst(c) ==
  \/ NumberCall(c)
  \/ /\ pc[c] = "numbered"
     /\ pc' = [pc EXCEPT ![c] = "registered"]
     /\ c2s' = IF conn_ = clientUp /\ server[conn_] # "destroyed"
                 THEN [c2s EXCEPT ![conn_] = Append(@, Request(c))]
                 ELSE c2s
     /\ UNCHANGED <<callId, id_, outstandings, got, conn_, clientUp, s2c, serverVars>>
  \/ /\ pc[c] = "registered"
     /\ outstandings' = [i \in DOMAIN outstandings \cup {callId[c]} |->
                           IF i = callId[c] THEN c ELSE outstandings[i]]
     /\ pc' = [pc EXCEPT ![c] = "sent"]
     /\ UNCHANGED <<callId, id_, got, conn_, clientUp, c2s, s2c, serverVars>>

CallMethod(c) == NumberCall(c) \/ RegisterCall(c) \/ SendRequest(c)

OnServerMessage(k) == OnRequest(k) \/ OnUnknownRequest(k)

OnClientMessage == OnResponse \/ OnUnknownResponse \/ OnError

Next ==
  \/ \E c \in Calls : CallMethod(c)
  \/ \E k \in Conns : ClientConnected(k)
  \/ ClientDisconnected
  \/ \E k \in Conns : ServerConnected(k)
  \/ \E k \in Conns : ServerDisconnected(k)
  \/ \E k \in Conns : OnServerMessage(k)
  \/ \E v \in invocations : DoneCallback(v) \/ DoneCallbackNull(v)
  \/ OnClientMessage

Spec == Init /\ [][Next]_vars

(* Threads finish the CallMethod they entered, both event loops read what  *)
(* has arrived, the listening socket accepts, and every service runs the   *)
(* done it was given at least once.  Nothing is assumed of connections.    *)
Fairness ==
  /\ \A c \in Calls : WF_vars(RegisterCall(c) \/ SendRequest(c))
  /\ \A k \in Conns : WF_vars(ServerConnected(k)) /\ WF_vars(OnServerMessage(k))
  /\ \A c \in Calls :
       WF_vars(\E v \in invocations : v.body = c /\ v.replies = 0 /\ DoneCallback(v))
  /\ WF_vars(OnClientMessage)

FairSpec == Spec /\ Fairness

-----------------------------------------------------------------------------
(* Properties. *)

(* A done callback runs at most once, though a service may answer a        *)
(* request several times: onRpcMessage erases the entry before it runs it. *)
DoneAtMostOnce == \A c \in Calls : Len(got[c]) <= 1

(* done is given the response computed from its own request, whatever the  *)
(* interleaving of callers and across reconnections: ids never repeat.     *)
OwnResponse == \A c \in Calls : \A i \in 1..Len(got[c]) : got[c][i] = c

(* From the moment CallMethod left its critical section until done runs,   *)
(* the call is in outstandings_ under its own id: no other call displaces  *)
(* it and no response meant for another removes it.                        *)
NoCallForgotten ==
  \A c \in Calls : (pc[c] \in {"registered", "sent"} /\ got[c] = <<>>) =>
    (callId[c] \in DOMAIN outstandings /\ outstandings[callId[c]] = c)

(* The "Unknown RESPONSE" branch is reached by duplicates only: a response *)
(* on its way to the client either finds its entry or answers a call whose *)
(* done has run (CallMethod inserts before it sends).                      *)
OnlyDuplicatesUnknown ==
  \A k \in Conns : \A i \in 1..Len(s2c[k]) :
    s2c[k][i].type = "RESPONSE" =>
      \/ s2c[k][i].id \in DOMAIN outstandings
      \/ got[s2c[k][i].body] # <<>>

(* The channel implements AbstractRpc: at most one execution, at most one  *)
(* completion, after the execution and with the right answer.              *)
callStatus == [c \in Calls |-> IF pc[c] = "idle" THEN "new"
                               ELSE IF got[c] = <<>> THEN "issued" ELSE "done"]

Abstract == INSTANCE AbstractRpc WITH
  status <- callStatus, runs <- executions, answers <- got

ImplementsAbstractRpc == Abstract!Spec

(* A call of a method the server has is answered, or the connection it was *)
(* made on is lost: nothing else (a missed wakeup, a lost entry, an        *)
(* unread message) leaves it pending.                                      *)
AnsweredOrLost ==
  \A c \in Served \ Failing, k \in Conns :
    (pc[c] = "registered" /\ clientUp = k) ~>
      (got[c] # <<>> \/ clientUp # k \/ server[k] = "destroyed")

(* service.h:115 lets a service run done at some point in the future; the  *)
(* channel that doneCallback is bound to must then still exist.            *)
DoneRunsOnLiveChannel == lateDones = {}

-----------------------------------------------------------------------------
(* The inductive invariant behind these properties, in parts. *)

(* A call that has its number got it from id_, on a channel with a         *)
(* connection.                                                             *)
NumbersIssued ==
  \A c \in Calls : pc[c] # "idle" => (callId[c] \in 1..id_ /\ conn_ # 0)

NumbersUnique ==
  \A c, d \in Calls :
    (pc[c] # "idle" /\ pc[d] # "idle" /\ callId[c] = callId[d]) => c = d

(* Every entry of outstandings_ is a call that waits under that id. *)
EntriesWait ==
  \A i \in DOMAIN outstandings :
    /\ pc[outstandings[i]] \in {"registered", "sent"}
    /\ callId[outstandings[i]] = i
    /\ got[outstandings[i]] = <<>>

(* x, with the fields id and body, speaks of a request that was sent and   *)
(* of n executions of it.                                                  *)
SpeaksOf(x, n) ==
  /\ pc[x.body] = "sent"
  /\ x.id = callId[x.body]
  /\ executions[x.body] = n

RequestsInFlight ==
  \A k \in Conns : \A i \in 1..Len(c2s[k]) : SpeaksOf(c2s[k][i], 0)

RequestsDistinct ==
  \A k, l \in Conns : \A i \in 1..Len(c2s[k]), j \in 1..Len(c2s[l]) :
    c2s[k][i].body = c2s[l][j].body => (k = l /\ i = j)

InvocationsRun == \A v \in invocations : SpeaksOf(v, 1)

ResponsesInFlight ==
  \A k \in Conns : \A i \in 1..Len(s2c[k]) :
    SpeaksOf(s2c[k][i], 1)

Progress ==
  \A c \in Calls :
    /\ executions[c] \in {0, 1}
    /\ got[c] \in {<<>>, <<c>>}
    /\ got[c] # <<>> => executions[c] = 1
    /\ executions[c] = 1 => pc[c] = "sent"

IndInv ==
  /\ TypeOK
  /\ NumbersIssued
  /\ NumbersUnique
  /\ EntriesWait
  /\ NoCallForgotten
  /\ RequestsInFlight
  /\ RequestsDistinct
  /\ InvocationsRun
  /\ ResponsesInFlight
  /\ Progress
=============================================================================
