---------------------------- MODULE JavaChannel ----------------------------
(***************************************************************************)
(* The Java client: RpcClient.blockingConnect, then threads in             *)
(* RpcChannel.callBlockingMethod, the Netty IO thread in messageReceived   *)
(* and whoever runs disconnected(); a Java RpcServer at the other end.     *)
(*                                                                         *)
(* A member of Calls is one callBlockingMethod on a thread of its own; it  *)
(* stands for its request and for the response computed from it.  The      *)
(* monitor of a BlockingRpcCallback is held exactly while its caller is in *)
(* state "decided", between the test of the loop and wait().               *)
(***************************************************************************)
EXTENDS Naturals, Sequences, FiniteSets

CONSTANTS
  Calls,      \* invocations of callBlockingMethod
  Fates,      \* assignments of fates to calls, see below
  MaxReplies  \* bound: how often a service may run its done

(* "plain"    nothing                                                      *)
(* "unknown"  it names no service or method of the server                  *)
(* "null"     the service completes it with null                           *)
(* "garbled"  its response does not parse at the client                    *)
ASSUME FatesAssumption == Fates \subseteq [Calls -> {"plain", "unknown", "null", "garbled"}]
ASSUME BoundAssumption == MaxReplies \in Nat \ {0}
ASSUME NullAssumption == "none" \notin Calls

VARIABLES
  fate,         \* fate[c]
  main,         \* the thread in blockingConnect
  callback,     \* newChannelCallback: "null" or "set"
  rpcChannel,   \* RpcClient.rpcChannel: "null" or "set"
  latch,        \* 1 until the callback counts it down
  result,       \* what blockingConnect returned
  setup,        \* progress of the IO thread in channelConnected
  connected,    \* channel.isConnected(), as a string
  pc,           \* pc[c]: progress of callBlockingMethod
  id,           \* the channel's AtomicLong
  callId,       \* callId[c]: local variable of callMethod
  outstandings, \* ConcurrentHashMap id -> call
  response,     \* response[c]: the field of the BlockingRpcCallback
  inHand,       \* entries removed by messageReceived whose done is to run
  notifying,    \* "no", "running" or "over": the loop of disconnected()
  toVisit,      \* entries that loop has still to visit
  toServer, toClient,  \* the two streams
  invocations   \* service calls of the server, with the replies so far

connectVars == <<fate, main, callback, rpcChannel, latch, result, setup>>
callVars == <<pc, id, callId>>
vars == <<connectVars, connected, callVars, outstandings, response, inHand,
          notifying, toVisit, toServer, toClient, invocations>>

None == "none"   \* null

Requests == [id : Nat, body : Calls]
Replies == [type : {"RESPONSE", "ERROR"}, id : Nat, body : Calls]

TypeOK ==
  /\ fate \in Fates
  /\ main \in {"start", "connecting", "awaiting", "returned"}
  /\ callback \in {"null", "set"} /\ rpcChannel \in {"null", "set"}
  /\ latch \in {0, 1} /\ result \in {"null", "set"}
  /\ setup \in {"no", "assigned", "done"}
  /\ connected \in {"not yet", "yes", "no more"}
  /\ pc \in [Calls -> {"idle", "numbered", "registered", "entering", "decided",
                       "waiting", "returned"}]
  /\ id \in Nat /\ callId \in [Calls -> Nat]
  /\ outstandings \in [DOMAIN outstandings -> Calls]
  /\ DOMAIN outstandings \subseteq 1..id
  /\ response \in [Calls -> Calls \cup {None}]
  /\ inHand \subseteq (Calls \X Replies) /\ Cardinality(inHand) <= 1
  /\ notifying \in {"no", "running", "over"}
  /\ toVisit \subseteq Calls
  /\ toServer \in Seq(Requests) /\ toClient \in Seq(Replies)
  /\ invocations \subseteq [id : Nat, body : Calls, replies : 0..MaxReplies]

Init ==
  /\ fate \in Fates
  /\ main = "start" /\ callback = "null" /\ rpcChannel = "null"
  /\ latch = 1 /\ result = "null" /\ setup = "no"
  /\ connected = "not yet"
  /\ pc = [c \in Calls |-> "idle"]
  /\ id = 1
  /\ callId = [c \in Calls |-> 0]
  /\ outstandings = [i \in {} |-> None]
  /\ response = [c \in Calls |-> None]
  /\ inHand = {}
  /\ notifying = "no" /\ toVisit = {}
  /\ toServer = <<>> /\ toClient = <<>>
  /\ invocations = {}

-----------------------------------------------------------------------------
(* RpcClient.blockingConnect and the connection. *)

restOfConnect == <<connected, callVars, outstandings, response, inHand, notifying,
                   toVisit, toServer, toClient, invocations>>

(* startConnect: bootstrap.connect ... *)
StartConnect ==
  /\ main = "start"
  /\ main' = "connecting"
  /\ UNCHANGED <<fate, callback, rpcChannel, latch, result, setup, restOfConnect>>

(* ... and only then the callback, which the IO thread may already want. *)
SetCallback ==
  /\ main = "connecting"
  /\ main' = "awaiting"
  /\ callback' = "set"
  /\ UNCHANGED <<fate, rpcChannel, latch, result, setup, restOfConnect>>

(* channelConnected, on the IO thread: rpcChannel = new RpcChannel. *)
ChannelConnected ==
  /\ main # "start"
  /\ connected = "not yet"
  /\ connected' = "yes"
  /\ rpcChannel' = "set"
  /\ setup' = "assigned"
  /\ UNCHANGED <<fate, main, callback, latch, result, callVars, outstandings, response,
                 inHand, notifying, toVisit, toServer, toClient, invocations>>

(* setupNewChannel: the handler and the services, then the callback, if    *)
(* there is one by now.                                                    *)
SetupNewChannel ==
  /\ setup = "assigned"
  /\ setup' = "done"
  /\ latch' = IF callback = "set" THEN 0 ELSE latch
  /\ UNCHANGED <<fate, main, callback, rpcChannel, result, restOfConnect>>

(* latch.await returns when the latch is open or after 5 seconds.          *)
BlockingConnectReturns ==
  /\ main = "awaiting"
  /\ main' = "returned"
  /\ result' = rpcChannel
  /\ UNCHANGED <<fate, callback, rpcChannel, latch, setup, restOfConnect>>

(* The connection is closed, by either side (Netty). *)
ChannelClosed ==
  /\ connected = "yes"
  /\ setup = "done"
  /\ connected' = "no more"
  /\ UNCHANGED <<connectVars, callVars, outstandings, response, inHand, notifying,
                 toVisit, toServer, toClient, invocations>>

-----------------------------------------------------------------------------
(* callBlockingMethod. *)

restOfCall == <<connectVars, connected, inHand, notifying, toVisit, toClient, invocations>>

(* id.getAndIncrement() *)
NumberCall(c) ==
  /\ pc[c] = "idle"
  /\ result = "set"
  /\ callId' = [callId EXCEPT ![c] = id]
  /\ id' = id + 1
  /\ pc' = [pc EXCEPT ![c] = "numbered"]
  /\ UNCHANGED <<outstandings, response, toServer, restOfCall>>

(* outstandings.put *)
PutCall(c) ==
  /\ pc[c] = "numbered"
  /\ outstandings' = [i \in DOMAIN outstandings \cup {callId[c]} |->
                        IF i = callId[c] THEN c ELSE outstandings[i]]
  /\ pc' = [pc EXCEPT ![c] = "registered"]
  /\ UNCHANGED <<id, callId, response, toServer, restOfCall>>

(* channel.write *)
WriteRequest(c) ==
  /\ pc[c] = "registered"
  /\ toServer' = IF connected = "yes"
                   THEN Append(toServer, [id |-> callId[c], body |-> c])
                   ELSE toServer
  /\ pc' = [pc EXCEPT ![c] = "entering"]
  /\ UNCHANGED <<id, callId, outstandings, response, restOfCall>>

(* Mutant: the loop does not look at the connection. *)
WaitsAnyway(c) == response[c] = None

(* while (done.response == null && isConnected()) *)
Waits(c) == response[c] = None /\ connected = "yes"

(* With the monitor of done: the test of the loop. *)
TestLoop(c) ==
  /\ pc[c] = "entering"
  /\ pc' = [pc EXCEPT ![c] = IF Waits(c) THEN "decided" ELSE "returned"]
  /\ UNCHANGED <<id, callId, outstandings, response, toServer, restOfCall>>

(* done.wait(): sleep and release the monitor. *)
Wait(c) ==
  /\ pc[c] = "decided"
  /\ pc' = [pc EXCEPT ![c] = "waiting"]
  /\ UNCHANGED <<id, callId, outstandings, response, toServer, restOfCall>>

(* InterruptedException is swallowed, the loop goes on. *)
Interrupted(c) ==
  /\ pc[c] = "waiting"
  /\ pc' = [pc EXCEPT ![c] = "entering"]
  /\ UNCHANGED <<id, callId, outstandings, response, toServer, restOfCall>>

(* Mutant: without synchronized. *)
MonitorIgnored(c) == TRUE

(* synchronized (done): nobody is between the test of the loop and wait(). *)
MonitorFree(c) == pc[c] # "decided"

Notified(c) == [pc EXCEPT ![c] = IF @ = "waiting" THEN "entering" ELSE @]

-----------------------------------------------------------------------------
(* messageReceived on the client. *)

(* Mutant: get instead of remove. *)
KeepsEntry(f, i) == f

(* outstandings.remove *)
WithoutEntry(f, i) == [j \in DOMAIN f \ {i} |-> f[j]]

(* outstandings.remove for a RESPONSE; an unknown id and an ERROR are      *)
(* dropped.                                                                *)
TakeMessage ==
  /\ connected = "yes"
  /\ inHand = {}
  /\ toClient # <<>>
  /\ LET m == Head(toClient)
         known == m.type = "RESPONSE" /\ m.id \in DOMAIN outstandings
     IN  /\ inHand' = IF known THEN {<<outstandings[m.id], m>>} ELSE {}
         /\ outstandings' = IF known THEN WithoutEntry(outstandings, m.id) ELSE outstandings
  /\ toClient' = Tail(toClient)
  /\ UNCHANGED <<connectVars, connected, callVars, response, notifying, toVisit,
                 toServer, invocations>>

(* fromByteString, which gives null for bytes that do not parse, then      *)
(* BlockingRpcCallback.run: with the monitor, store and notify.            *)
RunCallback ==
  \E h \in inHand :
    /\ MonitorFree(h[1])
    /\ response' = [response EXCEPT ![h[1]] = IF fate[h[2].body] = "garbled" THEN None ELSE h[2].body]
    /\ pc' = Notified(h[1])
    /\ inHand' = {}
    /\ UNCHANGED <<connectVars, connected, id, callId, outstandings, notifying, toVisit,
                   toServer, toClient, invocations>>

-----------------------------------------------------------------------------
(* disconnected(): visit the outstanding calls, each under its monitor.    *)
(* Entries put after the start of the iteration may be missed; here they   *)
(* always are.                                                             *)

StartNotifying ==
  /\ connected = "no more"
  /\ notifying = "no"
  /\ notifying' = "running"
  /\ toVisit' = {outstandings[i] : i \in DOMAIN outstandings}
  /\ UNCHANGED <<connectVars, connected, callVars, outstandings, response, inHand,
                 toServer, toClient, invocations>>

NotifyOne ==
  /\ notifying = "running"
  /\ \E c \in toVisit :
       /\ MonitorFree(c)
       /\ pc' = Notified(c)
       /\ toVisit' = toVisit \ {c}
  /\ UNCHANGED <<connectVars, connected, id, callId, outstandings, response, inHand,
                 notifying, toServer, toClient, invocations>>

NotifyingOver ==
  /\ notifying = "running"
  /\ toVisit = {}
  /\ notifying' = "over"
  /\ UNCHANGED <<connectVars, connected, callVars, outstandings, response, inHand,
                 toVisit, toServer, toClient, invocations>>

-----------------------------------------------------------------------------
(* The server: doRequest and done. *)

(* Service and method are found: doCall.  Otherwise the ERROR that is      *)
(* built has no id, a required field, so build() throws and nothing is     *)
(* sent.                                                                   *)
DoRequest ==
  /\ toServer # <<>>
  /\ toServer' = Tail(toServer)
  /\ LET m == Head(toServer) IN
       invocations' = IF fate[m.body] = "unknown" THEN invocations
                      ELSE invocations \cup {[id |-> m.id, body |-> m.body, replies |-> 0]}
  /\ UNCHANGED <<connectVars, connected, callVars, outstandings, response, inHand,
                 notifying, toVisit, toClient>>

(* done(response, id): a RESPONSE, or an ERROR for null. *)
ServerDone(v) ==
  /\ v.replies < MaxReplies
  /\ invocations' = (invocations \ {v}) \cup {[v EXCEPT !.replies = @ + 1]}
  /\ toClient' = IF connected = "yes"
       THEN Append(toClient, [type |-> IF fate[v.body] = "null" THEN "ERROR" ELSE "RESPONSE",
                              id |-> v.id, body |-> v.body])
       ELSE toClient
  /\ UNCHANGED <<connectVars, connected, callVars, outstandings, response, inHand,
                 notifying, toVisit, toServer>>

-----------------------------------------------------------------------------
Caller(c) == NumberCall(c) \/ PutCall(c) \/ WriteRequest(c) \/ TestLoop(c) \/ Wait(c)
IOThread == ChannelConnected \/ SetupNewChannel \/ TakeMessage \/ RunCallback
Disconnected == StartNotifying \/ NotifyOne \/ NotifyingOver
BlockingConnect == StartConnect \/ SetCallback \/ BlockingConnectReturns

Next ==
  \/ BlockingConnect
  \/ IOThread
  \/ ChannelClosed
  \/ \E c \in Calls : Caller(c) \/ Interrupted(c)
  \/ Disconnected
  \/ DoRequest
  \/ \E v \in invocations : ServerDone(v)

Spec == Init /\ [][Next]_vars

(* Threads that can run do; the server reads its requests and its services *)
(* answer at least once.  A connection attempt may fail, a connection may  *)
(* last for ever, nobody need be interrupted.  Fairness is strong where a  *)
(* step needs a monitor: a thread that keeps asking for one is not passed  *)
(* over for ever by a caller that is interrupted again and again.          *)
Fairness ==
  /\ WF_vars(BlockingConnect)
  /\ WF_vars(SetupNewChannel \/ TakeMessage)
  /\ SF_vars(RunCallback)
  /\ \A c \in Calls : WF_vars(Caller(c))
  /\ SF_vars(Disconnected)
  /\ WF_vars(DoRequest)
  /\ \A c \in Calls : WF_vars(\E v \in invocations : v.body = c /\ v.replies = 0 /\ ServerDone(v))

FairSpec == Spec /\ Fairness

-----------------------------------------------------------------------------
(* Properties. *)

(* The callback of blockingConnect asserts that the channel it is given is *)
(* RpcClient.this.rpcChannel: whoever is woken by the latch finds it.      *)
CallbackSeesChannel == latch = 0 => rpcChannel = "set"

(* A call never returns, nor holds, the response to another one. *)
OwnResponse == \A c \in Calls : response[c] \in {None, c}

(* No wake-up is lost: a thread that sleeps although its answer is there,  *)
(* or although the connection is gone, will still be visited, except if    *)
(* its response did not parse and its entry is gone with it.               *)
NoLostWakeup ==
  \A c \in Calls : pc[c] = "waiting" =>
    /\ response[c] = None
    /\ (connected = "no more" /\ notifying # "no") =>
         \/ c \in toVisit
         \/ \E h \in inHand : h[1] = c
         \/ fate[c] = "garbled" /\ callId[c] \notin DOMAIN outstandings

(* A call that ended with its answer left nothing in outstandings, however *)
(* often the server answered.                                              *)
NoLeftover ==
  \A i \in DOMAIN outstandings :
    /\ callId[outstandings[i]] = i
    /\ response[outstandings[i]] = None

(* A blocking call of a method that answers returns, with the answer or    *)
(* because the connection closed: it never sleeps for ever.                *)
PlainCallsReturn ==
  \A c \in Calls : (fate[c] = "plain" /\ pc[c] = "registered") ~> (pc[c] = "returned")

(* A closed connection releases every caller, whatever the server did with *)
(* the request, unless its response came and did not parse.                *)
CloseReleases ==
  \A c \in Calls :
    (fate[c] # "garbled" /\ connected = "no more" /\ pc[c] # "idle") ~> (pc[c] = "returned")

(* A blocking call does not sleep for ever. *)
CallsReturn == PlainCallsReturn /\ CloseReleases

(* Answers are matched to their calls, whatever the order of the threads:  *)
(* none is given to another call, none leaves an entry behind, and nobody  *)
(* is told of a connection before its channel is there.                    *)
AnswersMatched == TypeOK /\ CallbackSeesChannel /\ OwnResponse /\ NoLeftover
=============================================================================
