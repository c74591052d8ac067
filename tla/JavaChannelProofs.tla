------------------------- MODULE JavaChannelProofs -------------------------
(***************************************************************************)
(* Proofs about JavaChannel for every set of calls, every assignment of    *)
(* fates and every number of replies.                                      *)
(***************************************************************************)
EXTENDS JavaChannel, FiniteSetTheorems, SequenceTheorems, TLAPS

(* The IO thread has at most one message in its hands. *)
OneInHand == inHand = {} \/ \E h \in inHand : inHand = {h}

(* The channel is there before anybody is told of it, and the loop of      *)
(* disconnected() starts after the connection is gone.                     *)
Connects ==
  /\ latch = 0 \/ setup # "no" => rpcChannel = "set"
  /\ notifying # "no" => connected = "no more"

(* Progress of a call. *)
Put(c) == pc[c] \notin {"idle", "numbered"}
Sent(c) == pc[c] \notin {"idle", "numbered", "registered"}

(* Calls have different ids, all below the next one. *)
Numbered ==
  /\ id >= 1
  /\ \A c \in Calls : pc[c] # "idle" => callId[c] >= 1 /\ callId[c] < id
  /\ \A c, d \in Calls :
       pc[c] # "idle" /\ pc[d] # "idle" /\ callId[c] = callId[d] => c = d

(* Whatever travels has the id of the call that it is about. *)
Own(m) == Sent(m.body) /\ m.id = callId[m.body]

Matched ==
  /\ \A i \in 1..Len(toServer) : Own(toServer[i])
  /\ \A i \in 1..Len(toClient) : Own(toClient[i])
  /\ \A v \in invocations : Own(v)
  /\ \A h \in inHand : /\ h[1] = h[2].body /\ Own(h[2])
                       /\ callId[h[1]] \notin DOMAIN outstandings

(* An entry is that of a call that was put and has no answer yet. *)
Entered ==
  /\ \A i \in DOMAIN outstandings :
       /\ callId[outstandings[i]] = i
       /\ Put(outstandings[i])
       /\ response[outstandings[i]] = None
  /\ \A c \in Calls : response[c] = None \/ (response[c] = c /\ Sent(c))

(* A call that was put has its entry, is in the hands of the IO thread, or *)
(* has been completed; a thread that is about to sleep, or sleeps, has no  *)
(* answer, and will be visited after disconnected() has begun.             *)
InHand(c) == \E h \in inHand : h[1] = c

Accounted(c) ==
  \/ callId[c] \in DOMAIN outstandings
  \/ InHand(c)
  \/ response[c] # None
  \/ fate[c] = "garbled"

ToBeVisited(c) ==
  \/ c \in toVisit
  \/ InHand(c)
  \/ fate[c] = "garbled" /\ callId[c] \notin DOMAIN outstandings

Watched ==
  \A c \in Calls :
    /\ Put(c) => Accounted(c)
    /\ pc[c] \in {"decided", "waiting"} =>
         response[c] = None /\ (notifying # "no" => ToBeVisited(c))

Core == Numbered /\ Matched /\ Entered /\ Watched
IndInv == TypeOK /\ OneInHand /\ Connects /\ Core

-----------------------------------------------------------------------------
(* Streams after an append and after a removal. *)
LEMMA Appended ==
  ASSUME NEW S, NEW s \in Seq(S), NEW e \in S
  PROVE  /\ Append(s, e) \in Seq(S)
         /\ \A i \in 1..Len(Append(s, e)) :
              (i \in 1..Len(s) /\ Append(s, e)[i] = s[i]) \/ Append(s, e)[i] = e
  OBVIOUS

LEMMA Removed ==
  ASSUME NEW S, NEW s \in Seq(S), s # <<>>
  PROVE  /\ Tail(s) \in Seq(S) /\ Head(s) \in S
         /\ 1 \in 1..Len(s) /\ Head(s) = s[1]
         /\ \A i \in 1..Len(Tail(s)) : i + 1 \in 1..Len(s) /\ Tail(s)[i] = s[i + 1]
  OBVIOUS

(* What TypeOK says of the messages. *)
LEMMA MessageFacts ==
  ASSUME TypeOK
  PROVE  /\ toServer \in Seq(Requests) /\ toClient \in Seq(Replies)
         /\ \A i \in 1..Len(toServer) : toServer[i].body \in Calls
         /\ \A i \in 1..Len(toClient) : toClient[i].body \in Calls
         /\ \A v \in invocations : v.body \in Calls
         /\ \A h \in inHand : h[1] \in Calls /\ h[2].body \in Calls
<1>1. toServer \in Seq(Requests) /\ toClient \in Seq(Replies)
  BY DEF TypeOK
<1>2. \A i \in 1..Len(toServer) : toServer[i] \in Requests
  BY <1>1
<1>3. \A i \in 1..Len(toClient) : toClient[i] \in Replies
  BY <1>1
<1>4. \A v \in invocations : v.body \in Calls
  BY DEF TypeOK
<1>5. \A h \in inHand : h[1] \in Calls /\ h[2].body \in Calls
  BY DEF TypeOK, Replies
<1> QED BY <1>1, <1>2, <1>3, <1>4, <1>5 DEF Requests, Replies

LEMMA OneIsFew ==
  ASSUME NEW S, S = {} \/ \E h \in S : S = {h}
  PROVE  Cardinality(S) <= 1
<1>1. CASE S = {}
  BY <1>1, FS_EmptySet
<1>2. CASE \E h \in S : S = {h}
  <2>1. PICK h \in S : S = {h}
    BY <1>2
  <2>2. Cardinality({h}) = 1
    BY FS_Singleton
  <2> QED BY <2>1, <2>2
<1> QED BY <1>1, <1>2

(* The core of the invariant speaks of these variables only. *)
LEMMA SameCore ==
  ASSUME Core, UNCHANGED <<fate, pc, id, callId, outstandings, response, inHand, notifying,
                           toVisit, toServer, toClient, invocations>>
  PROVE  Core'
<1>1. Numbered'
  BY DEF Core, Numbered
<1>2. Matched'
  BY DEF Core, Matched, Own, Sent
<1>3. Entered'
  BY DEF Core, Entered, Put, Sent
<1>4. Watched'
  BY DEF Core, Watched, Put, Accounted, ToBeVisited, InHand
<1> QED BY <1>1, <1>2, <1>3, <1>4 DEF Core

-----------------------------------------------------------------------------
LEMMA IndInit == Init => IndInv
<1> SUFFICES ASSUME Init PROVE IndInv
  OBVIOUS
<1>0. OneInHand
  BY DEF Init, OneInHand
<1>1. TypeOK
  <2>1. Cardinality(inHand) <= 1
    BY <1>0, OneIsFew DEF OneInHand
  <2>2. DOMAIN outstandings = {} /\ outstandings \in [DOMAIN outstandings -> Calls]
    BY DEF Init
  <2>3. toServer \in Seq(Requests) /\ toClient \in Seq(Replies)
    <3>1. toServer = <<>> /\ toClient = <<>>
      BY DEF Init
    <3> QED BY <3>1
  <2> QED BY <2>1, <2>2, <2>3 DEF Init, TypeOK, None
<1>2. Connects
  <2>1. latch = 1 /\ setup = "no" /\ notifying = "no"
    BY DEF Init
  <2> QED BY <2>1 DEF Connects
<1>3. Core
  <2>1. Numbered
    <3>1. id = 1 /\ \A c \in Calls : pc[c] = "idle"
      BY DEF Init
    <3> QED BY <3>1 DEF Numbered
  <2>2. Matched
    <3>1. toServer = <<>> /\ toClient = <<>> /\ inHand = {} /\ invocations = {}
      BY DEF Init
    <3> QED BY <3>1 DEF Matched
  <2>3. Entered
    BY DEF Init, Entered
  <2>4. Watched
    BY DEF Init, Watched, Put
  <2> QED BY <2>1, <2>2, <2>3, <2>4 DEF Core
<1> QED BY <1>0, <1>1, <1>2, <1>3 DEF IndInv

(* Connecting and closing. *)
LEMMA IndConnect ==
  ASSUME IndInv, BlockingConnect \/ ChannelConnected \/ SetupNewChannel \/ ChannelClosed
  PROVE  IndInv'
<1> USE DEF BlockingConnect, StartConnect, SetCallback, BlockingConnectReturns,
            ChannelConnected, SetupNewChannel, ChannelClosed
<1>1. UNCHANGED <<fate, pc, id, callId, outstandings, response, inHand, notifying,
                  toVisit, toServer, toClient, invocations>>
  BY DEF restOfConnect, connectVars, callVars
<1>2. Core'
  BY <1>1, SameCore DEF IndInv
<1>3. Connects'
  BY <1>1 DEF IndInv, TypeOK, Connects, restOfConnect, connectVars
<1>4. OneInHand'
  BY <1>1 DEF IndInv, OneInHand
<1>5. /\ main' \in {"start", "connecting", "awaiting", "returned"}
      /\ callback' \in {"null", "set"} /\ rpcChannel' \in {"null", "set"}
      /\ latch' \in {0, 1} /\ result' \in {"null", "set"}
      /\ setup' \in {"no", "assigned", "done"}
      /\ connected' \in {"not yet", "yes", "no more"}
  BY DEF IndInv, TypeOK, restOfConnect, connectVars
<1>6. TypeOK'
  BY <1>1, <1>5 DEF IndInv, TypeOK
<1> QED BY <1>2, <1>3, <1>4, <1>6 DEF IndInv

-----------------------------------------------------------------------------
(* The steps of a caller. *)

LEMMA IndNumberCall ==
  ASSUME IndInv, NEW c \in Calls, NumberCall(c)
  PROVE  IndInv'
<1> USE DEF IndInv, Core
<1>1. /\ pc[c] = "idle" /\ pc' = [pc EXCEPT ![c] = "numbered"]
      /\ callId' = [callId EXCEPT ![c] = id] /\ id' = id + 1
      /\ UNCHANGED <<outstandings, response, toServer, inHand, notifying, toVisit, toClient,
                     invocations, connected>>
      /\ UNCHANGED <<fate, main, callback, rpcChannel, latch, result, setup>>
  BY DEF NumberCall, restOfCall, connectVars
<1>2. /\ pc'[c] = "numbered" /\ callId'[c] = id /\ id \in Nat
      /\ \A d \in Calls \ {c} : pc'[d] = pc[d] /\ callId'[d] = callId[d]
      /\ \A d \in Calls : callId[d] \in Nat
  BY <1>1 DEF TypeOK
<1>3. TypeOK' /\ OneInHand' /\ Connects'
  <2>1. pc' \in [Calls -> {"idle", "numbered", "registered", "entering", "decided",
                           "waiting", "returned"}]
    BY <1>1 DEF TypeOK
  <2>2. callId \in [Calls -> Nat] /\ id \in Nat
    BY DEF TypeOK
  <2>4. callId' \in [Calls -> Nat] /\ id' \in Nat
    BY <1>1, <2>2
  <2>3. DOMAIN outstandings' \subseteq 1..id'
    <3>1. DOMAIN outstandings \subseteq 1..id /\ UNCHANGED outstandings
      BY <1>1 DEF TypeOK
    <3> QED BY <1>1, <1>2, <3>1
  <2> QED BY <1>1, <2>1, <2>3, <2>4, ZenonT(60) DEF TypeOK, OneInHand, Connects
<1>4. Numbered'
  BY <1>1, <1>2 DEF Numbered
<1>5. \A d \in Calls : /\ Sent(d)' <=> Sent(d)
                       /\ Put(d)' <=> Put(d)
                       /\ Put(d) \/ Sent(d) => d # c /\ callId'[d] = callId[d]
  BY <1>1, <1>2 DEF Sent, Put
<1>6. Matched'
  BY <1>1, <1>5, MessageFacts DEF Matched, Own
<1>7. Entered'
  <2>1. \A i \in DOMAIN outstandings : outstandings[i] \in Calls
    BY DEF TypeOK
  <2> QED BY <1>1, <1>5, <2>1 DEF Entered
<1>8. Watched'
  <2>1. \A d \in Calls : Put(d) => Accounted(d)' /\ pc'[d] = pc[d] /\ (ToBeVisited(d)' <=> ToBeVisited(d))
    BY <1>1, <1>2, <1>5 DEF Watched, Accounted, ToBeVisited, InHand
  <2>2. \A d \in Calls : pc'[d] \in {"decided", "waiting"} => Put(d)
    BY <1>1, <1>2 DEF Put
  <2> QED BY <1>1, <1>5, <2>1, <2>2 DEF Watched
<1> QED BY <1>3, <1>4, <1>6, <1>7, <1>8

LEMMA IndPutCall ==
  ASSUME IndInv, NEW c \in Calls, PutCall(c)
  PROVE  IndInv'
<1> USE DEF IndInv, Core
<1>1. /\ pc[c] = "numbered" /\ pc' = [pc EXCEPT ![c] = "registered"]
      /\ outstandings' = [i \in DOMAIN outstandings \cup {callId[c]} |->
                            IF i = callId[c] THEN c ELSE outstandings[i]]
      /\ UNCHANGED <<id, callId, response, toServer, inHand, notifying, toVisit, toClient,
                     invocations, connected>>
      /\ UNCHANGED <<fate, main, callback, rpcChannel, latch, result, setup>>
  BY DEF PutCall, restOfCall, connectVars
<1>2. /\ pc'[c] = "registered" /\ callId[c] \in 1..id
      /\ \A d \in Calls \ {c} : pc'[d] = pc[d] /\ (pc[d] # "idle" => callId[d] # callId[c])
  <2>1. pc'[c] = "registered" /\ \A d \in Calls \ {c} : pc'[d] = pc[d]
    BY <1>1 DEF TypeOK
  <2>2. id \in Nat /\ callId[c] \in Nat
    BY DEF TypeOK
  <2>3. callId[c] >= 1 /\ callId[c] < id /\ \A d \in Calls \ {c} : pc[d] # "idle" => callId[d] # callId[c]
    BY <1>1 DEF Numbered
  <2> QED BY <2>1, <2>2, <2>3
<1>3. /\ DOMAIN outstandings' = DOMAIN outstandings \cup {callId[c]}
      /\ outstandings'[callId[c]] = c
      /\ \A i \in DOMAIN outstandings : i # callId[c] => outstandings'[i] = outstandings[i]
      /\ \A i \in DOMAIN outstandings : outstandings[i] \in Calls
  BY <1>1 DEF TypeOK
<1>4. TypeOK' /\ OneInHand' /\ Connects'
  <2>1. pc' \in [Calls -> {"idle", "numbered", "registered", "entering", "decided",
                           "waiting", "returned"}]
    BY <1>1 DEF TypeOK
  <2>2. outstandings' \in [DOMAIN outstandings' -> Calls]
    BY <1>1, <1>3
  <2>3. DOMAIN outstandings' \subseteq 1..id'
    BY <1>1, <1>2, <1>3 DEF TypeOK
  <2> QED BY <1>1, <2>1, <2>2, <2>3, ZenonT(60) DEF TypeOK, OneInHand, Connects
<1>5. Numbered'
  BY <1>1, <1>2 DEF Numbered
<1>6. \A d \in Calls : /\ Sent(d)' <=> Sent(d)
                       /\ Put(d)' <=> Put(d) \/ d = c
                       /\ ~Sent(c) /\ ~Put(c)
                       /\ Sent(d) => pc[d] # "idle" /\ d # c
  BY <1>1, <1>2 DEF Sent, Put
<1>7. Matched'
  <2>1. \A h \in inHand : callId[h[1]] # callId[c]
    BY <1>2, <1>6, MessageFacts DEF Matched, Own
  <2> QED BY <1>1, <1>3, <1>6, <2>1, MessageFacts DEF Matched, Own
<1>8. Entered'
  BY <1>1, <1>3, <1>6 DEF Entered
<1>9. Watched'
  <2>1. Accounted(c)' /\ \A d \in Calls : Accounted(d) => Accounted(d)'
    BY <1>1, <1>3 DEF Accounted, InHand
  <2>2. \A d \in Calls : pc'[d] \in {"decided", "waiting"} => pc[d] = pc'[d] /\ d # c /\ pc[d] # "idle"
    BY <1>1, <1>2
  <2>3. \A d \in Calls : pc'[d] \in {"decided", "waiting"} /\ ToBeVisited(d) => ToBeVisited(d)'
    BY <1>1, <1>2, <1>3, <2>2 DEF ToBeVisited, InHand
  <2> QED BY <1>1, <1>6, <2>1, <2>2, <2>3 DEF Watched
<1> QED BY <1>4, <1>5, <1>7, <1>8, <1>9

LEMMA IndWriteRequest ==
  ASSUME IndInv, NEW c \in Calls, WriteRequest(c)
  PROVE  IndInv'
<1> USE DEF IndInv, Core
<1> DEFINE m == [id |-> callId[c], body |-> c]
<1>1. /\ pc[c] = "registered" /\ pc' = [pc EXCEPT ![c] = "entering"]
      /\ toServer' = toServer \/ toServer' = Append(toServer, m)
      /\ UNCHANGED <<id, callId, outstandings, response, inHand, notifying, toVisit, toClient,
                     invocations, connected>>
      /\ UNCHANGED <<fate, main, callback, rpcChannel, latch, result, setup>>
  BY DEF WriteRequest, restOfCall, connectVars
<1>2. /\ pc'[c] = "entering"
      /\ \A d \in Calls \ {c} : pc'[d] = pc[d]
  BY <1>1 DEF TypeOK
<1>3. m \in Requests /\ m.id = callId[c] /\ m.body = c
  BY DEF TypeOK, Requests
<1> HIDE DEF m
<1>4. /\ toServer' \in Seq(Requests)
      /\ \A i \in 1..Len(toServer') :
           (i \in 1..Len(toServer) /\ toServer'[i] = toServer[i]) \/ toServer'[i] = m
  <2>1. toServer \in Seq(Requests)
    BY MessageFacts
  <2>2. CASE toServer' = toServer
    BY <2>1, <2>2
  <2>3. CASE toServer' = Append(toServer, m)
    BY <1>3, <2>1, <2>3, Appended
  <2> QED BY <1>1, <2>2, <2>3
<1>5. TypeOK' /\ OneInHand' /\ Connects'
  <2>1. pc' \in [Calls -> {"idle", "numbered", "registered", "entering", "decided",
                           "waiting", "returned"}]
    BY <1>1 DEF TypeOK
  <2> QED BY <1>1, <1>4, <2>1, ZenonT(60) DEF TypeOK, OneInHand, Connects
<1>6. Numbered'
  BY <1>1, <1>2 DEF Numbered
<1>7. /\ Sent(c)' /\ Put(c) /\ Put(c)'
      /\ \A d \in Calls : (Sent(d) => Sent(d)') /\ (Put(d)' <=> Put(d))
  BY <1>1, <1>2 DEF Sent, Put
<1>8. Matched'
  <2>1. \A i \in 1..Len(toServer') : Own(toServer[i])'
    <3> SUFFICES ASSUME NEW i \in 1..Len(toServer') PROVE Own(toServer[i])'
      OBVIOUS
    <3>1. CASE i \in 1..Len(toServer) /\ toServer'[i] = toServer[i]
      <4>1. toServer[i].body \in Calls /\ Own(toServer[i])
        BY <3>1, MessageFacts DEF Matched
      <4> QED BY <1>1, <1>7, <3>1, <4>1 DEF Own
    <3>2. CASE toServer'[i] = m
      BY <1>1, <1>3, <1>7, <3>2 DEF Own
    <3> QED BY <1>4, <3>1, <3>2
  <2>2. \A i \in 1..Len(toClient) : Own(toClient[i])'
    BY <1>1, <1>7, MessageFacts DEF Matched, Own
  <2>3. \A v \in invocations : Own(v)'
    BY <1>1, <1>7, MessageFacts DEF Matched, Own
  <2>4. \A h \in inHand : /\ h[1] = h[2].body /\ Own(h[2])'
                          /\ callId[h[1]] \notin DOMAIN outstandings
    BY <1>1, <1>7, MessageFacts DEF Matched, Own
  <2> QED BY <1>1, <2>1, <2>2, <2>3, <2>4 DEF Matched
<1>9. Entered'
  <2>1. \A i \in DOMAIN outstandings : outstandings[i] \in Calls
    BY DEF TypeOK
  <2> QED BY <1>1, <1>7, <2>1 DEF Entered
<1>10. Watched'
  <2>1. \A d \in Calls : pc'[d] \in {"decided", "waiting"} => pc[d] = pc'[d]
    BY <1>1, <1>2
  <2> QED BY <1>1, <1>7, <2>1 DEF Watched, Accounted, ToBeVisited, InHand
<1> QED BY <1>5, <1>6, <1>8, <1>9, <1>10

(* A call that has sent its request changes its place in the loop: it goes *)
(* to sleep only if it was about to or has just seen that there is no      *)
(* answer and that the connection is up.                                   *)
LEMMA IndLoop ==
  ASSUME IndInv, NEW c \in Calls,
         NEW x \in {"entering", "decided", "waiting", "returned"},
         Sent(c), pc' = [pc EXCEPT ![c] = x],
         x \in {"decided", "waiting"} => pc[c] = "decided" \/ Waits(c),
         UNCHANGED <<id, callId, outstandings, response, toServer, restOfCall>>
  PROVE  IndInv'
<1> USE DEF IndInv, Core
<1>1. /\ UNCHANGED <<id, callId, outstandings, response, inHand, notifying, toVisit, toServer, toClient,
                     invocations, connected>>
      /\ UNCHANGED <<fate, main, callback, rpcChannel, latch, result, setup>>
  BY DEF restOfCall, connectVars
<1>2. pc'[c] = x /\ \A d \in Calls \ {c} : pc'[d] = pc[d]
  BY DEF TypeOK
<1>3. \A d \in Calls : (Sent(d)' <=> Sent(d)) /\ (Put(d)' <=> Put(d))
  BY <1>2 DEF Sent, Put
<1>4. TypeOK' /\ OneInHand' /\ Connects'
  <2>1. pc' \in [Calls -> {"idle", "numbered", "registered", "entering", "decided",
                           "waiting", "returned"}]
    BY DEF TypeOK
  <2> QED BY <1>1, <2>1, ZenonT(60) DEF TypeOK, OneInHand, Connects
<1>5. Numbered'
  BY <1>1, <1>2, <1>3 DEF Numbered, Sent
<1>6. Matched'
  BY <1>1, <1>3, MessageFacts DEF Matched, Own
<1>7. Entered'
  <2>1. \A i \in DOMAIN outstandings : outstandings[i] \in Calls
    BY DEF TypeOK
  <2> QED BY <1>1, <1>3, <2>1 DEF Entered
<1>8. Watched'
  <2>1. \A d \in Calls : /\ Accounted(d)' <=> Accounted(d)
                         /\ ToBeVisited(d)' <=> ToBeVisited(d)
    BY <1>1 DEF Accounted, ToBeVisited, InHand
  <2>2. x \in {"decided", "waiting"} => response[c] = None /\ (notifying # "no" => ToBeVisited(c))
    BY DEF Watched, Waits, Connects
  <2> QED BY <1>1, <1>2, <1>3, <2>1, <2>2 DEF Watched
<1> QED BY <1>4, <1>5, <1>6, <1>7, <1>8

LEMMA IndWaiting ==
  ASSUME IndInv, NEW c \in Calls, TestLoop(c) \/ Wait(c) \/ Interrupted(c)
  PROVE  IndInv'
<1>1. Sent(c)
  BY DEF TestLoop, Wait, Interrupted, Sent
<1>2. CASE TestLoop(c)
  BY <1>1, <1>2, IndLoop DEF TestLoop
<1>3. CASE Wait(c)
  BY <1>1, <1>3, IndLoop DEF Wait
<1>4. CASE Interrupted(c)
  BY <1>1, <1>4, IndLoop DEF Interrupted
<1> QED BY <1>2, <1>3, <1>4

-----------------------------------------------------------------------------
(* The IO thread. *)

LEMMA IndTakeMessage ==
  ASSUME IndInv, TakeMessage
  PROVE  IndInv'
<1> USE DEF IndInv, Core
<1> DEFINE m == Head(toClient)
           known == m.type = "RESPONSE" /\ m.id \in DOMAIN outstandings
           c == outstandings[m.id]
<1>1. /\ connected = "yes" /\ inHand = {} /\ toClient # <<>> /\ toClient' = Tail(toClient)
      /\ inHand' = IF known THEN {<<c, m>>} ELSE {}
      /\ outstandings' = IF known THEN WithoutEntry(outstandings, m.id) ELSE outstandings
      /\ UNCHANGED <<pc, id, callId, response, notifying, toVisit, toServer,
                     invocations, connected>>
      /\ UNCHANGED <<fate, main, callback, rpcChannel, latch, result, setup>>
  BY DEF TakeMessage, connectVars, callVars
<1>2. /\ toClient' \in Seq(Replies) /\ m \in Replies /\ m.body \in Calls /\ Own(m)
      /\ \A i \in 1..Len(toClient') : i + 1 \in 1..Len(toClient) /\ toClient'[i] = toClient[i + 1]
  <2>1. toClient \in Seq(Replies)
    BY MessageFacts
  <2> QED BY <1>1, <2>1, Removed, MessageFacts DEF Matched
<1> HIDE DEF m, known, c
<1>3. notifying = "no"
  BY <1>1 DEF Connects
<1>4. Numbered'
  BY <1>1 DEF Numbered
<1>5. \A i \in 1..Len(toClient') : Own(toClient[i])'
  BY <1>1, <1>2 DEF Matched, Own, Sent
<1>6. (\A i \in 1..Len(toServer) : Own(toServer[i])') /\ (\A v \in invocations : Own(v)')
  BY <1>1 DEF Matched, Own, Sent
<1>7. CASE known
  <2>1. /\ c \in Calls /\ callId[c] = m.id /\ Put(c) /\ response[c] = None
        /\ m.id \in DOMAIN outstandings
    BY <1>7 DEF known, c, Entered, TypeOK
  <2>2. c = m.body
    BY <1>2, <2>1 DEF Own, Sent, Put, Numbered
  <2>3. /\ inHand' = {<<c, m>>}
        /\ outstandings' = [j \in DOMAIN outstandings \ {m.id} |-> outstandings[j]]
    BY <1>1, <1>7 DEF WithoutEntry
  <2>4. /\ DOMAIN outstandings' = DOMAIN outstandings \ {m.id}
        /\ \A j \in DOMAIN outstandings' : outstandings'[j] = outstandings[j]
    BY <2>3
  <2>5. OneInHand'
    BY <2>3 DEF OneInHand
  <2>6. TypeOK'
    <3>1. Cardinality(inHand') <= 1
      BY <2>3, OneIsFew
    <3>2. inHand' \subseteq (Calls \X Replies)
      BY <1>2, <2>1, <2>3
    <3>3. outstandings' \in [DOMAIN outstandings' -> Calls] /\ DOMAIN outstandings' \subseteq 1..id'
      BY <1>1, <2>3, <2>4 DEF TypeOK
    <3> QED BY <1>1, <1>2, <3>1, <3>2, <3>3 DEF TypeOK
  <2>7. Matched'
    <3>1. \A h \in inHand' : h[1] = c /\ h[2] = m
      BY <2>3
    <3>2. callId[c] \notin DOMAIN outstandings'
      BY <2>1, <2>4
    <3>3. \A h \in inHand' : h[1] = h[2].body /\ callId'[h[1]] \notin DOMAIN outstandings'
      BY <1>1, <2>2, <3>1, <3>2
    <3>4. \A h \in inHand' : Sent(h[2].body)' /\ h[2].id = callId'[h[2].body]
      BY <1>1, <1>2, <3>1 DEF Own, Sent
    <3> QED BY <1>1, <1>5, <1>6, <3>3, <3>4 DEF Matched, Own
  <2>8. Entered'
    BY <1>1, <2>4 DEF Entered, Put, Sent
  <2>9. Watched'
    <3>1. \E h \in inHand' : h[1] = c
      BY <2>3
    <3>2. \A d \in Calls : Put(d) /\ d # c => callId[d] # m.id
      BY <2>1 DEF Numbered, Put
    <3>3. \A d \in Calls : Put(d) /\ Accounted(d) => Accounted(d)'
      BY <1>1, <2>4, <3>1, <3>2 DEF Accounted, InHand
    <3> QED BY <1>1, <1>3, <3>3 DEF Watched, Put
  <2> QED BY <1>1, <1>4, <2>5, <2>6, <2>7, <2>8, <2>9 DEF Connects
<1>8. CASE ~known
  <2>1. inHand' = inHand /\ outstandings' = outstandings
    BY <1>1, <1>8
  <2>2. TypeOK' /\ OneInHand' /\ Connects'
    BY <1>1, <1>2, <2>1 DEF TypeOK, OneInHand, Connects
  <2>3. Matched'
    BY <1>1, <1>5, <1>6, <2>1 DEF Matched
  <2>4. Entered'
    BY <1>1, <2>1 DEF Entered, Put, Sent
  <2>5. Watched'
    BY <1>1, <2>1 DEF Watched, Put, Accounted, ToBeVisited, InHand
  <2> QED BY <1>4, <2>2, <2>3, <2>4, <2>5
<1> QED BY <1>7, <1>8

(* The callback holds the monitor: nobody is between its test and wait().  *)
LEMMA IndRunCallback ==
  ASSUME IndInv, RunCallback
  PROVE  IndInv'
<1> USE DEF IndInv, Core
<1>1. PICK h \in inHand :
        /\ MonitorFree(h[1])
        /\ response' = [response EXCEPT ![h[1]] = IF fate[h[2].body] = "garbled" THEN None ELSE h[2].body]
        /\ pc' = Notified(h[1])
        /\ inHand' = {}
        /\ UNCHANGED <<connectVars, connected, id, callId, outstandings, notifying, toVisit,
                       toServer, toClient, invocations>>
  BY DEF RunCallback
<1> DEFINE c == h[1]
<1>2. /\ c \in Calls /\ c = h[2].body /\ Sent(c) /\ callId[c] \notin DOMAIN outstandings
      /\ pc[c] # "decided"
  BY <1>1, MessageFacts DEF Matched, Own, MonitorFree
<1>3. /\ UNCHANGED <<connected, id, callId, outstandings, notifying, toVisit, toServer, toClient,
                     invocations>>
      /\ UNCHANGED <<fate, main, callback, rpcChannel, latch, result, setup>>
  BY <1>1 DEF connectVars
<1>4. /\ response' = [response EXCEPT ![c] = IF fate[c] = "garbled" THEN None ELSE c]
      /\ pc' = [pc EXCEPT ![c] = IF pc[c] = "waiting" THEN "entering" ELSE pc[c]]
      /\ \A g \in inHand : g[1] = c
  BY <1>1, <1>2 DEF Notified, OneInHand
<1> HIDE DEF c
<1>5. /\ response'[c] = IF fate[c] = "garbled" THEN None ELSE c
      /\ \A d \in Calls \ {c} : response'[d] = response[d] /\ pc'[d] = pc[d]
      /\ pc'[c] = IF pc[c] = "waiting" THEN "entering" ELSE pc[c]
  BY <1>2, <1>4 DEF TypeOK
<1>6. \A d \in Calls : (Sent(d)' <=> Sent(d)) /\ (Put(d)' <=> Put(d)) /\ (pc'[d] = "idle" <=> pc[d] = "idle")
  BY <1>2, <1>5 DEF Sent, Put
<1>7. OneInHand' /\ Connects'
  BY <1>1, <1>3 DEF OneInHand, Connects
<1>8. TypeOK'
  <2>1. pc' \in [Calls -> {"idle", "numbered", "registered", "entering", "decided",
                           "waiting", "returned"}]
    BY <1>2, <1>4 DEF TypeOK
  <2>2. response' \in [Calls -> Calls \cup {None}]
    BY <1>2, <1>4 DEF TypeOK
  <2>3. Cardinality(inHand') <= 1 /\ inHand' \subseteq (Calls \X Replies)
    BY <1>1, OneIsFew
  <2> QED BY <1>3, <2>1, <2>2, <2>3, ZenonT(60) DEF TypeOK
<1>9. Numbered'
  BY <1>3, <1>6 DEF Numbered
<1>10. Matched'
  <2>1. \A i \in 1..Len(toServer) : Own(toServer[i])'
    BY <1>3, <1>6, MessageFacts DEF Matched, Own
  <2>2. \A i \in 1..Len(toClient) : Own(toClient[i])'
    BY <1>3, <1>6, MessageFacts DEF Matched, Own
  <2>3. \A v \in invocations : Own(v)'
    BY <1>3, <1>6, MessageFacts DEF Matched, Own
  <2> QED BY <1>1, <1>3, <2>1, <2>2, <2>3 DEF Matched
<1>11. Entered'
  <2>1. \A i \in DOMAIN outstandings : outstandings[i] \in Calls /\ outstandings[i] # c
    BY <1>2, ZenonT(60) DEF TypeOK, Entered
  <2> QED BY <1>2, <1>3, <1>5, <1>6, <2>1 DEF Entered
<1>12. Watched'
  <2>1. None # c
    BY <1>2, NullAssumption DEF None
  <2>2. \A d \in Calls : Accounted(d) => Accounted(d)'
    BY <1>2, <1>3, <1>4, <1>5, <2>1 DEF Accounted, InHand
  <2>3. \A d \in Calls : d # c /\ ToBeVisited(d) => ToBeVisited(d)'
    BY <1>3, <1>4 DEF ToBeVisited, InHand
  <2>4. pc'[c] \notin {"decided", "waiting"}
    BY <1>2, <1>5
  <2> QED BY <1>3, <1>5, <1>6, <2>2, <2>3, <2>4 DEF Watched
<1> QED BY <1>7, <1>8, <1>9, <1>10, <1>11, <1>12

-----------------------------------------------------------------------------
(* disconnected(). *)

LEMMA IndStartNotifying ==
  ASSUME IndInv, StartNotifying
  PROVE  IndInv'
<1> USE DEF IndInv, Core
<1>1. /\ connected = "no more" /\ notifying' = "running"
      /\ toVisit' = {outstandings[i] : i \in DOMAIN outstandings}
      /\ UNCHANGED <<pc, id, callId, outstandings, response, inHand, toServer, toClient,
                     invocations, connected>>
      /\ UNCHANGED <<fate, main, callback, rpcChannel, latch, result, setup>>
  BY DEF StartNotifying, connectVars, callVars
<1>2. \A i \in DOMAIN outstandings : outstandings[i] \in Calls
  BY DEF TypeOK
<1>3. TypeOK' /\ OneInHand' /\ Connects'
  BY <1>1, <1>2, ZenonT(60) DEF TypeOK, OneInHand, Connects
<1>4. Numbered' /\ Entered'
  BY <1>1 DEF Numbered, Entered, Put, Sent
<1>5. Matched'
  BY <1>1 DEF Matched, Own, Sent
<1>6. Watched'
  <2>1. \A d \in Calls : Put(d) /\ callId[d] \in DOMAIN outstandings => d \in toVisit'
    <3> SUFFICES ASSUME NEW d \in Calls, Put(d), callId[d] \in DOMAIN outstandings
                 PROVE  d \in toVisit'
      OBVIOUS
    <3>1. outstandings[callId[d]] = d
      BY <1>2 DEF Entered, Numbered, Put
    <3> QED BY <1>1, <3>1
  <2>2. \A d \in Calls : Put(d) /\ Accounted(d) /\ response[d] = None => ToBeVisited(d)'
    BY <1>1, <2>1 DEF Accounted, ToBeVisited, InHand
  <2> QED BY <1>1, <2>2 DEF Watched, Put, Accounted, InHand
<1> QED BY <1>3, <1>4, <1>5, <1>6

LEMMA IndNotifyOne ==
  ASSUME IndInv, NotifyOne
  PROVE  IndInv'
<1> USE DEF IndInv, Core
<1>1. PICK c \in toVisit : MonitorFree(c) /\ pc' = Notified(c) /\ toVisit' = toVisit \ {c}
  BY DEF NotifyOne
<1>2. /\ UNCHANGED <<id, callId, outstandings, response, inHand, notifying, toServer, toClient,
                     invocations, connected>>
      /\ UNCHANGED <<fate, main, callback, rpcChannel, latch, result, setup>>
  BY DEF NotifyOne, connectVars
<1>3. /\ c \in Calls /\ pc[c] # "decided"
      /\ pc' = [pc EXCEPT ![c] = IF pc[c] = "waiting" THEN "entering" ELSE pc[c]]
  BY <1>1 DEF TypeOK, MonitorFree, Notified
<1>4. /\ pc'[c] = IF pc[c] = "waiting" THEN "entering" ELSE pc[c]
      /\ \A d \in Calls \ {c} : pc'[d] = pc[d]
  BY <1>3 DEF TypeOK
<1>5. \A d \in Calls : (Sent(d)' <=> Sent(d)) /\ (Put(d)' <=> Put(d)) /\ (pc'[d] = "idle" <=> pc[d] = "idle")
  BY <1>4 DEF Sent, Put
<1>6. TypeOK' /\ OneInHand' /\ Connects'
  <2>1. pc' \in [Calls -> {"idle", "numbered", "registered", "entering", "decided",
                           "waiting", "returned"}]
    BY <1>3 DEF TypeOK
  <2> QED BY <1>1, <1>2, <2>1, ZenonT(60) DEF TypeOK, OneInHand, Connects
<1>7. Numbered'
  BY <1>2, <1>5 DEF Numbered
<1>8. Matched'
  BY <1>2, <1>5, MessageFacts DEF Matched, Own
<1>9. Entered'
  <2>1. \A i \in DOMAIN outstandings : outstandings[i] \in Calls
    BY DEF TypeOK
  <2> QED BY <1>2, <1>5, <2>1 DEF Entered
<1>10. Watched'
  <2>1. \A d \in Calls : Accounted(d)' <=> Accounted(d)
    BY <1>2 DEF Accounted, InHand
  <2>2. \A d \in Calls : d # c /\ ToBeVisited(d) => ToBeVisited(d)'
    BY <1>1, <1>2 DEF ToBeVisited, InHand
  <2>3. pc'[c] \notin {"decided", "waiting"}
    BY <1>3, <1>4
  <2> QED BY <1>2, <1>4, <1>5, <2>1, <2>2, <2>3 DEF Watched
<1> QED BY <1>6, <1>7, <1>8, <1>9, <1>10

LEMMA IndNotifyingOver ==
  ASSUME IndInv, NotifyingOver
  PROVE  IndInv'
<1> USE DEF IndInv, Core
<1>1. /\ notifying = "running" /\ notifying' = "over"
      /\ UNCHANGED <<pc, id, callId, outstandings, response, inHand, toVisit, toServer, toClient,
                     invocations, connected>>
      /\ UNCHANGED <<fate, main, callback, rpcChannel, latch, result, setup>>
  BY DEF NotifyingOver, connectVars, callVars
<1>2. TypeOK' /\ OneInHand' /\ Connects'
  BY <1>1 DEF TypeOK, OneInHand, Connects
<1>3. Numbered' /\ Entered'
  BY <1>1 DEF Numbered, Entered, Put, Sent
<1>4. Matched'
  BY <1>1 DEF Matched, Own, Sent
<1>5. Watched'
  BY <1>1 DEF Watched, Put, Accounted, ToBeVisited, InHand
<1> QED BY <1>2, <1>3, <1>4, <1>5

-----------------------------------------------------------------------------
(* The server. *)

LEMMA IndDoRequest ==
  ASSUME IndInv, DoRequest
  PROVE  IndInv'
<1> USE DEF IndInv, Core
<1> DEFINE m == Head(toServer)
           v == [id |-> m.id, body |-> m.body, replies |-> 0]
<1>1. /\ toServer # <<>> /\ toServer' = Tail(toServer)
      /\ invocations' = invocations \/ invocations' = invocations \cup {v}
      /\ UNCHANGED <<pc, id, callId, outstandings, response, inHand, notifying, toVisit, toClient,
                     connected>>
      /\ UNCHANGED <<fate, main, callback, rpcChannel, latch, result, setup>>
  BY DEF DoRequest, connectVars, callVars
<1>2. /\ toServer' \in Seq(Requests) /\ m \in Requests /\ Own(m)
      /\ \A i \in 1..Len(toServer') : i + 1 \in 1..Len(toServer) /\ toServer'[i] = toServer[i + 1]
  <2>1. toServer \in Seq(Requests)
    BY MessageFacts
  <2> QED BY <1>1, <2>1, Removed DEF Matched
<1>3. /\ v \in [id : Nat, body : Calls, replies : 0..MaxReplies]
      /\ v.body = m.body /\ v.id = m.id
  <2>1. 0 \in 0..MaxReplies
    BY BoundAssumption
  <2>2. m.id \in Nat /\ m.body \in Calls
    BY <1>2 DEF Requests
  <2> QED BY <2>1, <2>2
<1> HIDE DEF v, m
<1>4. TypeOK' /\ OneInHand' /\ Connects'
  <2>1. invocations' \subseteq [id : Nat, body : Calls, replies : 0..MaxReplies]
    BY <1>1, <1>3 DEF TypeOK
  <2> QED BY <1>1, <1>2, <2>1, ZenonT(60) DEF TypeOK, OneInHand, Connects
<1>5. Numbered' /\ Entered'
  BY <1>1 DEF Numbered, Entered, Put, Sent
<1>6. Matched'
  <2>1. \A i \in 1..Len(toServer') : Own(toServer[i])'
    BY <1>1, <1>2 DEF Matched, Own, Sent
  <2>2. \A w \in invocations' : Sent(w.body) /\ w.id = callId[w.body]
    BY <1>1, <1>2, <1>3 DEF Matched, Own
  <2>3. \A w \in invocations' : Sent(w.body)' /\ w.id = callId'[w.body]
    BY <1>1, <2>2 DEF Sent
  <2>4. \A i \in 1..Len(toClient) : Own(toClient[i])'
    BY <1>1 DEF Matched, Own, Sent
  <2>5. \A h \in inHand : Own(h[2])'
    BY <1>1 DEF Matched, Own, Sent
  <2> QED BY <1>1, <2>1, <2>3, <2>4, <2>5 DEF Matched, Own
<1>7. Watched'
  BY <1>1 DEF Watched, Put, Accounted, ToBeVisited, InHand
<1> QED BY <1>4, <1>5, <1>6, <1>7

LEMMA IndServerDone ==
  ASSUME IndInv, NEW v \in invocations, ServerDone(v)
  PROVE  IndInv'
<1> USE DEF IndInv, Core
<1> DEFINE w == [v EXCEPT !.replies = @ + 1]
           m == [type |-> IF fate[v.body] = "null" THEN "ERROR" ELSE "RESPONSE",
                 id |-> v.id, body |-> v.body]
<1>1. /\ v.replies < MaxReplies /\ invocations' = (invocations \ {v}) \cup {w}
      /\ toClient' = toClient \/ toClient' = Append(toClient, m)
      /\ UNCHANGED <<pc, id, callId, outstandings, response, inHand, notifying, toVisit, toServer,
                     connected>>
      /\ UNCHANGED <<fate, main, callback, rpcChannel, latch, result, setup>>
  BY DEF ServerDone, connectVars, callVars
<1>2. /\ v \in [id : Nat, body : Calls, replies : 0..MaxReplies]
      /\ Own(v)
  BY DEF TypeOK, Matched
<1>3. m \in Replies /\ m.body = v.body /\ m.id = v.id
  BY <1>2 DEF Replies
<1>4. /\ w \in [id : Nat, body : Calls, replies : 0..MaxReplies]
      /\ w.body = v.body /\ w.id = v.id
  <2>1. v.replies + 1 \in 0..MaxReplies
    BY <1>1, <1>2, BoundAssumption
  <2> QED BY <1>2, <2>1
<1> HIDE DEF w, m
<1>5. /\ toClient' \in Seq(Replies)
      /\ \A i \in 1..Len(toClient') :
           (i \in 1..Len(toClient) /\ toClient'[i] = toClient[i]) \/ toClient'[i] = m
  <2>1. toClient \in Seq(Replies)
    BY MessageFacts
  <2>2. CASE toClient' = toClient
    BY <2>1, <2>2
  <2>3. CASE toClient' = Append(toClient, m)
    BY <1>3, <2>1, <2>3, Appended
  <2> QED BY <1>1, <2>2, <2>3
<1>6. TypeOK' /\ OneInHand' /\ Connects'
  BY <1>1, <1>4, <1>5, ZenonT(60) DEF TypeOK, OneInHand, Connects
<1>7. Numbered' /\ Entered'
  BY <1>1 DEF Numbered, Entered, Put, Sent
<1>8. Matched'
  <2>1. \A i \in 1..Len(toClient') : Own(toClient[i])'
    BY <1>1, <1>2, <1>3, <1>5 DEF Matched, Own, Sent
  <2>2. \A u \in invocations' : Sent(u.body) /\ u.id = callId[u.body]
    BY <1>1, <1>2, <1>4 DEF Matched, Own
  <2>3. \A u \in invocations' : Sent(u.body)' /\ u.id = callId'[u.body]
    BY <1>1, <2>2 DEF Sent
  <2>4. \A i \in 1..Len(toServer) : Own(toServer[i])'
    BY <1>1 DEF Matched, Own, Sent
  <2>5. \A h \in inHand : Own(h[2])'
    BY <1>1 DEF Matched, Own, Sent
  <2> QED BY <1>1, <2>1, <2>3, <2>4, <2>5 DEF Matched, Own
<1>9. Watched'
  BY <1>1 DEF Watched, Put, Accounted, ToBeVisited, InHand
<1> QED BY <1>6, <1>7, <1>8, <1>9

-----------------------------------------------------------------------------
LEMMA IndNext == IndInv /\ [Next]_vars => IndInv'
<1> SUFFICES ASSUME IndInv, [Next]_vars PROVE IndInv'
  OBVIOUS
<1>1. CASE UNCHANGED vars
  <2>1. /\ UNCHANGED <<fate, pc, id, callId, outstandings, response, inHand, notifying,
                       toVisit, toServer, toClient, invocations>>
        /\ UNCHANGED <<connected, main, callback, rpcChannel, latch, result, setup>>
    BY <1>1 DEF vars, connectVars, callVars
  <2>2. Core'
    BY <2>1, SameCore DEF IndInv
  <2>3. TypeOK' /\ OneInHand' /\ Connects'
    BY <2>1, ZenonT(60) DEF IndInv, TypeOK, OneInHand, Connects
  <2> QED BY <2>2, <2>3 DEF IndInv
<1>2. CASE Next
  BY <1>2, IndConnect, IndNumberCall, IndPutCall, IndWriteRequest, IndWaiting, IndTakeMessage,
     IndRunCallback, IndStartNotifying, IndNotifyOne, IndNotifyingOver, IndDoRequest, IndServerDone
  DEF Next, IOThread, Caller, Disconnected
<1> QED BY <1>1, <1>2

LEMMA Invariance == Spec => []IndInv
  BY IndInit, IndNext, PTL DEF Spec

(* messageReceived gives an answer to the call whose id it has, whatever   *)
(* the threads do meanwhile: no call holds another's response, none that   *)
(* has one is still in outstandings, and blockingConnect's callback finds  *)
(* the channel.                                                            *)
THEOREM AnswersAreMatched == Spec => []AnswersMatched
<1>1. ASSUME IndInv PROVE AnswersMatched
  <2>1. CallbackSeesChannel
    BY <1>1 DEF IndInv, Connects, CallbackSeesChannel
  <2>2. OwnResponse /\ NoLeftover
    BY <1>1 DEF IndInv, Core, Entered, OwnResponse, NoLeftover
  <2> QED BY <1>1, <2>1, <2>2 DEF IndInv, AnswersMatched
<1> QED BY <1>1, Invariance, PTL

(* callBlockingMethod's wait() against BlockingRpcCallback.run and the     *)
(* loop of disconnected(): a caller that sleeps has no answer, and once    *)
(* the loop has begun it will still be visited, unless its response did    *)
(* not parse.                                                              *)
THEOREM NoWakeupIsLost == Spec => []NoLostWakeup
<1>1. ASSUME IndInv PROVE NoLostWakeup
  BY <1>1 DEF IndInv, Core, Watched, ToBeVisited, InHand, NoLostWakeup
<1> QED BY <1>1, Invariance, PTL
=============================================================================
