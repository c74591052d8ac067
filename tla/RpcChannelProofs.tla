-------------------------- MODULE RpcChannelProofs --------------------------
(***************************************************************************)
(* Proofs about RpcChannel for every set of calls, every number of         *)
(* connections and every number of replies; the second half is about       *)
(* EchoBench, which measures it.                                           *)
(***************************************************************************)
EXTENDS RpcChannel, EchoBenchInstance, FiniteSetTheorems, SequenceTheorems, TLAPS

USE DEF Conns, clientVars, serverVars

(* Appending to and taking from a stream keep the type of its elements. *)
LEMMA SeqFacts ==
  ASSUME NEW S, NEW s \in Seq(S)
  PROVE  /\ \A e \in S : Append(s, e) \in Seq(S)
         /\ s # <<>> => Head(s) \in S /\ Tail(s) \in Seq(S)
  OBVIOUS

-----------------------------------------------------------------------------
(* Type correctness. *)

LEMMA TypeInit == Init => TypeOK
  BY MaxConnsAssumption DEF Init, TypeOK

LEMMA TypeNext == TypeOK /\ [Next]_vars => TypeOK'
<1> SUFFICES ASSUME TypeOK, [Next]_vars PROVE TypeOK'
  OBVIOUS
<1> USE DEF TypeOK
<1>1. ASSUME NEW c \in Calls, NumberCall(c) PROVE TypeOK'
  BY <1>1 DEF NumberCall
<1>2. ASSUME NEW c \in Calls, RegisterCall(c) PROVE TypeOK'
  BY <1>2 DEF RegisterCall
<1>3. ASSUME NEW c \in Calls, SendRequest(c) PROVE TypeOK'
  <2>1. Request(c) \in Requests
    BY DEF Request, Requests
  <2>2. c2s' \in [Conns -> Seq(Requests)]
    <3>1. \A k \in Conns : Append(c2s[k], Request(c)) \in Seq(Requests)
      BY <2>1, SeqFacts
    <3> QED BY <1>3, <3>1 DEF SendRequest
  <2>3. pc' \in [Calls -> {"idle", "numbered", "registered", "sent"}]
    BY <1>3 DEF SendRequest
  <2> QED BY <1>3, <2>2, <2>3 DEF SendRequest
<1>4. ASSUME NEW k \in Conns, ClientConnected(k) PROVE TypeOK'
  BY <1>4, MaxConnsAssumption DEF ClientConnected
<1>5. ASSUME ClientDisconnected PROVE TypeOK'
  BY <1>5, MaxConnsAssumption DEF ClientDisconnected
<1>6. ASSUME NEW k \in Conns, ServerConnected(k) PROVE TypeOK'
  BY <1>6 DEF ServerConnected
<1>7. ASSUME NEW k \in Conns, ServerDisconnected(k) PROVE TypeOK'
  BY <1>7 DEF ServerDisconnected
<1>8. ASSUME NEW k \in Conns, OnRequest(k) PROVE TypeOK'
  <2>1. Head(c2s[k]) \in Requests /\ Tail(c2s[k]) \in Seq(Requests)
    BY <1>8, SeqFacts DEF OnRequest
  <2>2. [conn |-> k, id |-> Head(c2s[k]).id, body |-> Head(c2s[k]).body,
         replies |-> 0] \in Invocations
    BY <2>1, MaxRepliesAssumption, SMTT(40) DEF Requests, Invocations
  <2>3. Head(c2s[k]).body \in Calls
    BY <2>1 DEF Requests
  <2>4. invocations' \subseteq Invocations
    BY <1>8, <2>2 DEF OnRequest
  <2>5. executions' \in [Calls -> Nat]
    BY <1>8, <2>3, SMTT(40) DEF OnRequest
  <2>6. c2s' \in [Conns -> Seq(Requests)]
    BY <1>8, <2>1 DEF OnRequest
  <2> QED BY <1>8, <2>4, <2>5, <2>6 DEF OnRequest
<1>9. ASSUME NEW k \in Conns, OnUnknownRequest(k) PROVE TypeOK'
  BY <1>9 DEF OnUnknownRequest
<1>10. ASSUME NEW v \in invocations, NEW m \in Responses, RunDone(v, m) PROVE TypeOK'
  <2>1. v \in Invocations
    OBVIOUS
  <2>2. /\ v.conn \in Conns /\ v.id \in Nat /\ v.body \in Calls
        /\ v.replies + 1 \in 0..MaxReplies
    BY <1>10, <2>1, MaxRepliesAssumption, SMTT(40) DEF RunDone, Invocations
  <2>3. [v EXCEPT !.replies = @ + 1] \in Invocations
    BY <2>1, <2>2 DEF Invocations
  <2>4. invocations' \subseteq Invocations
    BY <1>10, <2>3 DEF RunDone
  <2>5. s2c' \in [Conns -> Seq(Responses)]
    BY <1>10, <2>2 DEF RunDone
  <2>6. lateDones' \subseteq Calls
    BY <1>10, <2>2 DEF RunDone
  <2> QED BY <1>10, <2>4, <2>5, <2>6 DEF RunDone
<1>11. ASSUME NEW v \in invocations, DoneCallback(v) \/ DoneCallbackNull(v) PROVE TypeOK'
  <2>1. Response(v) \in Responses /\ ErrorMessage(v) \in Responses
    BY DEF Response, ErrorMessage, Responses, Invocations
  <2> QED BY <1>10, <1>11, <2>1 DEF DoneCallback, DoneCallbackNull
<1>12. ASSUME OnResponse PROVE TypeOK'
  <2> DEFINE m == Head(s2c[clientUp])
  <2>1. clientUp \in Conns
    BY <1>12 DEF OnResponse
  <2>2. m \in Responses
    BY <1>12, <2>1, SeqFacts DEF OnResponse
  <2>3. m.body \in Calls
    BY <1>12, <2>2 DEF OnResponse, Responses
  <2>4. /\ DOMAIN outstandings' \subseteq Nat
        /\ outstandings' \in [DOMAIN outstandings' -> Calls]
    BY <1>12 DEF OnResponse
  <2>5. got' \in [Calls -> Seq(Calls)]
    <3>1. outstandings[m.id] \in Calls
      BY <1>12 DEF OnResponse
    <3>2. got' = [got EXCEPT ![outstandings[m.id]] = Append(@, m.body)]
      BY <1>12 DEF OnResponse
    <3> HIDE DEF m
    <3> QED BY <2>3, <3>1, <3>2
  <2>6. s2c' \in [Conns -> Seq(Responses)]
    BY <1>12, <2>1 DEF OnResponse
  <2> QED BY <1>12, <2>4, <2>5, <2>6 DEF OnResponse
<1>13. ASSUME OnUnknownResponse PROVE TypeOK'
  BY <1>13 DEF OnUnknownResponse
<1>14. ASSUME OnError PROVE TypeOK'
  BY <1>14 DEF OnError
<1>15. CASE UNCHANGED vars
  BY <1>15 DEF vars
<1> QED
  BY <1>1, <1>2, <1>3, <1>4, <1>5, <1>6, <1>7, <1>8, <1>9, <1>11,
     <1>12, <1>13, <1>14, <1>15
  DEF Next, CallMethod, OnServerMessage, OnClientMessage

(* Every reachable state is type correct (RpcChannel.h:198-211, the state  *)
(* of the channel, and what the two streams carry).                        *)
THEOREM TypeCorrect == Spec => []TypeOK
  BY TypeInit, TypeNext, PTL DEF Spec

-----------------------------------------------------------------------------
(* Elements of a stream after a send and after a receive. *)

LEMMA AppendElements ==
  ASSUME NEW S, NEW s \in Seq(S), NEW e \in S
  PROVE  \A i \in 1..Len(Append(s, e)) :
           \/ i \in 1..Len(s) /\ Append(s, e)[i] = s[i]
           \/ i = Len(s) + 1 /\ Append(s, e)[i] = e
  OBVIOUS

LEMMA TailElements ==
  ASSUME NEW S, NEW s \in Seq(S), s # <<>>
  PROVE  /\ 1 \in 1..Len(s) /\ Head(s) = s[1]
         /\ \A i \in 1..Len(Tail(s)) : i + 1 \in 1..Len(s) /\ Tail(s)[i] = s[i + 1]
  OBVIOUS

(* Messages and invocations name calls. *)
LEMMA Bodies ==
  ASSUME TypeOK
  PROVE  /\ \A k \in Conns : \A i \in 1..Len(c2s[k]) : c2s[k][i].body \in Calls
         /\ \A k \in Conns : \A i \in 1..Len(s2c[k]) : s2c[k][i].body \in Calls
         /\ \A v \in invocations : v.body \in Calls
<1>1. \A k \in Conns : \A i \in 1..Len(c2s[k]) : c2s[k][i] \in Requests
  BY DEF TypeOK
<1>2. \A k \in Conns : \A i \in 1..Len(s2c[k]) : s2c[k][i] \in Responses
  BY DEF TypeOK
<1>3. \A m \in Requests : m.body \in Calls
  BY DEF Requests
<1>4. \A m \in Responses : m.body \in Calls
  BY DEF Responses
<1>5. \A v \in invocations : v.body \in Calls
  BY DEF TypeOK, Invocations
<1> QED BY <1>1, <1>2, <1>3, <1>4, <1>5

(* What is known of the calls that were sent stays known as long as their  *)
(* number and their executions stay.                                       *)
SentStay ==
  \A c \in Calls : pc[c] = "sent" =>
    (pc'[c] = "sent" /\ callId'[c] = callId[c] /\ executions'[c] = executions[c])

(* SpeaksOf of the state after the step. *)
SpeaksAfter(x, n) ==
  /\ pc'[x.body] = "sent"
  /\ x.id = callId'[x.body]
  /\ executions'[x.body] = n

LEMMA SentRequests ==
  ASSUME TypeOK, RequestsInFlight, RequestsDistinct, SentStay, UNCHANGED c2s
  PROVE  RequestsInFlight' /\ RequestsDistinct'
  BY Bodies DEF RequestsInFlight, RequestsDistinct, SentStay, SpeaksOf, SpeaksAfter

LEMMA SentInvocations ==
  ASSUME TypeOK, InvocationsRun, SentStay, UNCHANGED invocations
  PROVE  InvocationsRun'
  BY Bodies DEF InvocationsRun, SentStay, SpeaksOf, SpeaksAfter

LEMMA SentResponses ==
  ASSUME TypeOK, ResponsesInFlight, SentStay, UNCHANGED s2c
  PROVE  ResponsesInFlight'
  BY Bodies DEF ResponsesInFlight, SentStay, SpeaksOf, SpeaksAfter

(* Taking a request from a stream leaves the others as they were, even if  *)
(* it changes what is known of the call it belongs to.                     *)
LEMMA DequeuedRequests ==
  ASSUME TypeOK, RequestsInFlight, RequestsDistinct,
         NEW k \in Conns, c2s[k] # <<>>,
         c2s' = [c2s EXCEPT ![k] = Tail(@)],
         \A c \in Calls \ {Head(c2s[k]).body} : pc[c] = "sent" =>
           (pc'[c] = "sent" /\ callId'[c] = callId[c] /\ executions'[c] = executions[c])
  PROVE  RequestsInFlight' /\ RequestsDistinct'
<1> DEFINE old(l, i) == IF l = k THEN i + 1 ELSE i
<1>1. ASSUME NEW l \in Conns, NEW i \in 1..Len(c2s'[l])
      PROVE  /\ old(l, i) \in 1..Len(c2s[l])
             /\ c2s'[l][i] = c2s[l][old(l, i)]
             /\ l = k => old(l, i) # 1
  <2>1. CASE l = k
    BY <2>1, TailElements DEF TypeOK
  <2>2. CASE l # k
    BY <2>2 DEF TypeOK
  <2> QED BY <2>1, <2>2
<1>2. 1 \in 1..Len(c2s[k]) /\ Head(c2s[k]) = c2s[k][1]
  BY TailElements DEF TypeOK
<1>3. ASSUME NEW l \in Conns, NEW i \in 1..Len(c2s'[l])
      PROVE  SpeaksAfter(c2s'[l][i], 0)
  <2> DEFINE m == c2s[l][old(l, i)]
  <2>1. old(l, i) \in 1..Len(c2s[l]) /\ c2s'[l][i] = m /\ (l = k => old(l, i) # 1)
    BY <1>1
  <2> HIDE DEF old
  <2>2. m.body # c2s[k][1].body
    BY <1>2, <2>1 DEF RequestsDistinct
  <2>3. SpeaksOf(m, 0) /\ m.body \in Calls
    BY <2>1, Bodies DEF RequestsInFlight
  <2> QED BY <1>2, <2>1, <2>2, <2>3 DEF SpeaksOf, SpeaksAfter
<1>4. ASSUME NEW a \in Conns, NEW b \in Conns,
             NEW i \in 1..Len(c2s'[a]), NEW j \in 1..Len(c2s'[b]),
             c2s'[a][i].body = c2s'[b][j].body
      PROVE  a = b /\ i = j
  <2>1. /\ old(a, i) \in 1..Len(c2s[a]) /\ c2s'[a][i] = c2s[a][old(a, i)]
        /\ old(b, j) \in 1..Len(c2s[b]) /\ c2s'[b][j] = c2s[b][old(b, j)]
    BY <1>1
  <2>2. a = b /\ old(a, i) = old(b, j)
    <3> HIDE DEF old
    <3> QED BY <1>4, <2>1, SMTT(40) DEF RequestsDistinct
  <2> QED BY <2>2
<1> QED BY <1>3, <1>4 DEF RequestsInFlight, RequestsDistinct, SpeaksOf, SpeaksAfter

(* The same for the responses. *)
LEMMA DequeuedResponses ==
  ASSUME TypeOK, ResponsesInFlight, SentStay,
         NEW k \in Conns, s2c[k] # <<>>,
         s2c' = [s2c EXCEPT ![k] = Tail(@)]
  PROVE  ResponsesInFlight'
<1>1. ASSUME NEW l \in Conns, NEW i \in 1..Len(s2c'[l])
      PROVE  \E j \in 1..Len(s2c[l]) : s2c'[l][i] = s2c[l][j]
  <2>1. CASE l = k
    BY <2>1, TailElements DEF TypeOK
  <2>2. CASE l # k
    BY <2>2 DEF TypeOK
  <2> QED BY <2>1, <2>2
<1>2. ASSUME NEW l \in Conns, NEW i \in 1..Len(s2c[l])
      PROVE  SpeaksAfter(s2c[l][i], 1)
  BY Bodies DEF ResponsesInFlight, SentStay, SpeaksOf, SpeaksAfter
<1>3. ASSUME NEW l \in Conns, NEW i \in 1..Len(s2c'[l])
      PROVE  SpeaksAfter(s2c'[l][i], 1)
  BY <1>1, <1>2, <1>3
<1> QED BY <1>3 DEF ResponsesInFlight, SpeaksOf, SpeaksAfter

(* A response that finds an entry finds the one of the call it answers,    *)
(* and that call has not been answered.                                    *)
LEMMA OnResponseStep ==
  ASSUME IndInv, OnResponse
  PROVE  \E c \in Calls :
           /\ pc[c] = "sent" /\ executions[c] = 1 /\ got[c] = <<>>
           /\ outstandings' = [i \in DOMAIN outstandings \ {callId[c]} |-> outstandings[i]]
           /\ got' = [got EXCEPT ![c] = <<c>>]
<1> USE DEF IndInv
<1> DEFINE m == Head(s2c[clientUp])
<1>1. clientUp \in Conns /\ s2c[clientUp] # <<>> /\ m.type = "RESPONSE"
  BY DEF OnResponse, TypeOK
<1>2. 1 \in 1..Len(s2c[clientUp]) /\ m = s2c[clientUp][1]
  BY <1>1, TailElements DEF TypeOK
<1>3. m.body \in Calls /\ SpeaksOf(m, 1)
  BY <1>1, <1>2, Bodies DEF ResponsesInFlight
<1>4. /\ m.id \in DOMAIN outstandings
      /\ outstandings' = [i \in DOMAIN outstandings \ {m.id} |-> outstandings[i]]
      /\ got' = [got EXCEPT ![outstandings[m.id]] = Append(@, m.body)]
  BY DEF OnResponse
<1> HIDE DEF m
<1>5. outstandings[m.id] \in Calls
  BY <1>4 DEF TypeOK
<1>6. outstandings[m.id] = m.body /\ got[m.body] = <<>>
  <2>1. /\ pc[outstandings[m.id]] # "idle"
        /\ callId[outstandings[m.id]] = m.id
        /\ got[outstandings[m.id]] = <<>>
    BY <1>4 DEF EntriesWait
  <2> QED BY <1>3, <1>5, <2>1 DEF SpeaksOf, NumbersUnique
<1>7. got' = [got EXCEPT ![m.body] = <<m.body>>]
  BY <1>3, <1>4, <1>6 DEF TypeOK
<1>8. m.id = callId[m.body] /\ pc[m.body] = "sent" /\ executions[m.body] = 1
  BY <1>3 DEF SpeaksOf
<1>9. outstandings' = [i \in DOMAIN outstandings \ {callId[m.body]} |-> outstandings[i]]
  BY <1>4, <1>8
<1>10. got[m.body] = <<>>
  BY <1>6
<1> QED BY <1>3, <1>7, <1>8, <1>9, <1>10

(* Each action preserves the inductive invariant. *)

LEMMA IndNumberCall ==
  ASSUME IndInv, NEW c \in Calls, NumberCall(c)
  PROVE  IndInv'
<1> USE DEF IndInv
<1>0. TypeOK'
  BY TypeNext DEF Next, CallMethod, OnServerMessage, OnClientMessage
<1>s. SentStay
  BY DEF NumberCall, SentStay, TypeOK
<1>1. NumbersIssued'
  BY DEF NumberCall, TypeOK, NumbersIssued
<1>2. NumbersUnique'
  BY DEF NumberCall, TypeOK, NumbersIssued, NumbersUnique
<1>3. EntriesWait'
  BY DEF NumberCall, TypeOK, EntriesWait
<1>4. NoCallForgotten'
  BY DEF NumberCall, TypeOK, NoCallForgotten
<1>5. Progress'
  BY DEF NumberCall, TypeOK, Progress
<1>6. RequestsInFlight' /\ RequestsDistinct'
  BY <1>s, SentRequests DEF NumberCall
<1>7. InvocationsRun'
  BY <1>s, SentInvocations DEF NumberCall
<1>8. ResponsesInFlight'
  BY <1>s, SentResponses DEF NumberCall
<1> QED BY <1>0, <1>1, <1>2, <1>3, <1>4, <1>5, <1>6, <1>7, <1>8

LEMMA IndRegisterCall ==
  ASSUME IndInv, NEW c \in Calls, RegisterCall(c)
  PROVE  IndInv'
<1> USE DEF IndInv
<1>0. TypeOK'
  BY TypeNext DEF Next, CallMethod, OnServerMessage, OnClientMessage
<1>s. SentStay
  BY DEF RegisterCall, SentStay, TypeOK
<1>1. NumbersIssued'
  BY DEF RegisterCall, TypeOK, NumbersIssued
<1>2. NumbersUnique'
  BY DEF RegisterCall, TypeOK, NumbersUnique
<1>3. EntriesWait'
  BY DEF RegisterCall, TypeOK, EntriesWait, Progress
<1>4. NoCallForgotten'
  BY DEF RegisterCall, TypeOK, NumbersUnique, NoCallForgotten
<1>5. Progress'
  BY DEF RegisterCall, TypeOK, Progress
<1>6. RequestsInFlight' /\ RequestsDistinct'
  BY <1>s, SentRequests DEF RegisterCall
<1>7. InvocationsRun'
  BY <1>s, SentInvocations DEF RegisterCall
<1>8. ResponsesInFlight'
  BY <1>s, SentResponses DEF RegisterCall
<1> QED BY <1>0, <1>1, <1>2, <1>3, <1>4, <1>5, <1>6, <1>7, <1>8

LEMMA IndSendRequest ==
  ASSUME IndInv, NEW c \in Calls, SendRequest(c)
  PROVE  IndInv'
<1> USE DEF IndInv
<1>0. TypeOK'
  BY TypeNext DEF Next, CallMethod, OnServerMessage, OnClientMessage
<1>s. SentStay
  BY DEF SendRequest, SentStay, TypeOK
<1>1. NumbersIssued'
  BY DEF SendRequest, TypeOK, NumbersIssued
<1>2. NumbersUnique'
  BY DEF SendRequest, TypeOK, NumbersUnique
<1>3. EntriesWait'
  BY DEF SendRequest, TypeOK, EntriesWait
<1>4. NoCallForgotten'
  BY DEF SendRequest, TypeOK, NoCallForgotten
<1>5. Progress'
  BY DEF SendRequest, TypeOK, Progress
<1>6. RequestsInFlight'
  <2>1. CASE UNCHANGED c2s
    BY <1>s, <2>1, SentRequests
  <2>2. CASE ~UNCHANGED c2s
    <3>1. /\ conn_ \in Conns
          /\ c2s' = [c2s EXCEPT ![conn_] = Append(@, Request(c))]
      BY <2>2 DEF SendRequest, TypeOK, NumbersIssued
    <3>2. Request(c) \in Requests
      BY DEF TypeOK, Request, Requests
    <3>3. SpeaksAfter(Request(c), 0)
      BY DEF SendRequest, Request, SpeaksOf, SpeaksAfter, Progress, TypeOK
    <3>4. ASSUME NEW k \in Conns, NEW i \in 1..Len(c2s'[k])
          PROVE  \/ i \in 1..Len(c2s[k]) /\ c2s'[k][i] = c2s[k][i]
                 \/ c2s'[k][i] = Request(c)
      BY <3>1, <3>2, AppendElements DEF TypeOK
    <3>5. ASSUME NEW k \in Conns, NEW i \in 1..Len(c2s[k])
          PROVE  /\ c2s[k][i].body \in Calls
                 /\ SpeaksOf(c2s[k][i], 0)
      BY Bodies DEF RequestsInFlight
    <3>7. ASSUME NEW k \in Conns, NEW i \in 1..Len(c2s'[k])
          PROVE  SpeaksAfter(c2s'[k][i], 0)
      BY <1>s, <3>3, <3>4, <3>5, SMTT(40) DEF SentStay, SpeaksOf, SpeaksAfter
    <3> QED BY <3>7 DEF RequestsInFlight, SpeaksOf, SpeaksAfter
  <2> QED BY <2>1, <2>2
<1>7. RequestsDistinct'
  <2>1. CASE UNCHANGED c2s
    BY <2>1 DEF RequestsDistinct
  <2>2. CASE ~UNCHANGED c2s
    <3>1. /\ conn_ \in Conns
          /\ c2s' = [c2s EXCEPT ![conn_] = Append(@, Request(c))]
      BY <2>2 DEF SendRequest, TypeOK, NumbersIssued
    <3>2. Request(c) \in Requests
      BY DEF TypeOK, Request, Requests
    <3>3. Request(c).body = c
      BY DEF Request
    <3>4. ASSUME NEW k \in Conns, NEW i \in 1..Len(c2s'[k])
          PROVE  \/ i \in 1..Len(c2s[k]) /\ c2s'[k][i] = c2s[k][i]
                 \/ k = conn_ /\ i = Len(c2s[k]) + 1 /\ c2s'[k][i] = Request(c)
      BY <3>1, <3>2, AppendElements DEF TypeOK
    <3>5. ASSUME NEW k \in Conns, NEW i \in 1..Len(c2s[k])
          PROVE  c2s[k][i].body # c
      BY DEF RequestsInFlight, SpeaksOf, SpeaksAfter, SendRequest
    <3>6. ASSUME NEW a \in Conns, NEW b \in Conns,
                 NEW i \in 1..Len(c2s'[a]), NEW j \in 1..Len(c2s'[b]),
                 c2s'[a][i].body = c2s'[b][j].body
          PROVE  a = b /\ i = j
      <4>1. CASE i \in 1..Len(c2s[a]) /\ c2s'[a][i] = c2s[a][i]
        <5>1. CASE j \in 1..Len(c2s[b]) /\ c2s'[b][j] = c2s[b][j]
          BY <3>6, <4>1, <5>1 DEF RequestsDistinct
        <5>2. CASE c2s'[b][j] = Request(c)
          BY <3>3, <3>5, <3>6, <4>1, <5>2
        <5> QED BY <3>4, <5>1, <5>2
      <4>2. CASE a = conn_ /\ i = Len(c2s[a]) + 1 /\ c2s'[a][i] = Request(c)
        BY <3>3, <3>4, <3>5, <3>6, <4>2, SMTT(40)
      <4> QED BY <3>4, <4>1, <4>2
    <3> QED BY <3>6 DEF RequestsDistinct
  <2> QED BY <2>1, <2>2
<1>8. InvocationsRun'
  BY <1>s, SentInvocations DEF SendRequest
<1>9. ResponsesInFlight'
  BY <1>s, SentResponses DEF SendRequest
<1> QED BY <1>0, <1>1, <1>2, <1>3, <1>4, <1>5, <1>6, <1>7, <1>8, <1>9

LEMMA IndClientConnected ==
  ASSUME IndInv, NEW k \in Conns, ClientConnected(k)
  PROVE  IndInv'
<1> USE DEF IndInv
<1>0. TypeOK'
  BY TypeNext DEF Next, CallMethod, OnServerMessage, OnClientMessage
<1>s. SentStay
  BY DEF ClientConnected, SentStay, TypeOK
<1>1. NumbersIssued'
  BY DEF ClientConnected, TypeOK, NumbersIssued
<1>2. NumbersUnique'
  BY DEF ClientConnected, TypeOK, NumbersUnique
<1>3. EntriesWait'
  BY DEF ClientConnected, TypeOK, EntriesWait
<1>4. NoCallForgotten'
  BY DEF ClientConnected, TypeOK, NoCallForgotten
<1>5. Progress'
  BY DEF ClientConnected, TypeOK, Progress
<1>6. RequestsInFlight' /\ RequestsDistinct'
  BY <1>s, SentRequests DEF ClientConnected
<1>7. InvocationsRun'
  BY <1>s, SentInvocations DEF ClientConnected
<1>8. ResponsesInFlight'
  BY <1>s, SentResponses DEF ClientConnected
<1> QED BY <1>0, <1>1, <1>2, <1>3, <1>4, <1>5, <1>6, <1>7, <1>8

LEMMA IndClientDisconnected ==
  ASSUME IndInv, ClientDisconnected
  PROVE  IndInv'
<1> USE DEF IndInv
<1>0. TypeOK'
  BY TypeNext DEF Next, CallMethod, OnServerMessage, OnClientMessage
<1>s. SentStay
  BY DEF ClientDisconnected, SentStay, TypeOK
<1>1. NumbersIssued'
  BY DEF ClientDisconnected, TypeOK, NumbersIssued
<1>2. NumbersUnique'
  BY DEF ClientDisconnected, TypeOK, NumbersUnique
<1>3. EntriesWait'
  BY DEF ClientDisconnected, TypeOK, EntriesWait
<1>4. NoCallForgotten'
  BY DEF ClientDisconnected, TypeOK, NoCallForgotten
<1>5. Progress'
  BY DEF ClientDisconnected, TypeOK, Progress
<1>6. RequestsInFlight' /\ RequestsDistinct'
  BY <1>s, SentRequests DEF ClientDisconnected
<1>7. InvocationsRun'
  BY <1>s, SentInvocations DEF ClientDisconnected
<1>8. ResponsesInFlight'
  <2>1. \A k \in Conns : s2c'[k] = s2c[k] \/ s2c'[k] = <<>>
    BY DEF ClientDisconnected, TypeOK
  <2> QED BY <1>s, <2>1, Bodies DEF ResponsesInFlight, SentStay, SpeaksOf, SpeaksAfter
<1> QED BY <1>0, <1>1, <1>2, <1>3, <1>4, <1>5, <1>6, <1>7, <1>8

LEMMA IndServerConnected ==
  ASSUME IndInv, NEW k \in Conns, ServerConnected(k)
  PROVE  IndInv'
<1> USE DEF IndInv
<1>0. TypeOK'
  BY TypeNext DEF Next, CallMethod, OnServerMessage, OnClientMessage
<1>s. SentStay
  BY DEF ServerConnected, SentStay, TypeOK
<1>1. NumbersIssued'
  BY DEF ServerConnected, TypeOK, NumbersIssued
<1>2. NumbersUnique'
  BY DEF ServerConnected, TypeOK, NumbersUnique
<1>3. EntriesWait'
  BY DEF ServerConnected, TypeOK, EntriesWait
<1>4. NoCallForgotten'
  BY DEF ServerConnected, TypeOK, NoCallForgotten
<1>5. Progress'
  BY DEF ServerConnected, TypeOK, Progress
<1>6. RequestsInFlight' /\ RequestsDistinct'
  BY <1>s, SentRequests DEF ServerConnected
<1>7. InvocationsRun'
  BY <1>s, SentInvocations DEF ServerConnected
<1>8. ResponsesInFlight'
  BY <1>s, SentResponses DEF ServerConnected
<1> QED BY <1>0, <1>1, <1>2, <1>3, <1>4, <1>5, <1>6, <1>7, <1>8

LEMMA IndServerDisconnected ==
  ASSUME IndInv, NEW k \in Conns, ServerDisconnected(k)
  PROVE  IndInv'
<1> USE DEF IndInv
<1>0. TypeOK'
  BY TypeNext DEF Next, CallMethod, OnServerMessage, OnClientMessage
<1>s. SentStay
  BY DEF ServerDisconnected, SentStay, TypeOK
<1>1. NumbersIssued'
  BY DEF ServerDisconnected, TypeOK, NumbersIssued
<1>2. NumbersUnique'
  BY DEF ServerDisconnected, TypeOK, NumbersUnique
<1>3. EntriesWait'
  BY DEF ServerDisconnected, TypeOK, EntriesWait
<1>4. NoCallForgotten'
  BY DEF ServerDisconnected, TypeOK, NoCallForgotten
<1>5. Progress'
  BY DEF ServerDisconnected, TypeOK, Progress
<1>6. RequestsInFlight'
  <2>1. \A l \in Conns : c2s'[l] = c2s[l] \/ c2s'[l] = <<>>
    BY DEF ServerDisconnected, TypeOK
  <2> QED BY <1>s, <2>1, Bodies DEF RequestsInFlight, SentStay, SpeaksOf, SpeaksAfter
<1>7. RequestsDistinct'
  <2>1. \A l \in Conns : c2s'[l] = c2s[l] \/ c2s'[l] = <<>>
    BY DEF ServerDisconnected, TypeOK
  <2> QED BY <2>1, SMTT(40) DEF RequestsDistinct
<1>8. InvocationsRun'
  BY <1>s, SentInvocations DEF ServerDisconnected
<1>9. ResponsesInFlight'
  BY <1>s, SentResponses DEF ServerDisconnected
<1> QED BY <1>0, <1>1, <1>2, <1>3, <1>4, <1>5, <1>6, <1>7, <1>8, <1>9

LEMMA IndOnUnknownRequest ==
  ASSUME IndInv, NEW k \in Conns, OnUnknownRequest(k)
  PROVE  IndInv'
<1> USE DEF IndInv
<1>0. TypeOK'
  BY TypeNext DEF Next, CallMethod, OnServerMessage, OnClientMessage
<1>s. SentStay
  BY DEF OnUnknownRequest, SentStay, TypeOK
<1>1. NumbersIssued'
  BY DEF OnUnknownRequest, TypeOK, NumbersIssued
<1>2. NumbersUnique'
  BY DEF OnUnknownRequest, TypeOK, NumbersUnique
<1>3. EntriesWait'
  BY DEF OnUnknownRequest, TypeOK, EntriesWait
<1>4. NoCallForgotten'
  BY DEF OnUnknownRequest, TypeOK, NoCallForgotten
<1>5. Progress'
  BY DEF OnUnknownRequest, TypeOK, Progress
<1>6. RequestsInFlight' /\ RequestsDistinct'
  BY <1>s, DequeuedRequests DEF OnUnknownRequest, SentStay
<1>7. InvocationsRun'
  BY <1>s, SentInvocations DEF OnUnknownRequest
<1>8. ResponsesInFlight'
  BY <1>s, SentResponses DEF OnUnknownRequest
<1> QED BY <1>0, <1>1, <1>2, <1>3, <1>4, <1>5, <1>6, <1>7, <1>8

LEMMA IndOnRequest ==
  ASSUME IndInv, NEW k \in Conns, OnRequest(k)
  PROVE  IndInv'
<1> USE DEF IndInv
<1> DEFINE m == Head(c2s[k])
<1>0. TypeOK'
  BY TypeNext DEF Next, OnServerMessage
<1>1. /\ m.body \in Calls
      /\ SpeaksOf(m, 0)
  <2>1. 1 \in 1..Len(c2s[k]) /\ m = c2s[k][1]
    BY TailElements DEF OnRequest, TypeOK
  <2> QED BY <2>1, Bodies DEF RequestsInFlight
<1>2. /\ executions' = [executions EXCEPT ![m.body] = 1]
      /\ UNCHANGED <<pc, callId, id_, outstandings, got, conn_, s2c>>
  BY <1>1 DEF OnRequest, SpeaksOf, SpeaksAfter
<1> HIDE DEF m
<1>3. NumbersIssued' /\ NumbersUnique' /\ EntriesWait' /\ NoCallForgotten'
  BY <1>2 DEF NumbersIssued, NumbersUnique, EntriesWait, NoCallForgotten
<1>4. Progress'
  BY <1>1, <1>2 DEF Progress, SpeaksOf, SpeaksAfter, TypeOK
<1>5. RequestsInFlight' /\ RequestsDistinct'
  BY <1>1, <1>2, DequeuedRequests DEF OnRequest, TypeOK, m
<1>6. \A x : (x.body \in Calls /\ SpeaksOf(x, 1)) => SpeaksAfter(x, 1)
  BY <1>2 DEF SpeaksOf, SpeaksAfter, TypeOK
<1>7. InvocationsRun'
  <2> DEFINE v == [conn |-> k, id |-> m.id, body |-> m.body, replies |-> 0]
  <2>1. invocations' = invocations \cup {v}
    BY DEF OnRequest, m
  <2>2. SpeaksAfter(v, 1)
    BY <1>1, <1>2 DEF SpeaksOf, SpeaksAfter, TypeOK
  <2>3. \A w \in invocations : SpeaksAfter(w, 1)
    BY <1>6, Bodies DEF InvocationsRun
  <2> QED BY <2>1, <2>2, <2>3 DEF InvocationsRun, SpeaksOf, SpeaksAfter
<1>8. ResponsesInFlight'
  BY <1>2, <1>6, Bodies DEF ResponsesInFlight, SpeaksOf, SpeaksAfter
<1> QED BY <1>0, <1>3, <1>4, <1>5, <1>7, <1>8

LEMMA IndRunDone ==
  ASSUME IndInv, NEW v \in invocations, NEW m \in Responses, RunDone(v, m),
         m.id = v.id, m.body = v.body, TypeOK'
  PROVE  IndInv'
<1> USE DEF IndInv
<1>0. TypeOK'
  OBVIOUS
<1>s. SentStay
  BY DEF RunDone, SentStay, TypeOK
<1>1. NumbersIssued'
  BY DEF RunDone, TypeOK, NumbersIssued
<1>2. NumbersUnique'
  BY DEF RunDone, TypeOK, NumbersUnique
<1>3. EntriesWait'
  BY DEF RunDone, TypeOK, EntriesWait
<1>4. NoCallForgotten'
  BY DEF RunDone, TypeOK, NoCallForgotten
<1>5. Progress'
  BY DEF RunDone, TypeOK, Progress
<1>6. RequestsInFlight' /\ RequestsDistinct'
  BY <1>s, SentRequests DEF RunDone
<1>7. InvocationsRun'
  <2>1. invocations' = (invocations \ {v}) \cup {[v EXCEPT !.replies = @ + 1]}
    BY DEF RunDone
  <2>2. v \in Invocations
    BY DEF TypeOK
  <2>3. /\ [v EXCEPT !.replies = @ + 1].id = v.id
        /\ [v EXCEPT !.replies = @ + 1].body = v.body
    BY <2>2 DEF Invocations
  <2>4. \A w \in invocations : SpeaksAfter(w, 1)
    BY <1>s, Bodies DEF InvocationsRun, SentStay, SpeaksOf, SpeaksAfter
  <2>5. SpeaksAfter([v EXCEPT !.replies = @ + 1], 1)
    BY <2>3, <2>4 DEF SpeaksOf, SpeaksAfter
  <2> QED BY <2>1, <2>4, <2>5 DEF InvocationsRun, SpeaksOf, SpeaksAfter
<1>8. ResponsesInFlight'
  <2>1. v \in Invocations
    BY DEF TypeOK
  <2>2. v.conn \in Conns
    BY <2>1 DEF Invocations
  <2>3. ASSUME NEW l \in Conns, NEW i \in 1..Len(s2c'[l])
        PROVE  \/ i \in 1..Len(s2c[l]) /\ s2c'[l][i] = s2c[l][i]
               \/ s2c'[l][i] = m
    BY <2>2, AppendElements DEF RunDone, TypeOK
  <2>4. SpeaksAfter(v, 1)
    BY <1>s, Bodies DEF InvocationsRun, SentStay, SpeaksOf, SpeaksAfter
  <2>5. SpeaksAfter(m, 1)
    BY <2>4 DEF SpeaksOf, SpeaksAfter
  <2>6. ASSUME NEW l \in Conns, NEW i \in 1..Len(s2c[l])
        PROVE  SpeaksAfter(s2c[l][i], 1)
    BY <1>s, Bodies DEF ResponsesInFlight, SentStay, SpeaksOf, SpeaksAfter
  <2> QED BY <2>3, <2>5, <2>6 DEF ResponsesInFlight, SpeaksOf, SpeaksAfter
<1> QED BY <1>0, <1>1, <1>2, <1>3, <1>4, <1>5, <1>6, <1>7, <1>8

LEMMA IndDoneCallback ==
  ASSUME IndInv, NEW v \in invocations, DoneCallback(v) \/ DoneCallbackNull(v)
  PROVE  IndInv'
<1>1. TypeOK'
  BY TypeNext DEF IndInv, Next
<1>2. /\ Response(v) \in Responses /\ ErrorMessage(v) \in Responses
      /\ Response(v).id = v.id /\ Response(v).body = v.body
      /\ ErrorMessage(v).id = v.id /\ ErrorMessage(v).body = v.body
  BY DEF Response, ErrorMessage, Responses, Invocations, IndInv, TypeOK
<1> QED BY <1>1, <1>2, IndRunDone DEF DoneCallback, DoneCallbackNull

LEMMA IndOnResponse ==
  ASSUME IndInv, OnResponse
  PROVE  IndInv'
<1> USE DEF IndInv
<1>0. TypeOK'
  BY TypeNext DEF Next, CallMethod, OnServerMessage, OnClientMessage
<1>s. SentStay
  BY DEF OnResponse, SentStay, TypeOK
<1>1. NumbersIssued'
  BY DEF OnResponse, TypeOK, NumbersIssued
<1>2. NumbersUnique'
  BY DEF OnResponse, TypeOK, NumbersUnique
<1>3. EntriesWait'
  <2> PICK c \in Calls :
           /\ pc[c] = "sent" /\ executions[c] = 1 /\ got[c] = <<>>
           /\ outstandings' = [i \in DOMAIN outstandings \ {callId[c]} |-> outstandings[i]]
           /\ got' = [got EXCEPT ![c] = <<c>>]
    BY OnResponseStep
  <2>1. UNCHANGED <<pc, callId, executions>>
    BY DEF OnResponse
  <2> QED BY <2>1 DEF EntriesWait, TypeOK
<1>4. NoCallForgotten'
  <2> PICK c \in Calls :
           /\ pc[c] = "sent" /\ executions[c] = 1 /\ got[c] = <<>>
           /\ outstandings' = [i \in DOMAIN outstandings \ {callId[c]} |-> outstandings[i]]
           /\ got' = [got EXCEPT ![c] = <<c>>]
    BY OnResponseStep
  <2>1. UNCHANGED <<pc, callId, executions>>
    BY DEF OnResponse
  <2> QED BY <2>1 DEF NoCallForgotten, NumbersUnique, TypeOK
<1>5. Progress'
  <2> PICK c \in Calls :
           /\ pc[c] = "sent" /\ executions[c] = 1 /\ got[c] = <<>>
           /\ outstandings' = [i \in DOMAIN outstandings \ {callId[c]} |-> outstandings[i]]
           /\ got' = [got EXCEPT ![c] = <<c>>]
    BY OnResponseStep
  <2>1. UNCHANGED <<pc, callId, executions>>
    BY DEF OnResponse
  <2> QED BY <2>1 DEF Progress, TypeOK
<1>6. RequestsInFlight' /\ RequestsDistinct'
  BY <1>s, SentRequests DEF OnResponse
<1>7. InvocationsRun'
  BY <1>s, SentInvocations DEF OnResponse
<1>8. ResponsesInFlight'
  <2>1. clientUp \in Conns
    BY DEF OnResponse, TypeOK
  <2> QED BY <1>s, <2>1, DequeuedResponses DEF OnResponse
<1> QED BY <1>0, <1>1, <1>2, <1>3, <1>4, <1>5, <1>6, <1>7, <1>8

LEMMA IndOnUnknownResponse ==
  ASSUME IndInv, OnUnknownResponse
  PROVE  IndInv'
<1> USE DEF IndInv
<1>0. TypeOK'
  BY TypeNext DEF Next, CallMethod, OnServerMessage, OnClientMessage
<1>s. SentStay
  BY DEF OnUnknownResponse, SentStay, TypeOK
<1>1. NumbersIssued'
  BY DEF OnUnknownResponse, TypeOK, NumbersIssued
<1>2. NumbersUnique'
  BY DEF OnUnknownResponse, TypeOK, NumbersUnique
<1>3. EntriesWait'
  BY DEF OnUnknownResponse, TypeOK, EntriesWait
<1>4. NoCallForgotten'
  BY DEF OnUnknownResponse, TypeOK, NoCallForgotten
<1>5. Progress'
  BY DEF OnUnknownResponse, TypeOK, Progress
<1>6. RequestsInFlight' /\ RequestsDistinct'
  BY <1>s, SentRequests DEF OnUnknownResponse
<1>7. InvocationsRun'
  BY <1>s, SentInvocations DEF OnUnknownResponse
<1>8. ResponsesInFlight'
  <2>1. clientUp \in Conns
    BY DEF OnUnknownResponse, TypeOK
  <2> QED BY <1>s, <2>1, DequeuedResponses DEF OnUnknownResponse
<1> QED BY <1>0, <1>1, <1>2, <1>3, <1>4, <1>5, <1>6, <1>7, <1>8

LEMMA IndOnError ==
  ASSUME IndInv, OnError
  PROVE  IndInv'
<1> USE DEF IndInv
<1>0. TypeOK'
  BY TypeNext DEF Next, CallMethod, OnServerMessage, OnClientMessage
<1>s. SentStay
  BY DEF OnError, SentStay, TypeOK
<1>1. NumbersIssued'
  BY DEF OnError, TypeOK, NumbersIssued
<1>2. NumbersUnique'
  BY DEF OnError, TypeOK, NumbersUnique
<1>3. EntriesWait'
  BY DEF OnError, TypeOK, EntriesWait
<1>4. NoCallForgotten'
  BY DEF OnError, TypeOK, NoCallForgotten
<1>5. Progress'
  BY DEF OnError, TypeOK, Progress
<1>6. RequestsInFlight' /\ RequestsDistinct'
  BY <1>s, SentRequests DEF OnError
<1>7. InvocationsRun'
  BY <1>s, SentInvocations DEF OnError
<1>8. ResponsesInFlight'
  <2>1. clientUp \in Conns
    BY DEF OnError, TypeOK
  <2> QED BY <1>s, <2>1, DequeuedResponses DEF OnError
<1> QED BY <1>0, <1>1, <1>2, <1>3, <1>4, <1>5, <1>6, <1>7, <1>8

-----------------------------------------------------------------------------
(* The theorems. *)

LEMMA IndInit == Init => IndInv
<1> SUFFICES ASSUME Init PROVE IndInv
  OBVIOUS
<1>1. TypeOK
  BY TypeInit
<1>2. NumbersIssued /\ NumbersUnique /\ EntriesWait /\ NoCallForgotten
  BY DEF Init, NumbersIssued, NumbersUnique, EntriesWait, NoCallForgotten
<1>3. RequestsInFlight /\ RequestsDistinct /\ InvocationsRun /\ ResponsesInFlight
  BY DEF Init, RequestsInFlight, RequestsDistinct, InvocationsRun, ResponsesInFlight
<1>4. Progress
  BY DEF Init, Progress
<1> QED BY <1>1, <1>2, <1>3, <1>4 DEF IndInv

LEMMA IndNext == IndInv /\ [Next]_vars => IndInv'
<1> SUFFICES ASSUME IndInv, [Next]_vars PROVE IndInv'
  OBVIOUS
<1>1. CASE UNCHANGED vars
  BY <1>1 DEF vars, IndInv, TypeOK, NumbersIssued, NumbersUnique, EntriesWait,
     NoCallForgotten, RequestsInFlight, RequestsDistinct, InvocationsRun,
     ResponsesInFlight, Progress, SpeaksOf
<1>2. CASE Next
  BY <1>2, IndNumberCall, IndRegisterCall, IndSendRequest, IndClientConnected,
     IndClientDisconnected, IndServerConnected, IndServerDisconnected,
     IndOnRequest, IndOnUnknownRequest,
     IndDoneCallback, IndOnResponse, IndOnUnknownResponse, IndOnError
  DEF Next, CallMethod, OnServerMessage, OnClientMessage
<1> QED BY <1>1, <1>2

LEMMA Invariance == Spec => []IndInv
  BY IndInit, IndNext, PTL DEF Spec

(* onRpcMessage never runs a done callback twice, however often a service  *)
(* answers and however often the client reconnects.                        *)
THEOREM DoneOnce == Spec => []DoneAtMostOnce
<1>1. Len(<<>>) = 0 /\ \A c \in Calls : Len(<<c>>) = 1
  OBVIOUS
<1>2. IndInv => DoneAtMostOnce
  <2> SUFFICES ASSUME IndInv, NEW c \in Calls PROVE Len(got[c]) <= 1
    BY DEF DoneAtMostOnce
  <2>1. got[c] = <<>> \/ got[c] = <<c>>
    BY DEF IndInv, Progress
  <2>2. Len(got[c]) = 0 \/ Len(got[c]) = 1
    BY <1>1, <2>1, Zenon
  <2>3. 0 <= 1 /\ 1 <= 1
    OBVIOUS
  <2> QED BY <2>2, <2>3, Zenon
<1> QED BY <1>2, Invariance, PTL

(* A done callback is given the response to its own request.               *)
THEOREM DoneGetsOwnResponse == Spec => []OwnResponse
<1>1. IndInv => OwnResponse
  BY DEF IndInv, Progress, OwnResponse
<1> QED BY <1>1, Invariance, PTL

(* A call stays in outstandings_ under its id until it is answered.        *)
THEOREM CallsKept == Spec => []NoCallForgotten
<1>1. IndInv => NoCallForgotten
  BY DEF IndInv
<1> QED BY <1>1, Invariance, PTL

(* "Unknown RESPONSE" is logged for duplicates only.                       *)
THEOREM UnknownAreDuplicates == Spec => []OnlyDuplicatesUnknown
<1>1. IndInv => OnlyDuplicatesUnknown
  <2> SUFFICES ASSUME IndInv, NEW k \in Conns, NEW i \in 1..Len(s2c[k]),
                      s2c[k][i].type = "RESPONSE", got[s2c[k][i].body] = <<>>
               PROVE  s2c[k][i].id \in DOMAIN outstandings
    BY DEF OnlyDuplicatesUnknown
  <2>1. s2c[k][i].body \in Calls /\ SpeaksOf(s2c[k][i], 1)
    BY Bodies DEF IndInv, ResponsesInFlight
  <2> QED BY <2>1 DEF IndInv, SpeaksOf, NoCallForgotten
<1> QED BY <1>1, Invariance, PTL

(* The channel implements the abstract remote call: every step of the      *)
(* channel is Issue, Execute or Complete of AbstractRpc, or changes        *)
(* nothing the caller can see.                                             *)
THEOREM Refinement == Spec => ImplementsAbstractRpc
<1> USE DEF callStatus
<1>1. Init => Abstract!Init
  BY DEF Init, Abstract!Init
<1>2. IndInv /\ IndInv' /\ [Next]_vars => [Abstract!Next]_(Abstract!vars)
  <2> SUFFICES ASSUME IndInv, IndInv', [Next]_vars
               PROVE  Abstract!Next \/ UNCHANGED Abstract!vars
    OBVIOUS
  <2> USE DEF Abstract!Next, Abstract!vars
  <2>1. ASSUME NEW c \in Calls, NumberCall(c) PROVE Abstract!Issue(c)
    BY <2>1, ZenonT(60) DEF NumberCall, Abstract!Issue, IndInv, TypeOK, Progress
  <2>2. ASSUME NEW c \in Calls, RegisterCall(c) \/ SendRequest(c)
        PROVE  UNCHANGED Abstract!vars
    BY <2>2 DEF RegisterCall, SendRequest, IndInv, TypeOK
  <2>3. ASSUME NEW k \in Conns, OnRequest(k)
        PROVE  Abstract!Execute(Head(c2s[k]).body) /\ Head(c2s[k]).body \in Calls
    <3>1. 1 \in 1..Len(c2s[k]) /\ Head(c2s[k]) = c2s[k][1]
      BY <2>3, TailElements DEF OnRequest, IndInv, TypeOK
    <3>2. Head(c2s[k]).body \in Calls /\ SpeaksOf(Head(c2s[k]), 0)
      BY <3>1, Bodies DEF IndInv, RequestsInFlight
    <3> QED BY <2>3, <3>2 DEF OnRequest, SpeaksOf, Abstract!Execute, IndInv, TypeOK, Progress
  <2>4. ASSUME OnResponse PROVE \E c \in Calls : Abstract!Complete(c)
    <3>1. PICK c \in Calls :
             /\ pc[c] = "sent" /\ executions[c] = 1 /\ got[c] = <<>>
             /\ got' = [got EXCEPT ![c] = <<c>>]
      BY <2>4, OnResponseStep
    <3>2. UNCHANGED <<pc, executions>>
      BY <2>4 DEF OnResponse
    <3>3. <<c>> # <<>>
      OBVIOUS
    <3> QED BY <3>1, <3>2, <3>3 DEF Abstract!Complete, IndInv, TypeOK
  <2>5. ASSUME UNCHANGED <<pc, got, executions>> PROVE UNCHANGED Abstract!vars
    BY <2>5
  <2>6. CASE UNCHANGED vars
    BY <2>5, <2>6 DEF vars
  <2>7. CASE Next
    BY <2>1, <2>2, <2>3, <2>4, <2>5, <2>7
    DEF Next, CallMethod, OnServerMessage, OnClientMessage, ClientConnected,
        ClientDisconnected, ServerConnected, ServerDisconnected,
        OnUnknownRequest, DoneCallback, DoneCallbackNull, RunDone,
        OnUnknownResponse, OnError
  <2> QED BY <2>6, <2>7
<1> QED BY <1>1, <1>2, Invariance, PTL DEF Spec, ImplementsAbstractRpc, Abstract!Spec

-----------------------------------------------------------------------------
(***************************************************************************)
(* What measures the channel: examples/rpcbench2, module EchoBench, by     *)
(* EchoBenchInstance, for every number of clients, threads and requests.   *)
(***************************************************************************)

Meters == 0..(NumThreads - 1)

BenchTypes ==
  /\ prog \in {"client", "bench"}
  /\ stage \in {"connect", "send"} \cup
       (IF prog = "client" THEN {"wait", "done"} ELSE {"stop", "done"})
  /\ nth \in Bench!Clients /\ sends \in 0..NPipeline
  /\ latch \in Int /\ allFinished \in Int
  /\ connection \in [Bench!Clients -> {"none", "up", "lost"}]
  /\ flight \in [Bench!Clients -> Nat] /\ replies \in [Bench!Clients -> Nat]
  /\ ended \in [Bench!Clients -> BOOLEAN]
  /\ stopping \subseteq Bench!Clients
  /\ counts \in [Meters -> Seq(Bench!Clients)]

(* How often the main thread has called sendRequest for c. *)
Issued(c) ==
  IF stage \in {"wait", "stop", "done"} \/ c < nth
    THEN NPipeline
    ELSE IF c = nth /\ stage = "send" THEN sends ELSE 0

(* Each call of the main thread is one loop, in flight until the last      *)
(* reply it waits for: late replies and calls in flight are no more.       *)
LoopFacts ==
  /\ stage # "send" => sends = 0
  /\ stage = "connect" /\ prog = "client" => nth = 1
  /\ \A c \in Bench!Clients :
       /\ flight[c] <= Issued(c)
       /\ prog = "client" /\ replies[c] >= KRequests =>
            (replies[c] - KRequests) + flight[c] + 1 <= Issued(c)

(* allFinished has been counted down once for each client that has had its *)
(* replies.                                                                *)
ClientFacts ==
  prog = "client" =>
    /\ stopping = {}
    /\ \A c \in Bench!Clients : ended[c] <=> replies[c] >= KRequests
    /\ allFinished = NumClients - Cardinality({c \in Bench!Clients : ended[c]})
    /\ stage = "done" => \A c \in Bench!Clients : ended[c]

(* Connections come up in the order of the clients, and each is stopped    *)
(* once, in that order, when all are up.                                   *)
BenchFacts ==
  prog = "bench" =>
    /\ \A c \in Bench!Clients :
         /\ stage \in {"stop", "done"} \/ c < nth \/ (c = nth /\ stage = "send") =>
              connection[c] # "none"
         /\ stage \in {"connect", "send"} /\ nth < c => connection[c] = "none"
         /\ stage \in {"connect", "send"} => ~ended[c]
         /\ stage = "stop" /\ ended[c] => c < nth
         /\ c \in stopping => ~ended[c] /\ (stage = "done" \/ (stage = "stop" /\ c < nth))
    /\ stage = "connect" => latch = IF connection[nth] = "none" THEN 1 ELSE 0

(* A meter has each client of its thread that is connected and not yet     *)
(* stopped, once.                                                          *)
Metered(c, t) == Bench!ThreadOf(c) = t /\ connection[c] # "none" /\ ~ended[c]
MeterOf(t) ==
  /\ \A c \in Bench!Clients : Metered(c, t) <=> \E j \in 1..Len(counts[t]) : counts[t][j] = c
  /\ \A j, l \in 1..Len(counts[t]) : counts[t][j] = counts[t][l] => j = l
MeterFacts == prog = "bench" => \A t \in Meters : MeterOf(t)

BenchInv == BenchTypes /\ LoopFacts /\ ClientFacts /\ BenchFacts /\ MeterFacts

-----------------------------------------------------------------------------
(* Counting. *)

LEMMA BenchThreads ==
  ASSUME BenchAssumed, NEW c \in Bench!Clients
  PROVE  Bench!ThreadOf(c) \in Meters /\ Bench!Clients \subseteq Nat /\ 1 \in Bench!Clients
BY DEF BenchAssumed, Bench!ThreadOf, Bench!Clients, Meters

(* The clients that have ended, before and after one more. *)
LEMMA CountEnded ==
  ASSUME BenchAssumed
  PROVE  /\ IsFiniteSet(Bench!Clients) /\ Cardinality(Bench!Clients) = NumClients
         /\ \A E \in SUBSET Bench!Clients :
              /\ IsFiniteSet(E) /\ Cardinality(E) \in 0..NumClients
              /\ Cardinality(E) = NumClients => E = Bench!Clients
              /\ \A c \in Bench!Clients \ E : Cardinality(E \cup {c}) = Cardinality(E) + 1
<1>1. /\ IsFiniteSet(Bench!Clients) /\ Cardinality(Bench!Clients) = NumClients
  BY FS_Interval DEF BenchAssumed, Bench!Clients
<1>2. ASSUME NEW E \in SUBSET Bench!Clients
      PROVE  /\ IsFiniteSet(E) /\ Cardinality(E) \in 0..NumClients
             /\ Cardinality(E) = NumClients => E = Bench!Clients
  BY <1>1, FS_Subset, FS_CardinalityType DEF BenchAssumed
<1>3. ASSUME NEW E \in SUBSET Bench!Clients, NEW c \in Bench!Clients \ E
      PROVE  Cardinality(E \cup {c}) = Cardinality(E) + 1
  BY <1>2, FS_AddElement
<1> QED BY <1>1, <1>2, <1>3

(* The instance counts as this module does. *)
LEMMA BenchCardinality ==
  ASSUME NEW S PROVE Bench!Cardinality(S) = Cardinality(S)
BY Zenon DEF Cardinality, Bench!Cardinality

(* A sequence without duplicates is as long as it has elements. *)
LEMMA LengthOfSet ==
  ASSUME NEW S, NEW s \in Seq(S), \A j, l \in 1..Len(s) : s[j] = s[l] => j = l
  PROVE  Len(s) = Bench!Cardinality(Bench!ToSet(s))
<1> DEFINE D == {s[j] : j \in 1..Len(s)}
           f == [j \in 1..Len(s) |-> s[j]]
<1>1. Len(s) \in Nat /\ DOMAIN s = 1..Len(s)
  OBVIOUS
<1>2. IsFiniteSet(1..Len(s)) /\ Cardinality(1..Len(s)) = Len(s)
  BY <1>1, FS_Interval, SMTT(20)
<1>3. f \in Bijection(1..Len(s), D)
  <2>1. f \in [1..Len(s) -> D] /\ \A d \in D : \E j \in 1..Len(s) : f[j] = d
    OBVIOUS
  <2>2. \A j, l \in 1..Len(s) : f[j] = f[l] => j = l
    OBVIOUS
  <2> HIDE DEF f, D
  <2> QED BY <2>1, <2>2 DEF Bijection, Injection, IsInjective, Surjection
<1>4. Cardinality(D) = Len(s)
  <2> HIDE DEF f, D
  <2> QED BY <1>2, <1>3, FS_Bijection DEF ExistsBijection
<1>5. Bench!ToSet(s) = D
  BY <1>1 DEF Bench!ToSet
<1> QED BY <1>4, <1>5, BenchCardinality, Zenon

-----------------------------------------------------------------------------
(* Initially, and the steps of the loop threads. *)

LEMMA BenchStart ==
  ASSUME BenchAssumed, Bench!Init PROVE BenchInv
<1>1. 1 \in Bench!Clients /\ Bench!Clients \subseteq Nat
  BY BenchThreads DEF BenchAssumed, Bench!Clients
<1>2. BenchTypes
  <2>1. counts \in [Meters -> Seq(Bench!Clients)]
    BY DEF Bench!Init, Meters
  <2> QED BY <1>1, <2>1 DEF Bench!Init, BenchTypes, BenchAssumed
<1>3. LoopFacts
  BY <1>1 DEF Bench!Init, LoopFacts, Issued, BenchAssumed
<1>4. ClientFacts
  <2>1. {c \in Bench!Clients : ended[c]} = {}
    BY DEF Bench!Init
  <2>2. Cardinality({c \in Bench!Clients : ended[c]}) = 0
    BY <2>1, FS_EmptySet
  <2> QED BY <1>1, <2>2 DEF Bench!Init, ClientFacts, BenchAssumed
<1>5. BenchFacts
  <2>1. /\ \A c \in Bench!Clients : connection[c] = "none" /\ ended[c] = FALSE
        /\ nth = 1 /\ stage = "connect" /\ stopping = {} /\ (prog = "bench" => latch = 1)
    BY DEF Bench!Init
  <2>2. \A c \in Bench!Clients : ~(c < 1)
    BY DEF Bench!Clients
  <2> QED BY <1>1, <2>1, <2>2 DEF BenchFacts
<1>6. MeterFacts
  <2>1. \A t \in Meters : counts[t] = <<>>
    BY DEF Bench!Init, Meters
  <2>2. \A c \in Bench!Clients : connection[c] = "none"
    BY DEF Bench!Init
  <2> QED BY <2>1, <2>2 DEF MeterFacts, MeterOf, Metered
<1> QED BY <1>2, <1>3, <1>4, <1>5, <1>6 DEF BenchInv

(* What a meter has to count depends on little. *)
LEMMA MeterFrame ==
  ASSUME BenchAssumed, BenchTypes, MeterFacts, UNCHANGED <<prog, ended, counts>>,
         \A c \in Bench!Clients : (connection'[c] = "none") <=> (connection[c] = "none")
  PROVE  MeterFacts'
<1>1. ASSUME NEW c \in Bench!Clients, NEW t PROVE Metered(c, t)' <=> Metered(c, t)
  BY DEF Metered, Bench!ThreadOf
<1> QED BY <1>1 DEF MeterFacts, MeterOf, Meters, Bench!Clients

LEMMA BenchOnConnectionClient ==
  ASSUME BenchAssumed, BenchInv, NEW c \in Bench!Clients, Bench!OnConnectionClient(c)
  PROVE  BenchInv'
<1>1. /\ prog = "client" /\ connection' = [connection EXCEPT ![c] = "up"] /\ latch' = latch - 1
      /\ UNCHANGED <<prog, stage, nth, sends, stopping, allFinished, flight, replies, ended,
                     counts, lastTotal>>
  BY DEF Bench!OnConnectionClient, Bench!main, Bench!calls, Bench!meter
<1>2. BenchTypes /\ LoopFacts /\ ClientFacts
  BY DEF BenchInv
<1>3. BenchTypes'
  BY <1>1, <1>2 DEF BenchTypes, Meters, Bench!Clients
<1>4. LoopFacts' /\ ClientFacts'
  BY <1>1, <1>2 DEF LoopFacts, ClientFacts, Issued, Bench!Clients
<1>5. BenchFacts' /\ MeterFacts'
  BY <1>1 DEF BenchFacts, MeterFacts
<1> QED BY <1>3, <1>4, <1>5 DEF BenchInv

(* addConnection: the client was not metered, as it was not connected. *)
LEMMA BenchOnConnectionBench ==
  ASSUME BenchAssumed, BenchInv, NEW c \in Bench!Clients, Bench!OnConnectionBench(c)
  PROVE  BenchInv'
<1> DEFINE th == Bench!ThreadOf(c)
<1>1. /\ prog = "bench" /\ c = nth /\ stage = "connect" /\ connection[c] = "none"
      /\ connection' = [connection EXCEPT ![c] = "up"] /\ latch' = latch - 1
      /\ counts' = [counts EXCEPT ![th] = Append(@, c)]
      /\ UNCHANGED <<prog, stage, nth, sends, stopping, allFinished, flight, replies, ended,
                     lastTotal>>
  BY DEF Bench!OnConnectionBench, Bench!main, Bench!calls
<1>2. BenchTypes /\ LoopFacts /\ BenchFacts /\ MeterFacts /\ th \in Meters
  BY BenchThreads DEF BenchInv
<1> HIDE DEF th
<1>3. counts[th] \in Seq(Bench!Clients) /\ counts'[th] = Append(counts[th], c)
      /\ counts'[th] \in Seq(Bench!Clients) /\ \A t \in Meters \ {th} : counts'[t] = counts[t]
  BY <1>1, <1>2 DEF BenchTypes
<1>4. BenchTypes'
  <2>1. counts' \in [Meters -> Seq(Bench!Clients)]
    BY <1>1, <1>2, <1>3 DEF BenchTypes
  <2> QED BY <1>1, <1>2, <2>1 DEF BenchTypes, Meters, Bench!Clients
<1>5. LoopFacts' /\ ClientFacts'
  BY <1>1, <1>2 DEF LoopFacts, ClientFacts, Issued, Bench!Clients
<1>6. connection'[c] = "up" /\ \A d \in Bench!Clients \ {c} : connection'[d] = connection[d]
  BY <1>1, <1>2 DEF BenchTypes
<1>7. BenchFacts'
  BY <1>1, <1>2, <1>6, BenchThreads DEF BenchFacts, BenchTypes, Bench!Clients
<1>8. MeterFacts'
  <2>1. ASSUME NEW d \in Bench!Clients, NEW t
        PROVE  Metered(d, t)' <=> Metered(d, t) \/ (d = c /\ t = th)
    BY <1>1, <1>2, <1>6 DEF Metered, Bench!ThreadOf, BenchFacts, th
  <2>2. ~\E t : Metered(c, t)
    BY <1>1 DEF Metered
  <2>4. ASSUME NEW t \in Meters, t # th PROVE MeterOf(t)'
    <3>1. MeterOf(t) /\ counts'[t] = counts[t]
      BY <1>1, <1>2, <1>3, <2>4 DEF MeterFacts
    <3> QED BY <2>1, <2>4, <3>1 DEF MeterOf, Bench!Clients
  <2>5. /\ Len(counts'[th]) = Len(counts[th]) + 1 /\ Len(counts[th]) \in Nat
        /\ counts'[th][Len(counts[th]) + 1] = c
        /\ \A j \in 1..Len(counts[th]) : counts'[th][j] = counts[th][j]
    BY <1>3, AppendProperties
  <2>6. MeterOf(th)
    BY <1>1, <1>2 DEF MeterFacts
  <2>7. \A j \in 1..Len(counts[th]) : counts[th][j] # c
    BY <2>2, <2>6 DEF MeterOf
  <2>8. ASSUME NEW d \in Bench!Clients
        PROVE  Metered(d, th)' <=> \E j \in 1..Len(counts'[th]) : counts'[th][j] = d
    BY <2>1, <2>5, <2>6, SMTT(20) DEF MeterOf
  <2>9. ASSUME NEW j \in 1..Len(counts'[th]), NEW l \in 1..Len(counts'[th]),
               counts'[th][j] = counts'[th][l]
        PROVE  j = l
    <3>1. j \in 1..Len(counts[th]) \/ j = Len(counts[th]) + 1
      BY <2>5
    <3>2. l \in 1..Len(counts[th]) \/ l = Len(counts[th]) + 1
      BY <2>5
    <3> QED BY <2>5, <2>6, <2>7, <2>9, <3>1, <3>2 DEF MeterOf
  <2>10. MeterOf(th)'
    BY <2>8, <2>9 DEF MeterOf, Bench!Clients, th, Bench!ThreadOf
  <2> QED BY <1>1, <2>4, <2>10 DEF MeterFacts, Meters
<1> QED BY <1>4, <1>5, <1>7, <1>8 DEF BenchInv

LEMMA BenchConnectionLost ==
  ASSUME BenchAssumed, BenchInv, NEW c \in Bench!Clients, Bench!ConnectionLost(c)
  PROVE  BenchInv'
<1>1. /\ connection[c] = "up" /\ connection' = [connection EXCEPT ![c] = "lost"]
      /\ flight' = [flight EXCEPT ![c] = 0]
      /\ UNCHANGED <<prog, stage, nth, sends, stopping, latch, allFinished, replies, ended,
                     counts, lastTotal>>
  BY DEF Bench!ConnectionLost, Bench!main, Bench!meter
<1>2. BenchTypes /\ LoopFacts /\ ClientFacts /\ BenchFacts /\ MeterFacts
  BY DEF BenchInv
<1>3. BenchTypes'
  BY <1>1, <1>2 DEF BenchTypes, Meters, Bench!Clients
<1>4. \A d \in Bench!Clients : /\ (connection'[d] = "none") <=> (connection[d] = "none")
                               /\ flight'[d] \in Nat /\ flight'[d] <= flight[d]
  BY <1>1, <1>2 DEF BenchTypes
<1>5. LoopFacts'
  <2>1. \A d \in Bench!Clients : Issued(d)' = Issued(d) /\ Issued(d) \in Nat
    BY <1>1, <1>2 DEF Issued, BenchTypes, BenchAssumed
  <2>2. \A d \in Bench!Clients :
          /\ flight[d] \in Nat /\ flight'[d] \in Nat /\ flight'[d] <= flight[d]
          /\ replies[d] \in Nat /\ Issued(d)' = Issued(d) /\ Issued(d) \in Nat /\ KRequests \in Nat
    BY <1>2, <1>4, <2>1 DEF BenchTypes, BenchAssumed
  <2> QED BY <1>1, <1>2, <2>2 DEF LoopFacts, Bench!Clients
<1>6. ClientFacts'
  BY <1>1, <1>2 DEF ClientFacts, Bench!Clients
<1>7. BenchFacts'
  BY <1>1, <1>2, <1>4 DEF BenchFacts, BenchTypes, Bench!Clients
<1> QED BY <1>1, <1>2, <1>3, <1>4, <1>5, <1>6, <1>7, MeterFrame DEF BenchInv

(* What Issued allows a client. *)
LEMMA IssuedFacts ==
  ASSUME BenchAssumed, BenchTypes, NEW c \in Bench!Clients
  PROVE  /\ Issued(c) \in 0..NPipeline /\ c \in Nat /\ nth \in Nat /\ c <= NumClients
         /\ flight[c] \in Nat /\ replies[c] \in Nat /\ KRequests \in Nat /\ NPipeline \in Nat
BY BenchThreads DEF Issued, BenchTypes, BenchAssumed, Bench!Clients

(* replied of client.cc: the reply goes on with the loop or ends it. *)
LEMMA BenchRepliedClient ==
  ASSUME BenchAssumed, BenchInv, NEW c \in Bench!Clients, Bench!RepliedClient(c)
  PROVE  BenchInv'
<1>1. /\ prog = "client" /\ flight[c] > 0
      /\ replies' = [replies EXCEPT ![c] = @ + 1]
      /\ flight' = IF replies[c] + 1 < KRequests THEN flight ELSE [flight EXCEPT ![c] = @ - 1]
      /\ ended' = [ended EXCEPT ![c] = @ \/ Bench!CountsDown(c)]
      /\ allFinished' = IF Bench!CountsDown(c) THEN allFinished - 1 ELSE allFinished
      /\ UNCHANGED <<prog, stage, nth, sends, stopping, latch, connection, counts, lastTotal>>
  BY DEF Bench!RepliedClient, Bench!main, Bench!meter
<1>2. BenchTypes /\ LoopFacts /\ ClientFacts
  BY DEF BenchInv
<1>3. /\ replies'[c] = replies[c] + 1 /\ \A d \in Bench!Clients \ {c} : replies'[d] = replies[d]
      /\ flight'[c] = IF replies[c] + 1 < KRequests THEN flight[c] ELSE flight[c] - 1
      /\ \A d \in Bench!Clients \ {c} : flight'[d] = flight[d]
      /\ ended'[c] <=> ended[c] \/ Bench!CountsDown(c)
      /\ \A d \in Bench!Clients \ {c} : ended'[d] = ended[d]
  BY <1>1, <1>2 DEF BenchTypes
<1>4. \A d \in Bench!Clients :
        /\ Issued(d) \in 0..NPipeline /\ flight[d] \in Nat /\ replies[d] \in Nat
        /\ Issued(d)' = Issued(d) /\ KRequests \in Nat
  BY <1>1, <1>2, IssuedFacts DEF Issued
<1>5. Bench!CountsDown(c) <=> replies[c] + 1 >= KRequests /\ ~ended[c]
  BY DEF Bench!CountsDown
<1>6. BenchTypes'
  <2>1. /\ replies' \in [Bench!Clients -> Nat] /\ flight' \in [Bench!Clients -> Nat]
        /\ ended' \in [Bench!Clients -> BOOLEAN] /\ allFinished' \in Int
    <3>1. flight[c] - 1 \in Nat /\ replies[c] + 1 \in Nat
      BY <1>1, <1>4
    <3>2. allFinished' \in Int
      BY <1>1, <1>2 DEF BenchTypes
    <3>3. ended' \in [Bench!Clients -> BOOLEAN]
      BY <1>1, <1>2, <1>5 DEF BenchTypes
    <3> QED BY <1>1, <1>2, <3>1, <3>2, <3>3 DEF BenchTypes
  <2> QED BY <1>1, <1>2, <2>1 DEF BenchTypes, Meters, Bench!Clients
<1>7. LoopFacts'
  <2>1. ASSUME NEW d \in Bench!Clients
        PROVE  /\ flight'[d] <= Issued(d)
               /\ replies'[d] >= KRequests =>
                    (replies'[d] - KRequests) + flight'[d] + 1 <= Issued(d)
    <3>1. /\ flight[d] <= Issued(d)
          /\ replies[d] >= KRequests => (replies[d] - KRequests) + flight[d] + 1 <= Issued(d)
      BY <1>1, <1>2 DEF LoopFacts
    <3>2. CASE d = c
      BY <1>1, <1>3, <1>4, <3>1, <3>2
    <3>3. CASE d # c
      BY <1>3, <3>1, <3>3
    <3> QED BY <3>2, <3>3
  <2> QED BY <1>1, <1>2, <1>4, <2>1 DEF LoopFacts, Bench!Clients
<1>8. ClientFacts'
  <2> DEFINE E == {d \in Bench!Clients : ended[d]}
             E1 == {d \in Bench!Clients : ended'[d]}
  <2>1. /\ stopping = {} /\ allFinished = NumClients - Cardinality(E)
        /\ \A d \in Bench!Clients : ended[d] <=> replies[d] >= KRequests
        /\ stage = "done" => \A d \in Bench!Clients : ended[d]
    BY <1>1, <1>2 DEF ClientFacts
  <2>2. \A d \in Bench!Clients : ended'[d] <=> replies'[d] >= KRequests
    BY <1>3, <1>4, <1>5, <2>1
  <2>3. \A d \in Bench!Clients : ended[d] => ended'[d]
    BY <1>3
  <2>4. allFinished' = NumClients - Cardinality(E1)
    <3>1. CASE Bench!CountsDown(c)
      <4>1. E1 = E \cup {c} /\ c \notin E /\ E \in SUBSET Bench!Clients
        BY <1>3, <1>5, <3>1
      <4>2. Cardinality(E1) = Cardinality(E) + 1 /\ Cardinality(E) \in Nat
        <5> HIDE DEF E, E1
        <5> QED BY <4>1, CountEnded
      <4> QED BY <1>1, <2>1, <3>1, <4>2 DEF BenchAssumed
    <3>2. CASE ~Bench!CountsDown(c)
      <4>1. E1 = E
        BY <1>3, <3>2
      <4> QED BY <1>1, <2>1, <3>2, <4>1
    <3> QED BY <3>1, <3>2
  <2> QED BY <1>1, <2>1, <2>2, <2>3, <2>4 DEF ClientFacts, Bench!Clients
<1>9. BenchFacts' /\ MeterFacts'
  BY <1>1 DEF BenchFacts, MeterFacts
<1> QED BY <1>6, <1>7, <1>8, <1>9 DEF BenchInv

LEMMA BenchRepliedBench ==
  ASSUME BenchAssumed, BenchInv, NEW c \in Bench!Clients, Bench!RepliedBench(c)
  PROVE  BenchInv'
<1>1. /\ prog = "bench" /\ flight[c] > 0
      /\ replies' = [replies EXCEPT ![c] = @ + 1]
      /\ flight' = IF ended[c] THEN [flight EXCEPT ![c] = @ - 1] ELSE flight
      /\ UNCHANGED <<prog, stage, nth, sends, stopping, latch, allFinished, connection, ended, counts,
                     lastTotal>>
  BY DEF Bench!RepliedBench, Bench!main, Bench!meter
<1>2. BenchTypes /\ LoopFacts /\ BenchFacts /\ MeterFacts
  BY DEF BenchInv
<1>3. \A d \in Bench!Clients :
        /\ Issued(d) \in 0..NPipeline /\ flight[d] \in Nat /\ replies[d] \in Nat
        /\ Issued(d)' = Issued(d)
  BY <1>1, <1>2, IssuedFacts DEF Issued
<1>4. flight' \in [Bench!Clients -> Nat] /\ replies' \in [Bench!Clients -> Nat]
  <2>1. flight[c] - 1 \in Nat /\ replies[c] + 1 \in Nat
    BY <1>1, <1>3
  <2> QED BY <1>1, <1>2, <2>1 DEF BenchTypes
<1>5. BenchTypes'
  BY <1>1, <1>2, <1>4 DEF BenchTypes, Meters, Bench!Clients
<1>6. \A d \in Bench!Clients : flight'[d] <= flight[d] /\ flight'[d] \in Nat
  BY <1>1, <1>2, <1>3, <1>4 DEF BenchTypes
<1>7. LoopFacts'
  <2>1. \A d \in Bench!Clients : flight'[d] <= Issued(d)'
    BY <1>2, <1>3, <1>6 DEF LoopFacts
  <2> QED BY <1>1, <1>2, <2>1 DEF LoopFacts, Bench!Clients
<1>8. ClientFacts' /\ BenchFacts'
  BY <1>1, <1>2 DEF ClientFacts, BenchFacts, Bench!Clients
<1> QED BY <1>1, <1>2, <1>5, <1>7, <1>8, MeterFrame DEF BenchInv

(* removeConnection: the last takes the place of c. *)
LEMMA RemovedElements ==
  ASSUME NEW S, NEW s \in Seq(S), NEW p \in 1..Len(s),
         \A j, l \in 1..Len(s) : s[j] = s[l] => j = l
  PROVE  LET r == Bench!Removed(s, s[p])
         IN  /\ r \in Seq(S)
             /\ \A e : (\E j \in 1..Len(r) : r[j] = e) <=> (e # s[p] /\ \E j \in 1..Len(s) : s[j] = e)
             /\ \A j, l \in 1..Len(r) : r[j] = r[l] => j = l
<1> DEFINE n == Len(s)
           c == s[p]
           u == [s EXCEPT ![p] = s[n]]
           r == SubSeq(u, 1, n - 1)
           old(j) == IF j = p THEN n ELSE j
<1>1. n \in Nat /\ 1 <= n /\ p \in 1..n /\ n \in 1..n /\ \A j \in 1..n : s[j] \in S
  BY ElementOfSeq, LenProperties
<1>2. Bench!SelectInSeq(s, LAMBDA x : x = c) = p
  <2> DEFINE I == {j \in 1..Len(s) : s[j] = c}
  <2>1. I = {p}
    OBVIOUS
  <2>2. Bench!Min({p}) = p
    BY <1>1 DEF Bench!Min
  <2>3. Bench!SelectInSeq(s, LAMBDA x : x = c) = IF I # {} THEN Bench!Min(I) ELSE 0
    BY DEF Bench!SelectInSeq
  <2> QED BY <2>1, <2>2, <2>3
<1>3. u \in Seq(S) /\ Len(u) = n /\ \A j \in 1..n : u[j] = s[old(j)]
  <2>1. DOMAIN s = 1..n /\ s \in [1..n -> S]
    BY <1>1
  <2>2. u \in [1..n -> S] /\ \A j \in 1..n : u[j] = s[old(j)]
    BY <1>1, <2>1
  <2>3. u \in Seq(S) /\ DOMAIN u = 1..n
    <3> HIDE DEF u, n
    <3> QED BY <1>1, <2>2
  <2> QED BY <1>1, <2>2, <2>3, LenProperties
<1>4. Bench!Removed(s, c) = r
  BY <1>2, <1>3 DEF Bench!Removed, Bench!Front, Bench!Last
<1>5. r \in Seq(S) /\ Len(r) = n - 1 /\ \A j \in 1..(n - 1) : r[j] = s[old(j)]
  <2>1. 1 \in 1..(Len(u) + 1) /\ n - 1 \in 0..Len(u)
    BY <1>1, <1>3
  <2> HIDE DEF u, n
  <2>2. r \in Seq(S) /\ Len(r) = (IF 1 <= n - 1 THEN n - 1 ELSE 0)
        /\ \A j \in 1..(n - 1) : r[j] = u[j]
    BY <1>1, <1>3, <2>1
  <2> QED BY <1>1, <1>3, <2>2
<1> HIDE DEF r, u, n, c
<1>6. \A j \in 1..(n - 1) : old(j) \in 1..n /\ old(j) # p /\ j \in 1..n
  BY <1>1
<1>7. \A j, l \in 1..n : s[j] = s[l] => j = l
  BY DEF n
<1>8. ASSUME NEW j \in 1..(n - 1), NEW l \in 1..(n - 1), r[j] = r[l] PROVE j = l
  <2>1. old(j) = old(l)
    BY <1>5, <1>6, <1>7, <1>8
  <2> QED BY <1>1, <1>6, <2>1
<1>9. ASSUME NEW j \in 1..(n - 1) PROVE r[j] # c /\ \E l \in 1..n : s[l] = r[j]
  <2>1. r[j] = s[old(j)] /\ old(j) \in 1..n /\ old(j) # p
    BY <1>5, <1>6
  <2> HIDE DEF old
  <2> QED BY <1>1, <1>7, <2>1 DEF c
<1>10. ASSUME NEW l \in 1..n, s[l] # c PROVE \E j \in 1..(n - 1) : r[j] = s[l]
  <2>1. l # p
    BY <1>10 DEF c
  <2>2. CASE l = n
    <3>1. p \in 1..(n - 1) /\ old(p) = n
      BY <1>1, <2>1, <2>2
    <3> QED BY <1>5, <2>2, <3>1
  <2>3. CASE l # n
    <3>1. l \in 1..(n - 1) /\ old(l) = l
      BY <1>1, <2>1, <2>3
    <3> QED BY <1>5, <3>1
  <2> QED BY <2>2, <2>3
<1>11. \A e : (\E j \in 1..(n - 1) : r[j] = e) <=> (e # c /\ \E j \in 1..n : s[j] = e)
  BY <1>9, <1>10
<1> QED BY <1>4, <1>5, <1>8, <1>11 DEF n, c

(* stopInLoop: the client is in the meter of its thread, once. *)
LEMMA BenchStopInLoop ==
  ASSUME BenchAssumed, BenchInv, NEW c \in Bench!Clients, Bench!StopInLoop(c)
  PROVE  BenchInv'
<1> DEFINE th == Bench!ThreadOf(c)
<1>1. /\ c \in stopping /\ stopping' = stopping \ {c} /\ ended' = [ended EXCEPT ![c] = TRUE]
      /\ IF Bench!Contains(counts[th], c)
           THEN counts' = [counts EXCEPT ![th] = Bench!Removed(@, c)] /\ UNCHANGED stage
           ELSE stage' = "assert" /\ UNCHANGED counts
      /\ UNCHANGED <<prog, nth, sends, latch, allFinished, connection, flight, replies, lastTotal>>
  BY DEF Bench!StopInLoop
<1>2. BenchTypes /\ LoopFacts /\ ClientFacts /\ BenchFacts /\ MeterFacts /\ th \in Meters
  BY BenchThreads DEF BenchInv
<1>3. /\ prog = "bench" /\ ~ended[c] /\ (stage = "done" \/ (stage = "stop" /\ c < nth))
      /\ connection[c] # "none" /\ \A d \in Bench!Clients : d # c => ended'[d] = ended[d]
      /\ ended'[c] = TRUE
  BY <1>1, <1>2 DEF BenchTypes, ClientFacts, BenchFacts
<1> HIDE DEF th
<1>4. MeterOf(th) /\ counts[th] \in Seq(Bench!Clients)
  BY <1>2, <1>3 DEF MeterFacts, BenchTypes
<1>5. PICK p \in 1..Len(counts[th]) : counts[th][p] = c
  <2>1. Metered(c, th)
    BY <1>3 DEF Metered, th
  <2> QED BY <1>4, <2>1 DEF MeterOf
<1>6. /\ counts' = [counts EXCEPT ![th] = Bench!Removed(@, c)] /\ UNCHANGED stage
  BY <1>1, <1>5 DEF Bench!Contains
<1> DEFINE r == Bench!Removed(counts[th], c)
<1>7. /\ r \in Seq(Bench!Clients)
      /\ \A e : (\E j \in 1..Len(r) : r[j] = e)
                  <=> (e # c /\ \E j \in 1..Len(counts[th]) : counts[th][j] = e)
      /\ \A j, l \in 1..Len(r) : r[j] = r[l] => j = l
  <2> DEFINE s == counts[th]
             q == Bench!Removed(s, s[p])
  <2>1. s \in Seq(Bench!Clients) /\ \A j, l \in 1..Len(s) : s[j] = s[l] => j = l
    BY <1>4 DEF MeterOf
  <2>2. /\ q \in Seq(Bench!Clients)
        /\ \A e : (\E j \in 1..Len(q) : q[j] = e) <=> (e # s[p] /\ \E j \in 1..Len(s) : s[j] = e)
        /\ \A j, l \in 1..Len(q) : q[j] = q[l] => j = l
    <3> HIDE DEF s
    <3>1. p \in 1..Len(s)
      BY <1>5 DEF s
    <3> QED BY <2>1, <3>1, RemovedElements, ZenonT(40)
  <2>3. q = r /\ s[p] = c
    BY <1>5
  <2> HIDE DEF q, r
  <2> QED BY <2>2, <2>3
<1>8. counts'[th] = r /\ \A t \in Meters : t # th => counts'[t] = counts[t]
  BY <1>2, <1>6 DEF BenchTypes
<1> HIDE DEF r
<1>9. BenchTypes'
  <2>1. counts' \in [Meters -> Seq(Bench!Clients)]
    BY <1>2, <1>6, <1>7 DEF BenchTypes, r
  <2>2. ended' \in [Bench!Clients -> BOOLEAN] /\ stopping' \subseteq Bench!Clients
    BY <1>1, <1>2 DEF BenchTypes
  <2> QED BY <1>1, <1>2, <1>6, <2>1, <2>2 DEF BenchTypes, Meters, Bench!Clients
<1>10. LoopFacts' /\ ClientFacts'
  BY <1>1, <1>2, <1>3, <1>6 DEF LoopFacts, ClientFacts, Issued, Bench!Clients
<1>11. BenchFacts'
  BY <1>1, <1>2, <1>3, <1>6 DEF BenchFacts, Bench!Clients
<1>12. MeterFacts'
  <2>1. ASSUME NEW d \in Bench!Clients, NEW t PROVE Metered(d, t)' <=> Metered(d, t) /\ d # c
    BY <1>1, <1>3 DEF Metered, Bench!ThreadOf
  <2>2. ASSUME NEW t \in Meters, t # th PROVE MeterOf(t)'
    <3>1. MeterOf(t) /\ counts'[t] = counts[t] /\ ~Metered(c, t)
      BY <1>2, <1>3, <1>8, <2>2 DEF MeterFacts, Metered, th
    <3> QED BY <2>1, <3>1 DEF MeterOf, Bench!Clients
  <2>3. \A d \in Bench!Clients :
          Metered(d, th)' <=> \E j \in 1..Len(counts'[th]) : counts'[th][j] = d
    BY <1>4, <1>7, <1>8, <2>1, ZenonT(30) DEF MeterOf
  <2>4. MeterOf(th)'
    BY <1>7, <1>8, <2>3 DEF MeterOf, Bench!Clients, th, Bench!ThreadOf
  <2> QED BY <2>2, <2>4 DEF MeterFacts, Meters
<1> QED BY <1>9, <1>10, <1>11, <1>12 DEF BenchInv

LEMMA BenchPrintPerThread ==
  ASSUME BenchAssumed, BenchInv, NEW t \in Meters, Bench!PrintPerThread(t)
  PROVE  BenchInv'
<1>1. UNCHANGED <<prog, stage, nth, sends, stopping, latch, allFinished, connection, flight, replies,
                  ended, counts>>
  BY DEF Bench!PrintPerThread, Bench!main, Bench!calls
<1> QED BY <1>1 DEF BenchInv, BenchTypes, LoopFacts, ClientFacts, BenchFacts, MeterFacts, MeterOf,
     Metered, Issued, Meters, Bench!Clients, Bench!ThreadOf

-----------------------------------------------------------------------------
(* The steps of the main thread. *)

(* What they leave to the loops. *)
LEMMA MainFrame ==
  ASSUME BenchAssumed, BenchInv,
         UNCHANGED <<prog, allFinished, connection, flight, replies, ended, counts, lastTotal>>,
         stage' \in {"connect", "send"} \cup
                      (IF prog = "client" THEN {"wait", "done"} ELSE {"stop", "done"}),
         nth' \in Bench!Clients, sends' \in 0..NPipeline, latch' \in Int,
         stopping' \subseteq Bench!Clients
  PROVE  BenchTypes' /\ MeterFacts'
<1>1. BenchTypes /\ MeterFacts
  BY DEF BenchInv
<1>2. BenchTypes'
  BY <1>1 DEF BenchTypes, Meters, Bench!Clients
<1> QED BY <1>1, <1>2, MeterFrame

(* The pipeline of a client only grows. *)
LEMMA LoopFrame ==
  ASSUME BenchAssumed, BenchInv, UNCHANGED <<prog, flight, replies>>,
         stage' # "send" => sends' = 0,
         stage' = "connect" /\ prog = "client" => nth' = 1,
         \A c \in Bench!Clients : Issued(c)' \in Int /\ Issued(c) <= Issued(c)'
  PROVE  LoopFacts'
<1>1. BenchTypes /\ LoopFacts
  BY DEF BenchInv
<1>2. ASSUME NEW c \in Bench!Clients
      PROVE  /\ flight[c] <= Issued(c)'
             /\ prog = "client" /\ replies[c] >= KRequests =>
                  (replies[c] - KRequests) + flight[c] + 1 <= Issued(c)'
  <2>1. /\ flight[c] \in Nat /\ replies[c] \in Nat /\ KRequests \in Nat /\ Issued(c) \in Nat
        /\ Issued(c)' \in Int /\ Issued(c) <= Issued(c)'
    BY <1>1, IssuedFacts
  <2> QED BY <1>1, <2>1 DEF LoopFacts
<1> QED BY <1>2 DEF LoopFacts, Bench!Clients

LEMMA BenchWaitConnected ==
  ASSUME BenchAssumed, BenchInv, Bench!WaitConnected PROVE BenchInv'
<1>1. /\ stage = "connect" /\ latch = 0 /\ stage' = "send"
      /\ UNCHANGED <<prog, nth, sends, stopping, latch, allFinished, connection, flight, replies, ended,
                     counts, lastTotal>>
  BY DEF Bench!WaitConnected, Bench!calls, Bench!meter
<1>2. BenchTypes /\ LoopFacts /\ ClientFacts /\ BenchFacts
  BY DEF BenchInv
<1>3. BenchTypes' /\ MeterFacts'
  BY <1>1, <1>2, MainFrame DEF BenchTypes
<1>4. LoopFacts'
  <2>1. \A c \in Bench!Clients : Issued(c)' \in Int /\ Issued(c) <= Issued(c)'
    BY <1>1, <1>2, IssuedFacts DEF Issued, LoopFacts, BenchTypes
  <2> QED BY <1>1, <1>2, <2>1, LoopFrame DEF LoopFacts
<1>5. ClientFacts'
  BY <1>1, <1>2 DEF ClientFacts, Bench!Clients
<1>6. BenchFacts'
  BY <1>1, <1>2 DEF BenchFacts, Bench!Clients
<1> QED BY <1>3, <1>4, <1>5, <1>6 DEF BenchInv

(* One more loop for the client. *)
LEMMA BenchSendRequest ==
  ASSUME BenchAssumed, BenchInv, Bench!SendRequest PROVE BenchInv'
<1>1. /\ stage = "send" /\ sends < NPipeline /\ sends' = sends + 1
      /\ flight' = IF connection[nth] = "up" THEN [flight EXCEPT ![nth] = @ + 1] ELSE flight
      /\ UNCHANGED <<prog, stage, nth, stopping, latch, allFinished, connection, replies, ended, counts,
                     lastTotal>>
  BY DEF Bench!SendRequest, Bench!meter
<1>2. BenchTypes /\ LoopFacts /\ ClientFacts /\ BenchFacts /\ MeterFacts /\ nth \in Bench!Clients
  BY DEF BenchInv, BenchTypes
<1>3. /\ sends \in Nat /\ NPipeline \in Nat /\ sends' \in 0..NPipeline
      /\ \A d \in Bench!Clients :
           /\ flight[d] \in Nat /\ replies[d] \in Nat /\ KRequests \in Nat /\ Issued(d) \in Nat
  BY <1>1, <1>2, IssuedFacts DEF BenchTypes, BenchAssumed
<1>4. flight' \in [Bench!Clients -> Nat]
      /\ \A d \in Bench!Clients : /\ d # nth => flight'[d] = flight[d]
                                  /\ flight'[d] \in Nat /\ flight'[d] <= flight[d] + 1
  <2>1. flight[nth] + 1 \in Nat
    BY <1>2, <1>3
  <2>2. flight' \in [Bench!Clients -> Nat]
    BY <1>1, <1>2, <2>1 DEF BenchTypes
  <2> QED BY <1>1, <1>2, <1>3, <2>2 DEF BenchTypes
<1>5. BenchTypes'
  BY <1>1, <1>2, <1>3, <1>4 DEF BenchTypes, Meters, Bench!Clients
<1>6. Issued(nth) = sends /\ Issued(nth)' = sends + 1
      /\ \A d \in Bench!Clients : d # nth => Issued(d)' = Issued(d)
  <2>1. nth \in Nat /\ nth' = nth
    BY <1>1, <1>2, IssuedFacts
  <2> QED BY <1>1, <2>1 DEF Issued
<1>7. LoopFacts'
  <2>1. ASSUME NEW d \in Bench!Clients
        PROVE  /\ flight'[d] <= Issued(d)'
               /\ prog = "client" /\ replies[d] >= KRequests =>
                    (replies[d] - KRequests) + flight'[d] + 1 <= Issued(d)'
    <3>1. /\ flight[d] <= Issued(d)
          /\ prog = "client" /\ replies[d] >= KRequests =>
               (replies[d] - KRequests) + flight[d] + 1 <= Issued(d)
      BY <1>2 DEF LoopFacts
    <3>2. CASE d = nth
      <4>1. Issued(d) = sends /\ Issued(d)' = sends + 1
        BY <1>1, <1>6, <3>2
      <4> QED BY <1>3, <1>4, <3>1, <4>1
    <3>3. CASE d # nth
      BY <1>4, <1>6, <3>1, <3>3
    <3> QED BY <3>2, <3>3
  <2> QED BY <1>1, <1>2, <2>1 DEF LoopFacts, Bench!Clients
<1>8. ClientFacts' /\ BenchFacts'
  BY <1>1, <1>2 DEF ClientFacts, BenchFacts, Bench!Clients
<1> QED BY <1>1, <1>2, <1>5, <1>7, <1>8, MeterFrame DEF BenchInv

LEMMA BenchNextOfClient ==
  ASSUME BenchAssumed, BenchInv, Bench!NextOfClient PROVE BenchInv'
<1>1. /\ prog = "client" /\ stage = "send" /\ sends = NPipeline /\ sends' = 0
      /\ IF nth < NumClients THEN nth' = nth + 1 /\ UNCHANGED stage
                             ELSE nth' = 1 /\ stage' = "wait"
      /\ UNCHANGED <<prog, stopping, latch, allFinished, connection, flight, replies, ended, counts,
                     lastTotal>>
  BY DEF Bench!NextOfClient, Bench!calls, Bench!meter
<1>2. BenchTypes /\ LoopFacts /\ ClientFacts
  BY DEF BenchInv
<1>3. nth' \in Bench!Clients /\ NPipeline \in Nat /\ nth \in Nat
  BY <1>1, <1>2 DEF BenchTypes, Bench!Clients, BenchAssumed
<1>4. BenchTypes' /\ MeterFacts'
  BY <1>1, <1>2, <1>3, MainFrame DEF BenchTypes
<1>5. LoopFacts'
  <2>1. ASSUME NEW c \in Bench!Clients PROVE Issued(c)' \in Int /\ Issued(c) <= Issued(c)'
    <3>1. c \in Nat /\ c <= NumClients /\ NumClients \in Nat /\ Issued(c) \in 0..NPipeline
      BY <1>2, IssuedFacts DEF BenchAssumed
    <3> QED BY <1>1, <1>3, <3>1 DEF Issued
  <2> QED BY <1>1, <1>2, <2>1, LoopFrame
<1>6. ClientFacts'
  BY <1>1, <1>2 DEF ClientFacts, Bench!Clients
<1>7. BenchFacts'
  BY <1>1 DEF BenchFacts
<1> QED BY <1>4, <1>5, <1>6, <1>7 DEF BenchInv

LEMMA BenchNextOfBench ==
  ASSUME BenchAssumed, BenchInv, Bench!NextOfBench PROVE BenchInv'
<1>1. /\ prog = "bench" /\ stage = "send" /\ sends = NPipeline /\ sends' = 0
      /\ IF nth < NumClients THEN nth' = nth + 1 /\ stage' = "connect" /\ latch' = 1
                             ELSE nth' = 1 /\ stage' = "stop" /\ UNCHANGED latch
      /\ UNCHANGED <<prog, stopping, allFinished, connection, flight, replies, ended, counts, lastTotal>>
  BY DEF Bench!NextOfBench, Bench!calls, Bench!meter
<1>2. BenchTypes /\ LoopFacts /\ BenchFacts
  BY DEF BenchInv
<1>3. nth' \in Bench!Clients /\ NPipeline \in Nat /\ nth \in Nat
  BY <1>1, <1>2 DEF BenchTypes, Bench!Clients, BenchAssumed
<1>4. BenchTypes' /\ MeterFacts'
  BY <1>1, <1>2, <1>3, MainFrame DEF BenchTypes
<1>5. \A c \in Bench!Clients :
        c \in Nat /\ c <= NumClients /\ NumClients \in Nat /\ Issued(c) \in 0..NPipeline
  BY <1>2, IssuedFacts DEF BenchAssumed
<1>6. LoopFacts'
  <2>1. ASSUME NEW c \in Bench!Clients PROVE Issued(c)' \in Int /\ Issued(c) <= Issued(c)'
    BY <1>1, <1>3, <1>5 DEF Issued
  <2> QED BY <1>1, <1>2, <2>1, LoopFrame
<1>7. ClientFacts'
  BY <1>1 DEF ClientFacts
<1>8. BenchFacts'
  <2>1. CASE nth < NumClients
    BY <1>1, <1>2, <1>3, <1>5, <2>1 DEF BenchFacts, Bench!Clients
  <2>2. CASE ~(nth < NumClients)
    <3>1. \A c \in Bench!Clients : c < nth \/ c = nth
      BY <1>3, <1>5, <2>2
    <3>2. \A c \in Bench!Clients : connection[c] # "none" /\ ~ended[c] /\ c \notin stopping
      BY <1>1, <1>2, <3>1 DEF BenchFacts
    <3>3. /\ stage' = "stop" /\ nth' = 1 /\ UNCHANGED <<prog, stopping, connection, ended>>
      BY <1>1, <2>2
    <3> QED BY <3>2, <3>3 DEF BenchFacts, Bench!Clients
  <2> QED BY <2>1, <2>2
<1> QED BY <1>4, <1>6, <1>7, <1>8 DEF BenchInv

(* allFinished is zero only when all have ended. *)
LEMMA BenchWaitFinished ==
  ASSUME BenchAssumed, BenchInv, Bench!WaitFinished PROVE BenchInv'
<1>1. /\ stage = "wait" /\ allFinished <= 0 /\ stage' = "done"
      /\ UNCHANGED <<prog, nth, sends, stopping, latch, allFinished, connection, flight, replies, ended,
                     counts, lastTotal>>
  BY DEF Bench!WaitFinished, Bench!calls, Bench!meter
<1>2. BenchTypes /\ LoopFacts /\ ClientFacts
  BY DEF BenchInv
<1>3. prog = "client"
  BY <1>1, <1>2 DEF BenchTypes
<1>4. BenchTypes' /\ MeterFacts'
  BY <1>1, <1>2, <1>3, MainFrame DEF BenchTypes
<1>5. LoopFacts'
  <2>1. \A c \in Bench!Clients : Issued(c)' \in Int /\ Issued(c) <= Issued(c)'
    BY <1>1, <1>2 DEF Issued, BenchAssumed
  <2> QED BY <1>1, <1>2, <1>3, <2>1, LoopFrame DEF LoopFacts
<1>6. \A c \in Bench!Clients : ended[c]
  <2> DEFINE E == {c \in Bench!Clients : ended[c]}
  <2>1. E \in SUBSET Bench!Clients /\ allFinished = NumClients - Cardinality(E)
    BY <1>2, <1>3 DEF ClientFacts
  <2>2. Cardinality(E) \in 0..NumClients /\ (Cardinality(E) = NumClients => E = Bench!Clients)
    <3> HIDE DEF E
    <3> QED BY <2>1, CountEnded
  <2>3. E = Bench!Clients
    <3> HIDE DEF E
    <3> QED BY <1>1, <2>1, <2>2 DEF BenchAssumed
  <2> QED BY <2>3
<1>7. ClientFacts'
  BY <1>1, <1>2, <1>6 DEF ClientFacts, Bench!Clients
<1>8. BenchFacts'
  BY <1>1, <1>3 DEF BenchFacts
<1> QED BY <1>4, <1>5, <1>7, <1>8 DEF BenchInv

LEMMA BenchStop ==
  ASSUME BenchAssumed, BenchInv, Bench!Stop PROVE BenchInv'
<1>1. /\ stage = "stop" /\ stopping' = stopping \cup {nth}
      /\ IF nth < NumClients THEN nth' = nth + 1 /\ UNCHANGED stage
                             ELSE stage' = "done" /\ UNCHANGED nth
      /\ UNCHANGED <<prog, sends, latch, allFinished, connection, flight, replies, ended, counts,
                     lastTotal>>
  BY DEF Bench!Stop, Bench!calls, Bench!meter
<1>2. BenchTypes /\ LoopFacts /\ BenchFacts
  BY DEF BenchInv
<1>3. nth' \in Bench!Clients /\ nth \in Bench!Clients /\ nth \in Nat /\ prog = "bench"
  BY <1>1, <1>2 DEF BenchTypes, Bench!Clients, BenchAssumed
<1>4. BenchTypes' /\ MeterFacts'
  <2>1. stopping' \subseteq Bench!Clients
    BY <1>1, <1>2, <1>3 DEF BenchTypes
  <2> QED BY <1>1, <1>2, <1>3, <2>1, MainFrame DEF BenchTypes
<1>5. LoopFacts'
  <2>1. \A c \in Bench!Clients : Issued(c)' \in Int /\ Issued(c) <= Issued(c)'
    BY <1>1, <1>2 DEF Issued, BenchAssumed
  <2> QED BY <1>1, <1>2, <1>3, <2>1, LoopFrame DEF LoopFacts
<1>6. ClientFacts'
  BY <1>1, <1>3 DEF ClientFacts
<1>7. BenchFacts'
  <2>1. \A c \in Bench!Clients : c \in Nat
    BY BenchThreads
  <2>2. ~ended[nth]
    BY <1>1, <1>2, <1>3 DEF BenchFacts
  <2> QED BY <1>1, <1>2, <1>3, <2>1, <2>2 DEF BenchFacts, Bench!Clients
<1> QED BY <1>4, <1>5, <1>6, <1>7 DEF BenchInv

LEMMA BenchInvariance == BenchAssumed /\ Bench!Spec => []BenchInv
<1> SUFFICES ASSUME BenchAssumed PROVE Bench!Spec => []BenchInv
  OBVIOUS
<1>1. Bench!Init => BenchInv
  BY BenchStart
<1>2. BenchInv /\ [Bench!Next]_Bench!vars => BenchInv'
  <2> SUFFICES ASSUME BenchInv, [Bench!Next]_Bench!vars PROVE BenchInv'
    OBVIOUS
  <2>1. CASE Bench!Main
    BY <2>1, BenchWaitConnected, BenchSendRequest, BenchNextOfClient, BenchNextOfBench,
       BenchWaitFinished, BenchStop DEF Bench!Main
  <2>2. ASSUME NEW c \in Bench!Clients, Bench!Loop(c) \/ Bench!ConnectionLost(c) PROVE BenchInv'
    BY <2>2, BenchOnConnectionClient, BenchOnConnectionBench, BenchRepliedClient,
       BenchRepliedBench, BenchStopInLoop, BenchConnectionLost DEF Bench!Loop
  <2>3. ASSUME NEW t \in 0..(NumThreads - 1), Bench!PrintPerThread(t) PROVE BenchInv'
    BY <2>3, BenchPrintPerThread DEF Meters
  <2>4. CASE UNCHANGED Bench!vars
    BY <2>4 DEF BenchInv, BenchTypes, LoopFacts, ClientFacts, BenchFacts, MeterFacts, MeterOf,
       Metered, Issued, Meters, Bench!Clients, Bench!ThreadOf, Bench!vars, Bench!main,
       Bench!calls, Bench!meter
  <2> QED BY <2>1, <2>2, <2>3, <2>4 DEF Bench!Next
<1> QED BY <1>1, <1>2, PTL DEF Bench!Spec

(* rpcbench2: client.cc prints its figures only when every client has had  *)
(* its kRequests replies; no loop of calls is doubled, so that a client    *)
(* has at most nPipeline calls in flight and fewer than nPipeline late     *)
(* replies; and the meter of a thread in bench.cc has each client from its *)
(* connection to its stop, once, so that the assertion of removeConnection *)
(* holds.                                                                  *)
THEOREM BenchmarkIsRight == BenchAssumed /\ Bench!Spec => []BenchRight
<1> SUFFICES ASSUME BenchAssumed PROVE Bench!Spec => []BenchRight
  OBVIOUS
<1>1. BenchInv => BenchRight
  <2> SUFFICES ASSUME BenchInv PROVE BenchRight
    OBVIOUS
  <2>1. BenchTypes /\ LoopFacts /\ ClientFacts /\ MeterFacts
    BY DEF BenchInv
  <2>2. Bench!FiguresTrue
    BY <2>1 DEF Bench!FiguresTrue, ClientFacts
  <2>3. Bench!LoopsClosed
    <3>1. ASSUME NEW c \in Bench!Clients
          PROVE  /\ flight[c] <= NPipeline
                 /\ prog = "client" => replies[c] < KRequests + NPipeline
      <4>1. /\ Issued(c) \in 0..NPipeline /\ flight[c] \in Nat /\ replies[c] \in Nat
            /\ KRequests \in Nat /\ NPipeline \in Nat \ {0}
        BY <2>1, IssuedFacts DEF BenchAssumed
      <4> QED BY <2>1, <4>1 DEF LoopFacts
    <3> QED BY <3>1 DEF Bench!LoopsClosed
  <2>4. Bench!MeterRight
    <3>1. stage # "assert"
      BY <2>1 DEF BenchTypes
    <3>2. ASSUME prog = "bench", NEW t \in Meters
          PROVE  /\ Bench!ToSet(counts[t]) =
                      {c \in Bench!Clients : Bench!ThreadOf(c) = t /\ connection[c] # "none" /\ ~ended[c]}
                 /\ Len(counts[t]) = Bench!Cardinality(Bench!ToSet(counts[t]))
      <4>1. MeterOf(t) /\ counts[t] \in Seq(Bench!Clients)
        BY <2>1, <3>2 DEF MeterFacts, BenchTypes
      <4>2. Bench!ToSet(counts[t]) = {counts[t][j] : j \in 1..Len(counts[t])}
        BY <4>1 DEF Bench!ToSet
      <4>3. \A j \in 1..Len(counts[t]) : counts[t][j] \in Bench!Clients
        BY <4>1, ElementOfSeq
      <4>4. Bench!ToSet(counts[t]) = {c \in Bench!Clients : Metered(c, t)}
        BY <4>1, <4>2, <4>3 DEF MeterOf
      <4>5. Len(counts[t]) = Bench!Cardinality(Bench!ToSet(counts[t]))
        BY <4>1, LengthOfSet DEF MeterOf
      <4> QED BY <4>4, <4>5 DEF Metered
    <3> QED BY <3>1, <3>2 DEF Bench!MeterRight, Meters
  <2> QED BY <2>2, <2>3, <2>4 DEF BenchRight, Bench!BenchRight
<1> QED BY <1>1, BenchInvariance, PTL
=============================================================================
