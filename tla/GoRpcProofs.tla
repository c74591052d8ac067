---------------------------- MODULE GoRpcProofs ----------------------------
(***************************************************************************)
(* Proofs about GoRpc for every set of calls, of kinds and of servers, and *)
(* about the format on the wire (Wire) for every set of payload sizes,     *)
(* limits and number of messages.                                          *)
(***************************************************************************)
EXTENDS GoRpc, WireInstance, Integers, SequenceTheorems, NaturalsInduction,
        WellFoundedInduction, TLAPS

(* The payload of a codec belongs to the header it has read last, and is   *)
(* gone when the next one is read, unless the server has refused a body.   *)
PayloadsMatch ==
  /\ cPhase # "panic"
  /\ cPhase = "header" => cPayload = None
  /\ cPhase = "body" => cSeq \in Calls /\ cPayload = cSeq
  /\ sPhase = "header" /\ sPayload # None => kind[sPayload] \in {"unknown", "garbled"}
  /\ sPhase = "body" => sSeq \in Calls /\ sPayload = sSeq
  /\ sPhase = "panic" => \E c \in Calls : kind[c] \in {"unknown", "garbled"}
  /\ peer = "cpp" => sPhase = "header"

(* A frame answers the call whose id it has. *)
FramesMatch == \A i \in 1..Len(responses) : responses[i].response = responses[i].id

(* Where a call is. *)
Requested(c) == \E i \in 1..Len(requests) : requests[i] = c
Reading(c) == sPhase = "body" /\ sSeq = c
Responded(c) == \E i \in 1..Len(responses) : responses[i].id = c
Replying(c) == cPhase = "body" /\ cSeq = c

(* It is requested once, *)
RequestedOnce == \A i, j \in 1..Len(requests) : requests[i] = requests[j] => i = j

(* answered once, or twice if its method runs done twice. *)
RespondedOnce ==
  /\ \A i, j \in 1..Len(responses) :
       responses[i].id = responses[j].id => i = j \/ kind[responses[i].id] = "twice"
  /\ \A i, j, k \in 1..Len(responses) :
       responses[i].id = responses[j].id /\ responses[j].id = responses[k].id
         => i = j \/ j = k \/ i = k
  /\ cPhase = "body" =>
       /\ kind[cSeq] # "twice" => ~Responded(cSeq)
       /\ \A i, j \in 1..Len(responses) :
            responses[i].id = cSeq /\ responses[j].id = cSeq => i = j

(* It is in one stage at a time, in none before it is called, and in some  *)
(* while it is pending.                                                    *)
OneStage(c) ==
  /\ Requested(c) => ~Reading(c) /\ c \notin serving /\ ~Responded(c) /\ ~Replying(c)
  /\ Reading(c) => c \notin serving /\ ~Responded(c) /\ ~Replying(c)
  /\ c \in serving => ~Responded(c) /\ ~Replying(c)

Somewhere(c) == Requested(c) \/ Reading(c) \/ c \in serving \/ Responded(c) \/ Replying(c)

CallStaged(c) ==
  /\ OneStage(c)
  /\ state[c] = "idle" => ~Somewhere(c)
  /\ state[c] = "pending" => Somewhere(c) \/ Unanswered(c)

Staged == link = "up" => RequestedOnce /\ RespondedOnce /\ \A c \in Calls : CallStaged(c)

IndInv == TypeOK /\ PayloadsMatch /\ FramesMatch /\ OwnReply /\ Staged

-----------------------------------------------------------------------------
(* Streams after an append and after a removal. *)
LEMMA Appended ==
  ASSUME NEW S, NEW s \in Seq(S), NEW e \in S
  PROVE  /\ Append(s, e) \in Seq(S)
         /\ Len(Append(s, e)) = Len(s) + 1
         /\ \A i \in 1..Len(Append(s, e)) :
              \/ i \in 1..Len(s) /\ Append(s, e)[i] = s[i]
              \/ i = Len(s) + 1 /\ Append(s, e)[i] = e
         /\ \A i \in 1..Len(s) : i \in 1..Len(Append(s, e)) /\ Append(s, e)[i] = s[i]
         /\ Len(s) + 1 \in 1..Len(Append(s, e)) /\ Append(s, e)[Len(s) + 1] = e
  OBVIOUS

LEMMA Removed ==
  ASSUME NEW S, NEW s \in Seq(S), s # <<>>
  PROVE  /\ Tail(s) \in Seq(S)
         /\ 1 \in 1..Len(s) /\ Head(s) = s[1] /\ Head(s) \in S
         /\ \A i \in 1..Len(Tail(s)) : i + 1 \in 1..Len(s) /\ i + 1 # 1 /\ Tail(s)[i] = s[i + 1]
         /\ \A i \in 1..Len(s) : i = 1 \/ (i - 1 \in 1..Len(Tail(s)) /\ s[i] = Tail(s)[i - 1])
         /\ \A i, j \in 1..Len(Tail(s)) : i + 1 = j + 1 => i = j
  OBVIOUS

LEMMA Cut ==
  ASSUME NEW S, NEW s \in Seq(S), NEW n \in 0..Len(s)
  PROVE  /\ SubSeq(s, 1, n) \in Seq(S)
         /\ \A i \in 1..Len(SubSeq(s, 1, n)) : i \in 1..Len(s) /\ SubSeq(s, 1, n)[i] = s[i]
<1>1. n \in Int /\ \A i \in 1..n : i \in 1..Len(s) /\ s[i] \in S
  OBVIOUS
<1>2. /\ SubSeq(s, 1, n) \in Seq(S)
      /\ Len(SubSeq(s, 1, n)) = IF 1 <= n THEN n - 1 + 1 ELSE 0
      /\ \A i \in 1..(n - 1 + 1) : SubSeq(s, 1, n)[i] = s[1 + i - 1]
  BY <1>1, SubSeqProperties
<1>3. ASSUME NEW i \in 1..Len(SubSeq(s, 1, n))
      PROVE  i \in 1..Len(s) /\ SubSeq(s, 1, n)[i] = s[i]
  <2>1. i \in 1..n /\ i \in 1..(n - 1 + 1) /\ 1 + i - 1 = i
    BY <1>1, <1>2
  <2> QED BY <1>1, <1>2, <2>1
<1> QED BY <1>2, <1>3

LEMMA FrameFacts ==
  ASSUME TypeOK
  PROVE  /\ requests \in Seq(Calls) /\ responses \in Seq(Frames)
         /\ \A i \in 1..Len(requests) : requests[i] \in Calls
         /\ \A i \in 1..Len(responses) : responses[i].id \in Calls /\ responses[i].response \in Calls
<1>1. requests \in Seq(Calls) /\ responses \in Seq(Frames)
  BY DEF TypeOK
<1>2. \A i \in 1..Len(responses) : responses[i] \in Frames
  BY <1>1
<1>3. \A i \in 1..Len(requests) : requests[i] \in Calls
  BY <1>1
<1> QED BY <1>1, <1>2, <1>3 DEF Frames

(* The stages of the calls depend on these variables only. *)
LEMMA SameServer ==
  ASSUME UNCHANGED <<peer, kind, requests, sPhase, sSeq>>, NEW c
  PROVE  /\ RequestedOnce' <=> RequestedOnce
         /\ Requested(c)' <=> Requested(c)
         /\ Reading(c)' <=> Reading(c)
         /\ Unanswered(c)' <=> Unanswered(c)
  BY DEF RequestedOnce, Requested, Reading, Unanswered

LEMMA SameClient ==
  ASSUME UNCHANGED <<kind, responses, cPhase, cSeq>>, NEW c
  PROVE  /\ RespondedOnce' <=> RespondedOnce
         /\ Responded(c)' <=> Responded(c)
         /\ Replying(c)' <=> Replying(c)
  BY DEF RespondedOnce, Responded, Replying

-----------------------------------------------------------------------------
(* The invariant holds at the beginning and is kept by every action. *)

LEMMA IndInit == Init => IndInv
<1> SUFFICES ASSUME Init PROVE IndInv
  OBVIOUS
<1>1. TypeOK
  <2>1. kind \in [Calls -> Kinds]
    BY DEF Init
  <2> QED BY <2>1 DEF Init, TypeOK, Phases
<1>2. PayloadsMatch /\ FramesMatch /\ OwnReply
  BY DEF Init, PayloadsMatch, FramesMatch, OwnReply
<1>3. Staged
  BY DEF Init, Staged, RequestedOnce, RespondedOnce, CallStaged, OneStage, Somewhere,
         Requested, Reading, Responded, Replying
<1> QED BY <1>1, <1>2, <1>3 DEF IndInv

LEMMA IndBreak ==
  ASSUME IndInv, Break
  PROVE  IndInv'
<1> USE DEF IndInv
<1>1. PICK i \in 0..Len(requests) : requests' = SubSeq(requests, 1, i)
  BY DEF Break
<1>2. PICK j \in 0..Len(responses) : responses' = SubSeq(responses, 1, j)
  BY DEF Break
<1>3. requests' \in Seq(Calls)
  BY <1>1, Cut, FrameFacts
<1>4. /\ responses' \in Seq(Frames)
      /\ \A l \in 1..Len(responses') : l \in 1..Len(responses) /\ responses'[l] = responses[l]
  BY <1>2, Cut, FrameFacts
<1>5. TypeOK'
  BY <1>3, <1>4 DEF Break, TypeOK, client, server
<1>6. PayloadsMatch' /\ OwnReply'
  BY DEF Break, PayloadsMatch, OwnReply, client, server
<1>7. FramesMatch'
  BY <1>4 DEF FramesMatch
<1>8. Staged'
  BY DEF Break, Staged
<1> QED BY <1>5, <1>6, <1>7, <1>8

(* A new call is nowhere yet; it fails at once or goes to the end of the   *)
(* requests.                                                               *)
LEMMA IndWriteRequest ==
  ASSUME IndInv, NEW c \in Calls, WriteRequest(c)
  PROVE  IndInv'
<1> USE DEF IndInv, client, server
<1>1. CASE UNCHANGED requests /\ state' = [state EXCEPT ![c] = "failed"]
  <2>1. TypeOK' /\ PayloadsMatch' /\ FramesMatch' /\ OwnReply'
    BY <1>1 DEF WriteRequest, TypeOK, PayloadsMatch, FramesMatch, OwnReply
  <2>2. Staged'
    <3>1. UNCHANGED <<peer, kind, requests, sPhase, sSeq, serving, responses, cPhase, cSeq, link>>
      BY <1>1 DEF WriteRequest
    <3>2. \A d \in Calls : state'[d] = state[d] \/ state'[d] = "failed"
      BY <1>1 DEF TypeOK
    <3> QED BY <3>1, <3>2, SameServer, SameClient DEF Staged, CallStaged, OneStage, Somewhere
  <2> QED BY <2>1, <2>2
<1>2. CASE state' = [state EXCEPT ![c] = "pending"] /\ requests' = Send(requests, c)
  <2>1. state[c] = "idle" /\ UNCHANGED <<peer, kind, reply, cPhase, cSeq, cPayload, link, responses, server>>
    BY DEF WriteRequest
  <2>2. requests' \in Seq(Calls)
    BY <1>2, Appended, FrameFacts DEF Send
  <2>3. TypeOK' /\ PayloadsMatch' /\ FramesMatch' /\ OwnReply'
    BY <1>2, <2>1, <2>2 DEF TypeOK, PayloadsMatch, FramesMatch, OwnReply
  <2>4. ASSUME link' = "up" PROVE RequestedOnce' /\ RespondedOnce' /\ \A d \in Calls : CallStaged(d)'
    <3>1. link = "up" /\ RequestedOnce /\ RespondedOnce /\ \A d \in Calls : CallStaged(d)
      BY <2>1, <2>4 DEF Staged
    <3>2. requests' = Append(requests, c) /\ ~Somewhere(c)
      BY <1>2, <2>1, <3>1 DEF Send, CallStaged
    <3>3. /\ \A i \in 1..Len(requests') :
               \/ i \in 1..Len(requests) /\ requests'[i] = requests[i]
               \/ i = Len(requests) + 1 /\ requests'[i] = c
          /\ \A i \in 1..Len(requests) : i \in 1..Len(requests') /\ requests'[i] = requests[i]
          /\ Len(requests) + 1 \in 1..Len(requests') /\ requests'[Len(requests) + 1] = c
      BY <3>2, Appended, FrameFacts
    <3>4. RequestedOnce'
      BY <3>1, <3>2, <3>3 DEF RequestedOnce, Somewhere, Requested
    <3>5. RespondedOnce'
      BY <2>1, <3>1 DEF RespondedOnce, Responded
    <3>6. \A d \in Calls : Requested(d)' <=> Requested(d) \/ d = c
      BY <3>3 DEF Requested
    <3>7. \A d \in Calls : /\ Reading(d)' <=> Reading(d)
                           /\ Responded(d)' <=> Responded(d)
                           /\ Replying(d)' <=> Replying(d)
                           /\ Unanswered(d)' <=> Unanswered(d)
      BY <2>1 DEF Reading, Responded, Replying, Unanswered
    <3>8. \A d \in Calls : CallStaged(d)'
      BY <1>2, <2>1, <3>1, <3>2, <3>6, <3>7 DEF CallStaged, OneStage, Somewhere, TypeOK
    <3> QED BY <3>4, <3>5, <3>8
  <2> QED BY <2>3, <2>4 DEF Staged
<1> QED BY <1>1, <1>2 DEF WriteRequest

(* A frame moves from the stream into the codec. *)
LEMMA IndReadResponseHeader ==
  ASSUME IndInv, ReadResponseHeader
  PROVE  IndInv'
<1> USE DEF IndInv, client, server
<1>1. /\ cPhase = "header" /\ cPayload = None /\ responses # <<>>
      /\ cPhase' = "body" /\ cSeq' = Head(responses).id
      /\ cPayload' = Head(responses).response /\ responses' = Tail(responses)
      /\ UNCHANGED <<peer, kind, state, reply, requests, link, sPhase, sSeq, sPayload, serving>>
  BY DEF ReadResponseHeader, BehindFrame, PayloadsMatch
<1>2. /\ responses' \in Seq(Frames)
      /\ 1 \in 1..Len(responses) /\ Head(responses) = responses[1]
      /\ \A i \in 1..Len(responses') :
           i + 1 \in 1..Len(responses) /\ i + 1 # 1 /\ responses'[i] = responses[i + 1]
      /\ \A i \in 1..Len(responses) :
           i = 1 \/ (i - 1 \in 1..Len(responses') /\ responses[i] = responses'[i - 1])
      /\ \A i, j \in 1..Len(responses') : i + 1 = j + 1 => i = j
  BY <1>1, Removed, FrameFacts
<1>3. cSeq' \in Calls /\ cPayload' = cSeq' /\ cSeq' = responses[1].id
  BY <1>1, <1>2, FrameFacts DEF FramesMatch
<1>4. TypeOK'
  BY <1>1, <1>2, <1>3 DEF TypeOK, Phases
<1>5. PayloadsMatch' /\ OwnReply'
  BY <1>1, <1>3 DEF PayloadsMatch, OwnReply
<1>6. FramesMatch'
  BY <1>2 DEF FramesMatch
<1>7. ASSUME link' = "up" PROVE RequestedOnce' /\ RespondedOnce' /\ \A c \in Calls : CallStaged(c)'
  <2>1. RequestedOnce /\ RespondedOnce /\ \A d \in Calls : CallStaged(d)
    BY <1>1, <1>7 DEF Staged
  <2>2. RequestedOnce'
    BY <1>1, <2>1, SameServer
  <2>3. \A i, j \in 1..Len(responses') :
          responses'[i].id = responses'[j].id => i = j \/ kind[responses'[i].id] = "twice"
    <3> SUFFICES ASSUME NEW i \in 1..Len(responses'), NEW j \in 1..Len(responses'),
                        responses'[i].id = responses'[j].id
                 PROVE  i = j \/ kind[responses'[i].id] = "twice"
      OBVIOUS
    <3>1. i + 1 \in 1..Len(responses) /\ j + 1 \in 1..Len(responses)
      BY <1>2
    <3>2. responses'[i] = responses[i + 1] /\ responses'[j] = responses[j + 1]
      BY <1>2
    <3>3. i + 1 = j + 1 \/ kind[responses[i + 1].id] = "twice"
      BY <2>1, <3>1, <3>2 DEF RespondedOnce
    <3> QED BY <1>2, <3>2, <3>3
  <2>4. \A i, j, k \in 1..Len(responses') :
          responses'[i].id = responses'[j].id /\ responses'[j].id = responses'[k].id
            => i = j \/ j = k \/ i = k
    <3> SUFFICES ASSUME NEW i \in 1..Len(responses'), NEW j \in 1..Len(responses'),
                        NEW k \in 1..Len(responses'),
                        responses'[i].id = responses'[j].id, responses'[j].id = responses'[k].id
                 PROVE  i = j \/ j = k \/ i = k
      OBVIOUS
    <3>1. {i + 1, j + 1, k + 1} \subseteq 1..Len(responses)
      BY <1>2
    <3>2. /\ responses'[i] = responses[i + 1] /\ responses'[j] = responses[j + 1]
          /\ responses'[k] = responses[k + 1]
      BY <1>2
    <3>3. i + 1 = j + 1 \/ j + 1 = k + 1 \/ i + 1 = k + 1
      BY <2>1, <3>1, <3>2 DEF RespondedOnce
    <3> QED BY <1>2, <3>3
  <2>5. kind[cSeq'] # "twice" => \A i \in 1..Len(responses') : responses'[i].id # cSeq'
    BY <1>2, <1>3, <2>1 DEF RespondedOnce
  <2>6. \A i, j \in 1..Len(responses') :
          responses'[i].id = cSeq' /\ responses'[j].id = cSeq' => i = j
    <3> SUFFICES ASSUME NEW i \in 1..Len(responses'), NEW j \in 1..Len(responses'),
                        responses'[i].id = cSeq', responses'[j].id = cSeq'
                 PROVE  i = j
      OBVIOUS
    <3>1. {i + 1, j + 1, 1} \subseteq 1..Len(responses) /\ i + 1 # 1 /\ j + 1 # 1
      BY <1>2
    <3>2. responses'[i] = responses[i + 1] /\ responses'[j] = responses[j + 1]
      BY <1>2
    <3>3. responses[i + 1].id = responses[1].id /\ responses[1].id = responses[j + 1].id
      BY <1>3, <3>2
    <3>4. i + 1 = j + 1
      BY <2>1, <3>1, <3>3 DEF RespondedOnce
    <3> QED BY <1>2, <3>4
  <2>7. RespondedOnce'
    BY <1>1, <2>3, <2>4, <2>5, <2>6 DEF RespondedOnce, Responded
  <2>8. \A d \in Calls : Responded(d) <=> Responded(d)' \/ Replying(d)'
    BY <1>1, <1>2, <1>3 DEF Responded, Replying
  <2>9. \A d \in Calls : ~Replying(d)
    BY <1>1 DEF Replying
  <2>10. \A d \in Calls : CallStaged(d)'
    BY <1>1, <2>1, <2>8, <2>9, SameServer DEF CallStaged, OneStage, Somewhere
  <2> QED BY <2>2, <2>7, <2>10
<1> QED BY <1>4, <1>5, <1>6, <1>7 DEF Staged

(* The reader ends: nothing is pending any more. *)
LEMMA IndTerminate ==
  ASSUME IndInv, Terminate,
         UNCHANGED <<peer, kind, reply, requests, responses, cSeq, cPayload, server>>
  PROVE  IndInv'
<1> USE DEF IndInv, client, server
<1>1. \A c \in Calls : state'[c] = IF state[c] = "pending" THEN "failed" ELSE state[c]
  BY DEF Terminate
<1>2. TypeOK'
  <2>1. state' \in [Calls -> {"idle", "pending", "ok", "failed"}]
    BY DEF Terminate, TypeOK
  <2> QED BY <2>1 DEF Terminate, TypeOK, Phases
<1>3. PayloadsMatch' /\ FramesMatch'
  BY DEF Terminate, PayloadsMatch, FramesMatch
<1>4. OwnReply'
  BY <1>1 DEF OwnReply, TypeOK
<1>5. Staged'
  <2>1. \A c : (Responded(c)' <=> Responded(c)) /\ ~Replying(c)'
    BY DEF Terminate, Responded, Replying
  <2>2. RespondedOnce => RespondedOnce'
    BY <2>1 DEF Terminate, RespondedOnce
  <2> QED BY <1>1, <2>1, <2>2, SameServer DEF Terminate, Staged, CallStaged, OneStage, Somewhere, TypeOK
<1> QED BY <1>2, <1>3, <1>4, <1>5

LEMMA IndReadResponseHeaderError ==
  ASSUME IndInv, ReadResponseHeaderError
  PROVE  IndInv'
  BY IndTerminate DEF ReadResponseHeaderError

(* The payload goes into the reply of the call its header named. *)
LEMMA IndReadResponseBody ==
  ASSUME IndInv, ReadResponseBody
  PROVE  IndInv'
<1> USE DEF IndInv, client, server
<1>1. cPhase = "body" /\ cSeq \in Calls /\ cPayload = cSeq /\ cPayload # None
  BY NoneAssumption DEF ReadResponseBody, PayloadsMatch
<1>2. CASE Terminate /\ UNCHANGED <<reply, cPayload>>
  BY <1>2, IndTerminate DEF ReadResponseBody
<1>3. CASE /\ state' = [state EXCEPT ![cSeq] = "ok"]
           /\ reply' = [reply EXCEPT ![cSeq] = cPayload]
           /\ cPayload' = None /\ cPhase' = "header" /\ UNCHANGED link
  <2>1. UNCHANGED <<peer, kind, requests, responses, cSeq, sPhase, sSeq, sPayload, serving>>
    BY DEF ReadResponseBody
  <2>2. TypeOK'
    BY <1>1, <1>3, <2>1 DEF TypeOK, Phases
  <2>3. PayloadsMatch' /\ FramesMatch'
    BY <1>3, <2>1 DEF PayloadsMatch, FramesMatch
  <2>4. OwnReply'
    BY <1>1, <1>3 DEF OwnReply, TypeOK
  <2>5. Staged'
    <3>1. \A c : (Responded(c)' <=> Responded(c)) /\ ~Replying(c)'
      BY <1>3, <2>1 DEF Responded, Replying
    <3>2. RespondedOnce => RespondedOnce'
      BY <1>3, <2>1 DEF RespondedOnce
    <3>3. \A c \in Calls : (Replying(c) => c = cSeq) /\ state'[c] = IF c = cSeq THEN "ok" ELSE state[c]
      BY <1>3 DEF Replying, TypeOK
    <3> QED BY <1>3, <2>1, <3>1, <3>2, <3>3, SameServer DEF Staged, CallStaged, OneStage, Somewhere
  <2> QED BY <2>2, <2>3, <2>4, <2>5
<1> QED BY <1>1, <1>2, <1>3 DEF ReadResponseBody, PayloadReset

-----------------------------------------------------------------------------
(* A request leaves the stream: what is left of the others. *)
LEMMA RequestTaken ==
  ASSUME TypeOK, requests # <<>>, requests' = Tail(requests)
  PROVE  /\ Head(requests) \in Calls /\ requests' \in Seq(Calls)
         /\ Requested(Head(requests))
         /\ RequestedOnce =>
              /\ RequestedOnce'
              /\ \A c : Requested(c)' <=> Requested(c) /\ c # Head(requests)
<1>1. /\ requests' \in Seq(Calls)
      /\ 1 \in 1..Len(requests) /\ Head(requests) = requests[1] /\ Head(requests) \in Calls
      /\ \A i \in 1..Len(requests') :
           i + 1 \in 1..Len(requests) /\ i + 1 # 1 /\ requests'[i] = requests[i + 1]
      /\ \A i \in 1..Len(requests) :
           i = 1 \/ (i - 1 \in 1..Len(requests') /\ requests[i] = requests'[i - 1])
      /\ \A i, j \in 1..Len(requests') : i + 1 = j + 1 => i = j
  BY Removed, FrameFacts
<1>2. Requested(Head(requests))
  BY <1>1 DEF Requested
<1>3. ASSUME RequestedOnce PROVE RequestedOnce'
  BY <1>1, <1>3 DEF RequestedOnce
<1>4. ASSUME RequestedOnce, NEW c, Requested(c)' PROVE Requested(c) /\ c # Head(requests)
  <2>1. PICK i \in 1..Len(requests') : requests'[i] = c
    BY <1>4 DEF Requested
  <2> QED BY <1>1, <1>4, <2>1 DEF Requested, RequestedOnce
<1>5. ASSUME NEW c, Requested(c), c # Head(requests) PROVE Requested(c)'
  <2>1. PICK i \in 1..Len(requests) : requests[i] = c
    BY <1>5 DEF Requested
  <2> QED BY <1>1, <1>5, <2>1 DEF Requested
<1> QED BY <1>1, <1>2, <1>3, <1>4, <1>5

LEMMA IndReadRequestHeader ==
  ASSUME IndInv, ReadRequestHeader
  PROVE  IndInv'
<1> USE DEF IndInv, client, server
<1>1. peer = "go" /\ sPhase = "header"
      /\ UNCHANGED <<peer, kind, state, reply, cPhase, cSeq, cPayload, responses, serving>>
  BY DEF ReadRequestHeader
<1>2. CASE sPayload # None /\ sPhase' = "panic" /\ Closed /\ UNCHANGED <<sSeq, sPayload, requests>>
  <2>1. sPayload \in Calls /\ kind[sPayload] \in {"unknown", "garbled"}
    BY <1>1, <1>2 DEF TypeOK, PayloadsMatch
  <2>2. TypeOK' /\ FramesMatch' /\ OwnReply' /\ Staged'
    BY <1>1, <1>2 DEF TypeOK, Phases, FramesMatch, OwnReply, Staged, Closed
  <2>3. PayloadsMatch'
    BY <1>1, <1>2, <2>1 DEF PayloadsMatch
  <2> QED BY <2>2, <2>3
<1>3. CASE /\ sPayload = None /\ requests # <<>> /\ sPhase' = "body"
           /\ sSeq' = Head(requests) /\ sPayload' = Head(requests)
           /\ requests' = Tail(requests) /\ UNCHANGED link
  <2>1. /\ Head(requests) \in Calls /\ requests' \in Seq(Calls) /\ Requested(Head(requests))
        /\ RequestedOnce =>
             /\ RequestedOnce'
             /\ \A c : Requested(c)' <=> Requested(c) /\ c # Head(requests)
    BY <1>3, RequestTaken
  <2>2. TypeOK' /\ FramesMatch' /\ OwnReply' /\ PayloadsMatch'
    BY <1>1, <1>3, <2>1 DEF TypeOK, Phases, FramesMatch, OwnReply, PayloadsMatch
  <2>3. \A c : ~Reading(c) /\ (Reading(c)' <=> c = Head(requests))
    BY <1>1, <1>3 DEF Reading
  <2>4. \A c : Unanswered(c)' <=> Unanswered(c)
    BY <1>1 DEF Unanswered
  <2>5. Staged'
    BY <1>1, <1>3, <2>1, <2>3, <2>4, SameClient DEF Staged, CallStaged, OneStage, Somewhere
  <2> QED BY <2>2, <2>5
<1>4. CASE link = "down" /\ sPhase' = "over" /\ UNCHANGED <<sSeq, sPayload, requests, link>>
  BY <1>1, <1>4 DEF TypeOK, Phases, FramesMatch, OwnReply, PayloadsMatch, Staged
<1> QED BY <1>1, <1>2, <1>3, <1>4 DEF ReadRequestHeader

LEMMA IndReadRequestBody ==
  ASSUME IndInv, ReadRequestBody
  PROVE  IndInv'
<1> USE DEF IndInv, client, server
<1>1. /\ sPhase = "body" /\ sPhase' = "header" /\ sSeq \in Calls /\ sPayload = sSeq
      /\ UNCHANGED <<peer, kind, state, reply, cPhase, cSeq, cPayload, link, requests, responses, sSeq>>
  BY DEF ReadRequestBody, PayloadsMatch
<1> peer = "go"
  <2>1. peer \in {"go", "cpp"}
    BY ServerAssumption DEF TypeOK
  <2> QED BY <1>1, <2>1 DEF PayloadsMatch
<1>2. IF kind[sSeq] \in {"unknown", "garbled"}
        THEN UNCHANGED <<sPayload, serving>>
        ELSE sPayload' = None /\ serving' = serving \cup {sSeq}
  BY DEF ReadRequestBody
<1>3. TypeOK' /\ FramesMatch' /\ OwnReply' /\ PayloadsMatch'
  BY <1>1, <1>2 DEF TypeOK, Phases, FramesMatch, OwnReply, PayloadsMatch
<1>4. \A c : ~Reading(c)' /\ (Reading(c) <=> c = sSeq)
  BY <1>1 DEF Reading
<1>5. /\ RequestedOnce' <=> RequestedOnce
      /\ \A c : (Requested(c)' <=> Requested(c)) /\ (Unanswered(c)' <=> Unanswered(c))
  BY <1>1 DEF RequestedOnce, Requested, Unanswered
<1>6. kind[sSeq] \in {"unknown", "garbled"} => Unanswered(sSeq)
  BY <1>1 DEF Unanswered
<1>7. Staged'
  BY <1>1, <1>2, <1>4, <1>5, <1>6, SameClient DEF Staged, CallStaged, OneStage, Somewhere
<1> QED BY <1>3, <1>7

-----------------------------------------------------------------------------
(* A response behind the others. *)
LEMMA Answered ==
  ASSUME IndInv, NEW c \in Calls, UNCHANGED <<kind, cPhase, cSeq>>,
         responses' = Append(responses, [id |-> c, response |-> c])
  PROVE  /\ responses' \in Seq(Frames) /\ FramesMatch'
         /\ \A d : (Replying(d)' <=> Replying(d)) /\ (Responded(d)' <=> Responded(d) \/ d = c)
         /\ RespondedOnce /\ ~Responded(c) /\ ~Replying(c) => RespondedOnce'
<1> DEFINE frame == [id |-> c, response |-> c]
<1>1. frame \in Frames /\ frame.id = c /\ frame.response = c
  BY DEF Frames
<1>2. responses \in Seq(Frames)
  BY FrameFacts DEF IndInv
<1>3. /\ responses' \in Seq(Frames)
      /\ \A i \in 1..Len(responses') :
           \/ i \in 1..Len(responses) /\ responses'[i] = responses[i]
           \/ i = Len(responses) + 1 /\ responses'[i] = frame
      /\ \A i \in 1..Len(responses) : i \in 1..Len(responses') /\ responses'[i] = responses[i]
      /\ Len(responses) + 1 \in 1..Len(responses') /\ responses'[Len(responses) + 1] = frame
  BY <1>1, <1>2, Appended
<1> HIDE DEF frame
<1>4. FramesMatch'
  BY <1>1, <1>3 DEF IndInv, FramesMatch
<1>5. \A d : Replying(d)' <=> Replying(d)
  BY DEF Replying
<1>6. \A d : Responded(d)' <=> Responded(d) \/ d = c
  BY <1>1, <1>3 DEF Responded
<1>7. ASSUME RespondedOnce, ~Responded(c), ~Replying(c) PROVE RespondedOnce'
  <2>1. \A i \in 1..Len(responses') : responses'[i].id = c => i = Len(responses) + 1
    BY <1>3, <1>7 DEF Responded
  <2>2. \A i \in 1..Len(responses') :
          responses'[i].id # c => i \in 1..Len(responses) /\ responses'[i] = responses[i]
    BY <1>1, <1>3
  <2>3. \A i, j \in 1..Len(responses') :
          responses'[i].id = responses'[j].id => i = j \/ kind[responses'[i].id] = "twice"
    BY <1>7, <2>1, <2>2 DEF RespondedOnce
  <2>4. \A i, j, k \in 1..Len(responses') :
          responses'[i].id = responses'[j].id /\ responses'[j].id = responses'[k].id
            => i = j \/ j = k \/ i = k
    BY <1>7, <2>1, <2>2 DEF RespondedOnce
  <2>5. cPhase = "body" => cSeq # c
    BY <1>7 DEF Replying
  <2>6. cPhase = "body" => /\ kind[cSeq] # "twice" => ~Responded(cSeq)'
                           /\ \A i, j \in 1..Len(responses') :
                                responses'[i].id = cSeq /\ responses'[j].id = cSeq => i = j
    BY <1>6, <1>7, <2>2, <2>5 DEF RespondedOnce
  <2> QED BY <2>3, <2>4, <2>6 DEF RespondedOnce, Responded
<1> QED BY <1>3, <1>4, <1>5, <1>6, <1>7

(* A second response of a method that runs done twice. *)
LEMMA AnsweredTwice ==
  ASSUME IndInv, NEW c \in Calls, UNCHANGED <<kind, cPhase, cSeq>>, kind[c] = "twice",
         responses' = Append(Append(responses, [id |-> c, response |-> c]), [id |-> c, response |-> c])
  PROVE  /\ responses' \in Seq(Frames) /\ FramesMatch'
         /\ \A d : (Replying(d)' <=> Replying(d)) /\ (Responded(d)' <=> Responded(d) \/ d = c)
         /\ RespondedOnce /\ ~Responded(c) /\ ~Replying(c) => RespondedOnce'
<1> DEFINE frame == [id |-> c, response |-> c]
           once == Append(responses, frame)
           n == Len(responses)
<1>1. frame \in Frames /\ frame.id = c /\ frame.response = c
  BY DEF Frames
<1>2. responses \in Seq(Frames)
  BY FrameFacts DEF IndInv
<1>3. once \in Seq(Frames)
  BY <1>1, <1>2, Appended
<1>4. responses' \in Seq(Frames) /\ Len(responses') = n + 2 /\ n \in Nat
  BY <1>1, <1>2, <1>3
<1>5. /\ \A i \in 1..n : i \in 1..Len(responses') /\ responses'[i] = responses[i]
      /\ n + 1 \in 1..Len(responses') /\ responses'[n + 1] = frame
      /\ n + 2 \in 1..Len(responses') /\ responses'[n + 2] = frame
  BY <1>1, <1>2, <1>3, <1>4
<1>6. \A i \in 1..Len(responses') : i \in 1..n \/ i = n + 1 \/ i = n + 2
  BY <1>4
<1> HIDE DEF frame, once, n
<1>7. FramesMatch'
  BY <1>1, <1>5, <1>6 DEF IndInv, FramesMatch, n
<1>8. \A d : Replying(d)' <=> Replying(d)
  BY DEF Replying
<1>9. \A d : Responded(d)' <=> Responded(d) \/ d = c
  BY <1>1, <1>5, <1>6 DEF Responded, n
<1>10. ASSUME RespondedOnce, ~Responded(c), ~Replying(c) PROVE RespondedOnce'
  <2>1. \A i \in 1..Len(responses') : responses'[i].id = c => i = n + 1 \/ i = n + 2
    BY <1>5, <1>6, <1>10 DEF Responded, n
  <2>2. \A i \in 1..Len(responses') :
          responses'[i].id # c => i \in 1..Len(responses) /\ responses'[i] = responses[i]
    BY <1>1, <1>5, <1>6 DEF n
  <2>3. \A i, j \in 1..Len(responses') :
          responses'[i].id = responses'[j].id => i = j \/ kind[responses'[i].id] = "twice"
    BY <1>10, <2>2, SMTT(40) DEF RespondedOnce
  <2>4. \A i, j, k \in 1..Len(responses') :
          responses'[i].id = responses'[j].id /\ responses'[j].id = responses'[k].id
            => i = j \/ j = k \/ i = k
    <3> TAKE i, j, k \in 1..Len(responses')
    <3> HAVE responses'[i].id = responses'[j].id /\ responses'[j].id = responses'[k].id
    <3>1. CASE responses'[i].id = c
      BY <2>1, <3>1
    <3>2. CASE responses'[i].id # c
      <4>1. /\ {i, j, k} \subseteq 1..Len(responses)
            /\ responses[i].id = responses[j].id /\ responses[j].id = responses[k].id
        BY <2>2, <3>2
      <4> QED BY <1>10, <4>1 DEF RespondedOnce
    <3> QED BY <3>1, <3>2
  <2>5. cPhase = "body" => cSeq # c
    BY <1>10 DEF Replying
  <2>6. cPhase = "body" => /\ kind[cSeq] # "twice" => ~Responded(cSeq)'
                           /\ \A i, j \in 1..Len(responses') :
                                responses'[i].id = cSeq /\ responses'[j].id = cSeq => i = j
    BY <1>9, <1>10, <2>2, <2>5 DEF RespondedOnce
  <2> QED BY <2>3, <2>4, <2>6 DEF RespondedOnce, Responded
<1> QED BY <1>4, <1>7, <1>8, <1>9, <1>10

(* A method returns: its call moves from serving into the responses, or    *)
(* is one that is not answered, or the connection is down.                 *)
LEMMA MethodReturned ==
  ASSUME IndInv, NEW c \in Calls, c \in serving, serving' = serving \ {c},
         UNCHANGED <<peer, kind, client, link, requests, sPhase, sSeq, sPayload>>,
         \/ /\ UNCHANGED responses
            /\ Unanswered(c) \/ link = "down"
         \/ responses' = Append(responses, [id |-> c, response |-> c])
         \/ /\ kind[c] = "twice"
            /\ responses' = Append(Append(responses, [id |-> c, response |-> c]),
                                   [id |-> c, response |-> c])
  PROVE  IndInv'
<1> USE DEF client
<1>1. OwnReply' /\ PayloadsMatch'
  BY DEF IndInv, OwnReply, PayloadsMatch
<1>2. \A d : /\ RequestedOnce' <=> RequestedOnce
             /\ Requested(d)' <=> Requested(d)
             /\ Reading(d)' <=> Reading(d)
             /\ Unanswered(d)' <=> Unanswered(d)
  BY SameServer
<1>3. CASE UNCHANGED responses /\ (Unanswered(c) \/ link = "down")
  <2>1. TypeOK' /\ FramesMatch'
    BY <1>3 DEF IndInv, TypeOK, FramesMatch
  <2>2. Staged'
    BY <1>2, <1>3, SameClient DEF IndInv, Staged, CallStaged, OneStage, Somewhere
  <2> QED BY <1>1, <2>1, <2>2 DEF IndInv
<1>4. CASE \/ responses' = Append(responses, [id |-> c, response |-> c])
           \/ /\ kind[c] = "twice"
              /\ responses' = Append(Append(responses, [id |-> c, response |-> c]),
                                     [id |-> c, response |-> c])
  <2>1. /\ responses' \in Seq(Frames) /\ FramesMatch'
        /\ \A d : (Replying(d)' <=> Replying(d)) /\ (Responded(d)' <=> Responded(d) \/ d = c)
        /\ RespondedOnce /\ ~Responded(c) /\ ~Replying(c) => RespondedOnce'
    BY <1>4, Answered, AnsweredTwice
  <2>2. TypeOK'
    BY <2>1 DEF IndInv, TypeOK
  <2>3. Staged'
    <3> SUFFICES ASSUME link = "up"
                 PROVE  RequestedOnce' /\ RespondedOnce' /\ \A d \in Calls : CallStaged(d)'
      BY DEF Staged
    <3>1. RequestedOnce /\ RespondedOnce /\ \A d \in Calls : CallStaged(d)
      BY DEF IndInv, Staged
    <3>2. RespondedOnce'
      BY <2>1, <3>1 DEF CallStaged, OneStage
    <3>3. \A d \in Calls : CallStaged(d)'
      BY <1>2, <2>1, <3>1 DEF CallStaged, OneStage, Somewhere
    <3> QED BY <1>2, <3>1, <3>2, <3>3
  <2> QED BY <1>1, <2>1, <2>2, <2>3 DEF IndInv
<1> QED BY <1>3, <1>4

LEMMA IndWriteResponse ==
  ASSUME IndInv, NEW c \in Calls, WriteResponse(c)
  PROVE  IndInv'
<1>1. link \in {"up", "down"}
  BY DEF IndInv, TypeOK
<1>2. kind[c] = "fails" => Unanswered(c)
  BY DEF WriteResponse, Unanswered
<1> QED BY <1>1, <1>2, MethodReturned DEF WriteResponse, Send, ResponseId

LEMMA IndCppDone ==
  ASSUME IndInv, NEW c \in Calls, CppDone(c)
  PROVE  IndInv'
<1>1. link \in {"up", "down"}
  BY DEF IndInv, TypeOK
<1> QED BY <1>1, MethodReturned DEF CppDone, Send

LEMMA IndCppRequest ==
  ASSUME IndInv, CppRequest
  PROVE  IndInv'
<1> USE DEF IndInv, client
<1> DEFINE d == Head(requests)
<1>1. /\ peer = "cpp" /\ requests # <<>> /\ requests' = Tail(requests)
      /\ serving' = IF kind[d] = "unknown" THEN serving ELSE serving \cup {d}
      /\ UNCHANGED <<peer, kind, state, reply, cPhase, cSeq, cPayload, link, responses,
                     sPhase, sSeq, sPayload>>
  BY DEF CppRequest
<1>2. /\ d \in Calls /\ requests' \in Seq(Calls) /\ Requested(d)
      /\ RequestedOnce => RequestedOnce' /\ \A c : Requested(c)' <=> Requested(c) /\ c # d
  BY <1>1, RequestTaken
<1> HIDE DEF d
<1>3. TypeOK' /\ FramesMatch' /\ OwnReply' /\ PayloadsMatch'
  BY <1>1, <1>2 DEF TypeOK, FramesMatch, OwnReply, PayloadsMatch
<1>4. \A c : (Reading(c)' <=> Reading(c)) /\ (Unanswered(c)' <=> Unanswered(c))
  BY <1>1 DEF Reading, Unanswered
<1>5. kind[d] = "unknown" => Unanswered(d)
  BY DEF Unanswered
<1>6. Staged'
  BY <1>1, <1>2, <1>4, <1>5, SameClient DEF Staged, CallStaged, OneStage, Somewhere
<1> QED BY <1>3, <1>6

-----------------------------------------------------------------------------
LEMMA IndNext == IndInv /\ [Next]_vars => IndInv'
<1> SUFFICES ASSUME IndInv, [Next]_vars PROVE IndInv'
  OBVIOUS
<1>1. CASE UNCHANGED vars
  <2>1. /\ UNCHANGED <<peer, kind, state, reply, cPhase, cSeq, cPayload, link>>
        /\ UNCHANGED <<requests, responses, sPhase, sSeq, sPayload, serving>>
    BY <1>1 DEF vars, client, server
  <2>2. TypeOK' /\ PayloadsMatch' /\ FramesMatch' /\ OwnReply'
    BY <2>1 DEF IndInv, TypeOK, PayloadsMatch, FramesMatch, OwnReply
  <2>3. Staged'
    BY <2>1, SameServer, SameClient DEF IndInv, Staged, CallStaged, OneStage, Somewhere
  <2> QED BY <2>2, <2>3 DEF IndInv
<1>2. CASE Next
  BY <1>2, IndBreak, IndWriteRequest, IndReadResponseHeader, IndReadResponseHeaderError,
     IndReadResponseBody, IndReadRequestHeader, IndReadRequestBody, IndWriteResponse,
     IndCppRequest, IndCppDone DEF Next
<1> QED BY <1>1, <1>2

LEMMA Invariance == Spec => []IndInv
  BY IndInit, IndNext, PTL DEF Spec

-----------------------------------------------------------------------------
(* A call that is in one stage has one place, or two if it is answered     *)
(* twice.                                                                  *)
LEMMA InPlaces ==
  ASSUME NEW c
  PROVE  \A x : x \in Places(c) <=>
           \/ \E i \in 1..Len(requests) : requests[i] = c /\ x = <<"request", i>>
           \/ Reading(c) /\ x = <<"body">>
           \/ c \in serving /\ x = <<"serving">>
           \/ \E i \in 1..Len(responses) : responses[i].id = c /\ x = <<"response", i>>
           \/ Replying(c) /\ x = <<"reply">>
  BY DEF Places, Reading, Replying

LEMMA OnePlace ==
  ASSUME IndInv, link = "up", NEW c \in Calls, Somewhere(c)
  PROVE  \E x, y \in Places(c) : Places(c) = {x, y} /\ (x = y \/ kind[c] = "twice")
<1>1. RequestedOnce /\ RespondedOnce /\ OneStage(c)
  BY DEF IndInv, Staged, CallStaged
<1>2. ASSUME NEW x \in Places(c), NEW y \in Places(c), x = y \/ kind[c] = "twice",
             \A z \in Places(c) : z = x \/ z = y
      PROVE  \E v, w \in Places(c) : Places(c) = {v, w} /\ (v = w \/ kind[c] = "twice")
  <2>1. Places(c) = {x, y}
    BY <1>2
  <2> QED BY <1>2, <2>1
<1>3. CASE Requested(c)
  <2>1. PICK i \in 1..Len(requests) : requests[i] = c
    BY <1>3 DEF Requested
  <2>2. <<"request", i>> \in Places(c)
    BY <2>1, InPlaces
  <2>3. \A z \in Places(c) : z = <<"request", i>>
    BY <1>1, <1>3, <2>1, InPlaces DEF OneStage, RequestedOnce, Responded
  <2> QED BY <1>2, <2>2, <2>3
<1>4. CASE Reading(c)
  <2>1. <<"body">> \in Places(c)
    BY <1>4, InPlaces
  <2>2. \A z \in Places(c) : z = <<"body">>
    BY <1>1, <1>4, InPlaces DEF OneStage, Requested, Responded
  <2> QED BY <1>2, <2>1, <2>2
<1>5. CASE c \in serving
  <2>1. <<"serving">> \in Places(c)
    BY <1>5, InPlaces
  <2>2. \A z \in Places(c) : z = <<"serving">>
    BY <1>1, <1>5, InPlaces DEF OneStage, Requested, Responded
  <2> QED BY <1>2, <2>1, <2>2
<1>6. CASE Replying(c)
  <2>1. <<"reply">> \in Places(c) /\ cPhase = "body" /\ cSeq = c
    BY <1>6, InPlaces DEF Replying
  <2>2. \A z \in Places(c) :
          \/ z = <<"reply">>
          \/ \E i \in 1..Len(responses) : responses[i].id = c /\ z = <<"response", i>>
    BY <1>1, <1>6, InPlaces DEF OneStage, Requested
  <2>3. CASE Responded(c)
    <3>1. kind[c] = "twice"
      BY <1>1, <2>1, <2>3 DEF RespondedOnce
    <3>2. PICK i \in 1..Len(responses) : responses[i].id = c
      BY <2>3 DEF Responded
    <3>3. <<"response", i>> \in Places(c)
      BY <3>2, InPlaces
    <3>4. \A z \in Places(c) : z = <<"reply">> \/ z = <<"response", i>>
      BY <1>1, <2>1, <2>2, <3>2 DEF RespondedOnce
    <3> QED BY <1>2, <2>1, <3>1, <3>3, <3>4
  <2>4. CASE ~Responded(c)
    BY <1>2, <2>1, <2>2, <2>4 DEF Responded
  <2> QED BY <2>3, <2>4
<1>7. CASE Responded(c) /\ ~Replying(c)
  <2>1. PICK i \in 1..Len(responses) : responses[i].id = c
    BY <1>7 DEF Responded
  <2>2. <<"response", i>> \in Places(c)
    BY <2>1, InPlaces
  <2>3. \A z \in Places(c) :
          \E j \in 1..Len(responses) : responses[j].id = c /\ z = <<"response", j>>
    BY <1>1, <1>7, InPlaces DEF OneStage, Requested
  <2>4. CASE \A j \in 1..Len(responses) : responses[j].id = c => j = i
    BY <1>2, <2>2, <2>3, <2>4
  <2>5. CASE \E j \in 1..Len(responses) : responses[j].id = c /\ j # i
    <3>1. PICK j \in 1..Len(responses) : responses[j].id = c /\ j # i
      BY <2>5
    <3>2. kind[c] = "twice"
      BY <1>1, <2>1, <3>1 DEF RespondedOnce
    <3>3. <<"response", j>> \in Places(c)
      BY <3>1, InPlaces
    <3>4. \A k \in 1..Len(responses) : responses[k].id = c => k = i \/ k = j
      BY <1>1, <2>1, <3>1 DEF RespondedOnce
    <3>5. \A z \in Places(c) : z = <<"response", i>> \/ z = <<"response", j>>
      BY <2>3, <3>4
    <3> QED BY <1>2, <2>2, <3>2, <3>3, <3>5
  <2> QED BY <2>4, <2>5
<1> QED BY <1>3, <1>4, <1>5, <1>6, <1>7 DEF Somewhere

(* A reply is parsed from the payload of its own response, and while the   *)
(* connection is up a pending call is at one place between the codecs, or  *)
(* two if its method runs done twice: ReadResponseHeader/ReadResponseBody, *)
(* ReadRequestHeader/ReadRequestBody and WriteResponse neither confuse nor *)
(* drop a call, for any number of calls.                                   *)
THEOREM RepliesAreMatched == Spec => []RepliesMatched
<1>1. ASSUME IndInv PROVE RepliesMatched
  <2>1. NoneDropped
    BY <1>1, OnePlace DEF NoneDropped, IndInv, Staged, CallStaged
  <2> QED BY <1>1, <2>1 DEF RepliesMatched, IndInv
<1> QED BY <1>1, Invariance, PTL

(* The panics of the codecs' payload checks: ClientCodec's is never hit,   *)
(* ServerCodec's only after a request whose body it refused.               *)
THEOREM PanicsAreRefusals == Spec => []PanicsNeedRefusals
<1>1. ASSUME IndInv PROVE PanicsNeedRefusals
  BY <1>1 DEF IndInv, PayloadsMatch, PanicsNeedRefusals
<1> QED BY <1>1, Invariance, PTL

-----------------------------------------------------------------------------
(***************************************************************************)
(* What carries the calls: the format on the wire between any two of Go,   *)
(* Java and Python, of module Wire, by WireInstance.                       *)
(***************************************************************************)

(* The units of message m on the wire: how many, and the j-th. *)
SizeOf(m) == m.size + 4
UnitOf(m, j) ==
  IF j <= 2 THEN Format!Unit("length", 0, m.size + 2, <<>>)
  ELSE IF j = 3 THEN Format!Unit("tag", 0, 0, <<>>)
  ELSE IF j <= m.size + 3 THEN Format!Unit("payload", m, 0, <<>>)
  ELSE Format!Unit("checksum", 0, 0, Format!Tag \o Format!Payload(m))
Units == {UnitOf(m, j) : m \in Format!Messages, j \in Nat}

(* What has been sent and not yet read. *)
StreamLen == Len(buffer) + Len(bytes)
StreamAt(p) == IF p <= Len(buffer) THEN buffer[p] ELSE bytes[p - Len(buffer)]

WireTypes ==
  /\ sender \in Format!Languages /\ receiver \in Format!Languages
  /\ socket \in {"up", "down"} /\ sent \in Seq(Format!Messages)
  /\ bytes \in Seq(Units) /\ buffer \in Seq(Units)
  /\ phase \in {"length", "body", "discard", "refused", "assert", "end"}
  /\ length \in Nat /\ taken \in 0..Len(sent)

(* A frame that is being read or discarded is that of the next message. *)
FrameNext ==
  /\ phase \in {"body", "discard"} => taken < Len(sent)
  /\ phase = "body" => /\ length = sent[taken + 1].size + 2
                       /\ receiver = "java" => length <= Len(buffer)
  /\ phase = "discard" => /\ length \in 1..SizeOf(sent[taken + 1])
                          /\ sent[taken + 1].size > Format!Limit

(* How much of the next message has been read. *)
Consumed ==
  CASE phase = "length" -> 0
    [] phase = "body" -> 2
    [] phase = "discard" -> SizeOf(sent[taken + 1]) - length

(* The stream is cut into messages: at[m] units come before message m, and *)
(* only the end of the connection takes something off the end.             *)
Parted(at) ==
  /\ at[taken + 1] = 0 - Consumed
  /\ \A m \in (taken + 1)..(Len(sent) + 1) : at[m] \in Int
  /\ \A m \in (taken + 1)..Len(sent) :
       /\ at[m + 1] = at[m] + SizeOf(sent[m])
       /\ \A j \in 1..SizeOf(sent[m]) :
            at[m] + j \in 1..StreamLen => StreamAt(at[m] + j) = UnitOf(sent[m], j)
  /\ StreamLen <= at[Len(sent) + 1]
  /\ socket = "up" => StreamLen = at[Len(sent) + 1]
StreamFacts == phase \in {"length", "body", "discard"} => \E at : Parted(at)

WireInv == WireTypes /\ FrameNext /\ StreamFacts /\ Format!StopsForAReason

LEMMA LeastNatural ==
  ASSUME NEW T, T \subseteq Nat, T # {}
  PROVE  \E m \in T : \A k \in T : m <= k
<1>1. PICK m \in T : \A y \in T : ~(<<y, m>> \in OpToRel(<, Nat))
  BY NatLessThanWellFounded, WFMin
<1>2. \A y \in T : ~(y < m)
  BY <1>1 DEF OpToRel
<1> QED BY <1>2

-----------------------------------------------------------------------------
(* Messages and their units. *)

LEMMA MessageFacts ==
  ASSUME FormatAssumed, NEW m \in Format!Messages
  PROVE  m.size \in Sizes /\ m.size \in Nat \ {0} /\ SizeOf(m) \in Nat
<1>1. m.size \in Sizes
  BY DEF Format!Messages
<1>2. PICK b \in Nat : Sizes \subseteq 1..b
  BY DEF FormatAssumed
<1>3. m.size \in 1..b
  BY <1>1, <1>2
<1> QED BY <1>1, <1>2, <1>3 DEF SizeOf

(* The lengths that the receivers look at, and the limit that they make. *)
LEMMA LimitFacts ==
  ASSUME FormatAssumed, receiver \in Format!Languages
  PROVE  /\ receiver = "go" => Format!Limit = GoMax - 2
         /\ receiver = "java" => Format!Limit = JavaMax - 4
         /\ Format!Limit \in Nat
<1>1. receiver = "go" => Format!Limit = GoMax - 2
  BY DEF FormatAssumed, Format!Limit, Format!MinLength
<1>2. receiver = "java" => Format!Limit = JavaMax - 4
  BY DEF FormatAssumed, Format!Limit, Format!MinLength, Format!LengthField
<1>3. Format!Max(Sizes) \in Nat
  <2>1. PICK b \in Nat : Sizes \subseteq 1..b
    BY DEF FormatAssumed
  <2> DEFINE T == {b - s : s \in Sizes}
  <2>2. T \subseteq Nat /\ T # {}
    <3>1. \A s \in Sizes : b - s \in Nat
      BY <2>1
    <3>2. Sizes # {}
      BY DEF FormatAssumed
    <3> QED BY <3>1, <3>2
  <2>3. PICK t \in T : \A u \in T : t <= u
    <3> HIDE DEF T
    <3> QED BY <2>2, LeastNatural
  <2>4. PICK x \in Sizes : t = b - x
    BY <2>3
  <2>5. \A y \in Sizes : x >= y
    <3>1. \A y \in Sizes : y \in 1..b /\ t <= b - y
      BY <2>1, <2>3
    <3> QED BY <2>1, <2>4, <3>1
  <2>6. Format!Max(Sizes) \in Sizes
    BY <2>5 DEF Format!Max
  <2>7. \A y \in Sizes : y \in Nat
    BY <2>1
  <2> QED BY <2>6, <2>7
<1>4. receiver = "python" => Format!Limit = Format!Max(Sizes)
  BY DEF Format!Limit
<1> QED BY <1>1, <1>2, <1>3, <1>4
    DEF FormatAssumed, Format!Languages, Format!MinLength, Format!LengthField

LEMMA Joined ==
  ASSUME NEW S, NEW a \in Seq(S), NEW b \in Seq(S)
  PROVE  /\ a \o b \in Seq(S) /\ Len(a \o b) = Len(a) + Len(b)
         /\ \A j \in 1..Len(a) : (a \o b)[j] = a[j]
         /\ \A j \in 1..Len(b) : (a \o b)[Len(a) + j] = b[j]
<1>1. Len(a) \in Nat /\ Len(b) \in Nat
  OBVIOUS
<1>2. /\ a \o b \in Seq(S) /\ Len(a \o b) = Len(a) + Len(b)
      /\ \A i \in 1..(Len(a) + Len(b)) :
           (a \o b)[i] = IF i <= Len(a) THEN a[i] ELSE b[i - Len(a)]
  BY ConcatProperties
<1>3. ASSUME NEW j \in 1..Len(b) PROVE (a \o b)[Len(a) + j] = b[j]
  <2>1. Len(a) + j \in 1..(Len(a) + Len(b)) /\ ~(Len(a) + j <= Len(a)) /\ (Len(a) + j) - Len(a) = j
    BY <1>1
  <2> QED BY <1>2, <2>1
<1> QED BY <1>1, <1>2, <1>3

LEMMA UnitsOfMessage ==
  ASSUME FormatAssumed, NEW m \in Format!Messages
  PROVE  /\ \A j \in 1..2 : UnitOf(m, j) = Format!Unit("length", 0, m.size + 2, <<>>)
         /\ UnitOf(m, 3) = Format!Unit("tag", 0, 0, <<>>)
         /\ \A j \in 1..m.size : UnitOf(m, j + 3) = Format!Unit("payload", m, 0, <<>>)
         /\ UnitOf(m, m.size + 4) =
              Format!Unit("checksum", 0, 0, Format!Tag \o Format!Payload(m))
         /\ \A j \in Nat : UnitOf(m, j) \in Units
<1>1. m.size \in Nat
  BY MessageFacts
<1>2. \A j \in 1..m.size : ~(j + 3 <= 2) /\ j + 3 # 3 /\ j + 3 <= m.size + 3
  BY <1>1
<1>3. ~(m.size + 4 <= 2) /\ m.size + 4 # 3 /\ ~(m.size + 4 <= m.size + 3)
  BY <1>1
<1>4. \A j \in 1..m.size : UnitOf(m, j + 3) = Format!Unit("payload", m, 0, <<>>)
  BY <1>2 DEF UnitOf
<1>5. UnitOf(m, m.size + 4) = Format!Unit("checksum", 0, 0, Format!Tag \o Format!Payload(m))
  BY <1>3 DEF UnitOf
<1>6. \A j \in 1..2 : UnitOf(m, j) = Format!Unit("length", 0, m.size + 2, <<>>)
  BY DEF UnitOf
<1>7. UnitOf(m, 3) = Format!Unit("tag", 0, 0, <<>>)
  BY DEF UnitOf
<1> QED BY <1>4, <1>5, <1>6, <1>7 DEF Units

(* Tag and payload, of which the checksum is computed. *)
LEMMA BodyFacts ==
  ASSUME FormatAssumed, NEW m \in Format!Messages
  PROVE  /\ Format!Tag \in Seq(Units) /\ Format!Payload(m) \in Seq(Units)
         /\ Format!Tag \o Format!Payload(m) \in Seq(Units)
         /\ Len(Format!Tag \o Format!Payload(m)) = m.size + 1
         /\ \A j \in 1..(m.size + 1) : (Format!Tag \o Format!Payload(m))[j] = UnitOf(m, j + 2)
<1> DEFINE z == m.size
           tag == Format!Tag
           load == Format!Payload(m)
           U(j) == UnitOf(m, j)
<1>1. z \in Nat
  BY MessageFacts
<1>2. \A j \in Nat : U(j) \in Units
  BY UnitsOfMessage
<1>3. tag = <<U(3)>>
  BY UnitsOfMessage DEF Format!Tag
<1>4. load = [j \in 1..z |-> U(j + 3)]
  BY UnitsOfMessage DEF Format!Payload
<1> HIDE DEF z, tag, load, U
<1>5. tag \in Seq(Units) /\ Len(tag) = 1 /\ tag[1] = U(3)
  BY <1>2, <1>3
<1>6. load \in Seq(Units) /\ Len(load) = z /\ \A j \in 1..z : load[j] = U(j + 3)
  <2>1. \A j \in 1..z : U(j + 3) \in Units
    BY <1>1, <1>2
  <2> QED BY <1>1, <1>4, <2>1
<1>7. /\ tag \o load \in Seq(Units) /\ Len(tag \o load) = 1 + z
      /\ (tag \o load)[1] = tag[1] /\ \A j \in 1..z : (tag \o load)[1 + j] = load[j]
  <2>1. /\ tag \o load \in Seq(Units) /\ Len(tag \o load) = Len(tag) + Len(load)
        /\ \A j \in 1..Len(tag) : (tag \o load)[j] = tag[j]
        /\ \A j \in 1..Len(load) : (tag \o load)[Len(tag) + j] = load[j]
    <3>1. tag \in Seq(Units) /\ load \in Seq(Units)
      BY <1>5, <1>6
    <3> QED BY <3>1, Joined
  <2> QED BY <1>1, <1>5, <1>6, <2>1
<1>8. ASSUME NEW j \in 1..(z + 1) PROVE (tag \o load)[j] = U(j + 2)
  <2>1. CASE j = 1
    BY <1>5, <1>7, <2>1
  <2>2. CASE j # 1
    <3>1. j - 1 \in 1..z /\ (j - 1) + 3 = j + 2 /\ 1 + (j - 1) = j
      BY <1>1, <2>2
    <3> QED BY <1>6, <1>7, <3>1
  <2> QED BY <2>1, <2>2
<1>9. Len(tag \o load) = z + 1
  BY <1>1, <1>7
<1> QED BY <1>5, <1>6, <1>7, <1>8, <1>9 DEF z, tag, load, U

(* The three encoders do the same. *)
LEMMA EncodeFacts ==
  ASSUME FormatAssumed, sender \in Format!Languages, NEW m \in Format!Messages
  PROVE  /\ Format!Encode(m) \in Seq(Units) /\ Len(Format!Encode(m)) = SizeOf(m)
         /\ \A j \in 1..SizeOf(m) : Format!Encode(m)[j] = UnitOf(m, j)
<1> DEFINE z == m.size
           U(j) == UnitOf(m, j)
           body == Format!Tag \o Format!Payload(m)
           head == Format!Int32(z + 2)
           sum == Format!Adler32(body)
           rest == body \o sum
           frame == head \o rest
<1>1. z \in Nat /\ \A j \in Nat : U(j) \in Units
  BY MessageFacts, UnitsOfMessage
<1>2. /\ body \in Seq(Units) /\ Len(body) = z + 1 /\ \A j \in 1..(z + 1) : body[j] = U(j + 2)
  BY BodyFacts
<1>3. head = [j \in 1..2 |-> U(j)]
  BY UnitsOfMessage DEF Format!Int32, Format!LengthField
<1>4. sum = <<U(z + 4)>>
  BY UnitsOfMessage DEF Format!Adler32
<1>5. Format!Encode(m) = frame
  <2>1. z + 2 = Format!MinLength + m.size /\ z + 2 = Len(body) + 1
    <3>1. z + 2 = Format!MinLength + z
      BY <1>1 DEF Format!MinLength
    <3> HIDE DEF body, z
    <3>2. z + 2 = Len(body) + 1
      BY <1>1, <1>2
    <3> QED BY <3>1, <3>2 DEF z
  <2>2. head \in Seq(Units) /\ sum \in Seq(Units)
    <3>1. z + 4 \in Nat /\ \A j \in 1..2 : U(j) \in Units
      BY <1>1
    <3>2. U(z + 4) \in Units
      BY <1>1, <3>1
    <3> HIDE DEF head, sum, U, z
    <3> QED BY <1>3, <1>4, <3>1, <3>2
  <2>3. (head \o body) \o sum = frame
    <3> HIDE DEF head, body, sum
    <3>1. head \in Seq(Units) /\ body \in Seq(Units) /\ sum \in Seq(Units)
      BY <1>2, <2>2
    <3> QED BY <3>1, ConcatAssociative
  <2>4. CASE sender = "go"
    <3>1. Format!Encode(m) = Format!GoEncode(m)
      BY <2>4 DEF Format!Encode
    <3>2. Format!GoEncode(m) = ((head \o Format!Tag) \o Format!Payload(m)) \o sum
      BY <2>1 DEF Format!GoEncode
    <3>3. Format!Tag \in Seq(Units) /\ Format!Payload(m) \in Seq(Units)
      BY BodyFacts
    <3>4. (head \o Format!Tag) \o Format!Payload(m) = head \o body
      <4> HIDE DEF head
      <4> QED BY <2>2, <3>3, ConcatAssociative
    <3> QED BY <2>3, <3>1, <3>2, <3>4
  <2>5. CASE sender = "java"
    <3>1. Len(rest) = z + 2
      <4> HIDE DEF body, sum, z, U
      <4>1. Len(sum) = 1
        BY <1>4
      <4>2. Len(rest) = Len(body) + Len(sum)
        BY <1>2, <2>2, Joined, Zenon
      <4> QED BY <1>1, <1>2, <4>1, <4>2
    <3>2. Format!RpcEncoder(m) = rest
      BY DEF Format!RpcEncoder
    <3>3. Format!LengthFieldPrepender(rest) = frame
      BY <3>1 DEF Format!LengthFieldPrepender
    <3> QED BY <2>5, <3>2, <3>3 DEF Format!Encode
  <2>6. CASE sender = "python"
    <3>1. Format!PythonEncode(m) = (head \o body) \o sum
      BY <2>1 DEF Format!PythonEncode
    <3> QED BY <2>3, <2>6, <3>1 DEF Format!Encode
  <2> QED BY <2>4, <2>5, <2>6 DEF Format!Languages
<1> HIDE DEF z, U, head, body, sum
<1>6. /\ head \in Seq(Units) /\ Len(head) = 2 /\ \A j \in 1..2 : head[j] = U(j)
  <2>1. \A j \in 1..2 : U(j) \in Units
    BY <1>1
  <2> QED BY <1>3, <2>1
<1>7. sum \in Seq(Units) /\ Len(sum) = 1 /\ sum[1] = U(z + 4)
  <2>1. U(z + 4) \in Units
    BY <1>1
  <2> QED BY <1>4, <2>1
<1>8. /\ rest \in Seq(Units) /\ Len(rest) = z + 2
      /\ \A j \in 1..(z + 2) : rest[j] = U(j + 2)
  <2>1. /\ rest \in Seq(Units) /\ Len(rest) = (z + 1) + 1
        /\ \A j \in 1..(z + 1) : rest[j] = body[j]
        /\ rest[(z + 1) + 1] = sum[1]
    <3>1. /\ body \o sum \in Seq(Units) /\ Len(body \o sum) = Len(body) + Len(sum)
          /\ \A j \in 1..Len(body) : (body \o sum)[j] = body[j]
          /\ \A j \in 1..Len(sum) : (body \o sum)[Len(body) + j] = sum[j]
      <4>1. body \in Seq(Units) /\ sum \in Seq(Units)
        BY <1>2, <1>7
      <4> QED BY <4>1, Joined
    <3>2. /\ rest \in Seq(Units) /\ Len(rest) = Len(body) + Len(sum)
          /\ \A j \in 1..Len(body) : rest[j] = body[j]
          /\ \A j \in 1..Len(sum) : rest[Len(body) + j] = sum[j]
      BY <3>1
    <3> HIDE DEF rest
    <3>3. Len(body) = z + 1 /\ Len(sum) = 1 /\ 1 \in 1..Len(sum)
      BY <1>2, <1>7
    <3> QED BY <3>2, <3>3
  <2> HIDE DEF rest
  <2>2. \A j \in 1..(z + 2) : j \in 1..(z + 1) \/ (j = (z + 1) + 1 /\ j + 2 = z + 4)
    BY <1>1
  <2> QED BY <1>1, <1>2, <1>7, <2>1, <2>2
<1> HIDE DEF rest
<1>9. frame \in Seq(Units) /\ Len(frame) = z + 4 /\ \A j \in 1..(z + 4) : frame[j] = U(j)
  <2>1. /\ frame \in Seq(Units) /\ Len(frame) = 2 + (z + 2)
        /\ \A j \in 1..2 : frame[j] = head[j]
        /\ \A j \in 1..(z + 2) : frame[2 + j] = rest[j]
    <3>1. /\ head \o rest \in Seq(Units) /\ Len(head \o rest) = Len(head) + Len(rest)
          /\ \A j \in 1..Len(head) : (head \o rest)[j] = head[j]
          /\ \A j \in 1..Len(rest) : (head \o rest)[Len(head) + j] = rest[j]
      <4>1. head \in Seq(Units) /\ rest \in Seq(Units)
        BY <1>6, <1>8
      <4> QED BY <4>1, Joined
    <3> QED BY <1>1, <1>6, <1>8, <3>1
  <2> HIDE DEF frame
  <2>2. \A j \in 1..(z + 4) : j \in 1..2 \/ (j - 2 \in 1..(z + 2) /\ 2 + (j - 2) = j /\ (j - 2) + 2 = j)
    BY <1>1
  <2>3. ASSUME NEW j \in 1..(z + 4) PROVE frame[j] = U(j)
    BY <1>6, <1>8, <2>1, <2>2
  <2> QED BY <1>1, <2>1, <2>3
<1> HIDE DEF frame
<1> QED BY <1>5, <1>9 DEF SizeOf, z, U

-----------------------------------------------------------------------------
(* The stream. *)

LEMMA WireNumbers ==
  ASSUME FormatAssumed, WireTypes
  PROVE  /\ Len(sent) \in Nat /\ Len(buffer) \in Nat /\ Len(bytes) \in Nat /\ StreamLen \in Nat
         /\ taken \in Nat /\ taken <= Len(sent)
         /\ \A m \in (taken + 1)..Len(sent) :
              /\ sent[m] \in Format!Messages /\ sent[m].size \in Nat \ {0}
              /\ SizeOf(sent[m]) = sent[m].size + 4 /\ SizeOf(sent[m]) \in Nat
<1>1. Len(sent) \in Nat /\ Len(buffer) \in Nat /\ Len(bytes) \in Nat /\ taken \in Nat /\ taken <= Len(sent)
  BY DEF WireTypes
<1>2. \A m \in (taken + 1)..Len(sent) : sent[m] \in Format!Messages
  <2>1. \A m \in (taken + 1)..Len(sent) : m \in 1..Len(sent)
    BY <1>1
  <2> QED BY <2>1, ElementOfSeq DEF WireTypes
<1>3. \A m \in (taken + 1)..Len(sent) : sent[m].size \in Nat \ {0} /\ SizeOf(sent[m]) \in Nat
  BY <1>2, MessageFacts
<1> QED BY <1>1, <1>2, <1>3 DEF StreamLen, SizeOf

(* Reading n units off the buffer moves all that follows. *)
LEMMA Skipped ==
  ASSUME FormatAssumed, WireTypes, NEW at, Parted(at), NEW n \in Nat, n <= Len(buffer),
         Format!Skip(n), UNCHANGED <<sent, bytes, socket>>,
         taken' \in Nat, taken <= taken', taken' <= Len(sent),
         at[taken' + 1] - n = 0 - Consumed'
  PROVE  /\ buffer' \in Seq(Units) /\ Len(buffer') = Len(buffer) - n
         /\ \E a : Parted(a)'
<1> DEFINE a == [m \in Nat |-> at[m] - n]
<1>1. /\ Len(sent) \in Nat /\ Len(buffer) \in Nat /\ Len(bytes) \in Nat
      /\ taken \in Nat /\ taken <= Len(sent)
      /\ \A m \in (taken + 1)..Len(sent) : SizeOf(sent[m]) \in Nat
  BY WireNumbers
<1>2. /\ buffer' \in Seq(Units) /\ Len(buffer') = Len(buffer) - n
      /\ \A p \in 1..(Len(buffer) - n) : buffer'[p] = buffer[p + n]
  <2>1. buffer' = SubSeq(buffer, n + 1, Len(buffer)) /\ buffer \in Seq(Units)
    BY DEF Format!Skip, WireTypes
  <2>2. n + 1 \in 1..(Len(buffer) + 1) /\ Len(buffer) \in n..Len(buffer)
    BY <1>1
  <2>3. Len(buffer') = Len(buffer) - n
    BY <1>1, <2>1, <2>2
  <2>4. ASSUME NEW p \in 1..(Len(buffer) - n) PROVE buffer'[p] = buffer[p + n]
    BY <1>1, <2>1, <2>2
  <2>5. buffer' \in Seq(Units)
    BY <1>1, <2>1, <2>2
  <2> QED BY <2>3, <2>4, <2>5
<1>3. StreamLen = Len(buffer) + Len(bytes) /\ StreamLen' = StreamLen - n /\ StreamLen \in Nat
  BY <1>1, <1>2 DEF StreamLen
<1>4. ASSUME NEW p \in Int, p \in 1..(StreamLen - n) PROVE StreamAt(p)' = StreamAt(p + n)
  <2>1. CASE p <= Len(buffer) - n
    <3>1. p \in 1..(Len(buffer) - n) /\ p <= Len(buffer') /\ p + n <= Len(buffer)
      BY <1>1, <1>2, <1>4, <2>1
    <3>2. StreamAt(p)' = buffer'[p] /\ StreamAt(p + n) = buffer[p + n]
      BY <3>1 DEF StreamAt
    <3> QED BY <1>2, <3>1, <3>2
  <2>2. CASE ~(p <= Len(buffer) - n)
    <3>1. ~(p <= Len(buffer')) /\ ~(p + n <= Len(buffer)) /\ p - Len(buffer') = (p + n) - Len(buffer)
      BY <1>1, <1>2, <2>2
    <3>2. StreamAt(p)' = bytes'[p - Len(buffer')] /\ StreamAt(p + n) = bytes[(p + n) - Len(buffer)]
      BY <3>1 DEF StreamAt
    <3> QED BY <3>1, <3>2
  <2> QED BY <2>1, <2>2
<1>5. \A m \in (taken + 1)..(Len(sent) + 1) : at[m] \in Int /\ m \in Nat /\ a[m] = at[m] - n
  <2>1. \A m \in (taken + 1)..(Len(sent) + 1) : at[m] \in Int
    BY DEF Parted
  <2> QED BY <1>1, <2>1
<1>6. /\ taken' + 1 \in (taken + 1)..(Len(sent) + 1)
      /\ \A m \in (taken' + 1)..(Len(sent) + 1) : m \in (taken + 1)..(Len(sent) + 1)
      /\ \A m \in (taken' + 1)..Len(sent) :
           /\ m \in (taken + 1)..Len(sent) /\ m \in (taken + 1)..(Len(sent) + 1)
           /\ m + 1 \in (taken + 1)..(Len(sent) + 1)
  <2> DEFINE t == taken
             u == taken'
             N == Len(sent)
  <2>1. t \in Nat /\ u \in Nat /\ N \in Nat /\ t <= u /\ u <= N
    BY <1>1
  <2> HIDE DEF t, u, N
  <2>2. /\ u + 1 \in (t + 1)..(N + 1) /\ \A m \in (u + 1)..(N + 1) : m \in (t + 1)..(N + 1)
        /\ \A m \in (u + 1)..N :
             m \in (t + 1)..N /\ m \in (t + 1)..(N + 1) /\ m + 1 \in (t + 1)..(N + 1)
    BY <2>1
  <2> QED BY <2>2 DEF t, u, N
<1>7. a[taken' + 1] = 0 - Consumed'
  <2>1. a[taken' + 1] = at[taken' + 1] - n
    BY <1>5, <1>6
  <2> QED BY <2>1
<1> HIDE DEF a
<1>8. \A m \in (taken' + 1)..(Len(sent) + 1) : a[m] \in Int
  <2>1. ASSUME NEW m \in (taken' + 1)..(Len(sent) + 1) PROVE a[m] \in Int
    <3>1. at[m] \in Int /\ a[m] = at[m] - n
      BY <1>5, <1>6
    <3> QED BY <3>1
  <2> QED BY <2>1
<1>9. ASSUME NEW m \in (taken' + 1)..Len(sent)
      PROVE  /\ a[m + 1] = a[m] + SizeOf(sent[m])
             /\ \A j \in 1..SizeOf(sent[m]) :
                  a[m] + j \in 1..(StreamLen - n) => StreamAt(a[m] + j)' = UnitOf(sent[m], j)
  <2>1. /\ m \in (taken + 1)..Len(sent) /\ m \in (taken + 1)..(Len(sent) + 1)
        /\ m + 1 \in (taken + 1)..(Len(sent) + 1)
    BY <1>6
  <2>2. /\ at[m + 1] = at[m] + SizeOf(sent[m])
        /\ \A j \in 1..SizeOf(sent[m]) :
             at[m] + j \in 1..StreamLen => StreamAt(at[m] + j) = UnitOf(sent[m], j)
    BY <2>1 DEF Parted
  <2>3. at[m] \in Int /\ at[m + 1] \in Int /\ a[m] = at[m] - n /\ a[m + 1] = at[m + 1] - n
        /\ SizeOf(sent[m]) \in Nat
    BY <1>1, <1>5, <2>1
  <2>4. a[m + 1] = a[m] + SizeOf(sent[m])
    BY <2>2, <2>3
  <2>5. ASSUME NEW j \in 1..SizeOf(sent[m]), a[m] + j \in 1..(StreamLen - n)
        PROVE  StreamAt(a[m] + j)' = UnitOf(sent[m], j)
    <3>1. /\ a[m] + j \in Int /\ (a[m] + j) + n = at[m] + j /\ at[m] + j \in 1..StreamLen
      <4> DEFINE x == a[m]
                 y == at[m]
                 L == StreamLen
      <4>1. x \in Int /\ y \in Int /\ x = y - n /\ L \in Nat /\ j \in Nat /\ x + j \in 1..(L - n)
        BY <1>3, <2>3, <2>5, SMTT(20)
      <4> HIDE DEF x, y, L
      <4>2. x + j \in Int /\ (x + j) + n = y + j /\ y + j \in 1..L
        BY <4>1
      <4> QED BY <4>2 DEF x, y, L
    <3>2. StreamAt(a[m] + j)' = StreamAt((a[m] + j) + n)
      BY <1>4, <2>5, <3>1
    <3> QED BY <2>2, <3>1, <3>2
  <2> QED BY <2>4, <2>5
<1>10. StreamLen - n <= a[Len(sent) + 1] /\ (socket = "up" => StreamLen - n = a[Len(sent) + 1])
  <2>1. Len(sent) + 1 \in (taken + 1)..(Len(sent) + 1)
    BY <1>1
  <2>2. StreamLen <= at[Len(sent) + 1] /\ (socket = "up" => StreamLen = at[Len(sent) + 1])
    BY DEF Parted
  <2>3. at[Len(sent) + 1] \in Int /\ a[Len(sent) + 1] = at[Len(sent) + 1] - n
    BY <1>5, <2>1
  <2> QED BY <1>3, <2>2, <2>3
<1>11. Parted(a)'
  <2>1. sent' = sent /\ socket' = socket /\ StreamLen' = StreamLen - n
    BY <1>3
  <2>2. \A m \in (taken' + 1)..Len(sent') :
          /\ a[m + 1] = a[m] + SizeOf(sent'[m])
          /\ \A j \in 1..SizeOf(sent'[m]) :
               a[m] + j \in 1..StreamLen' => StreamAt(a[m] + j)' = UnitOf(sent'[m], j)
    BY <1>9, <2>1
  <2> QED BY <1>7, <1>8, <1>10, <2>1, <2>2 DEF Parted, SizeOf, UnitOf
<1> QED BY <1>2, <1>11

(* Later messages come later. *)
LEMMA PartsGrow ==
  ASSUME FormatAssumed, WireTypes, NEW at, Parted(at)
  PROVE  \A m \in (taken + 1)..(Len(sent) + 1) : at[m] <= at[Len(sent) + 1]
<1> DEFINE N == Len(sent)
           t0 == taken
           T == {k \in Nat : N + 1 - k \in (t0 + 1)..(N + 1) /\ ~(at[N + 1 - k] <= at[N + 1])}
<1>1. /\ N \in Nat /\ t0 \in Nat /\ t0 <= N
      /\ \A m \in (t0 + 1)..N : SizeOf(sent[m]) \in Nat
  BY WireNumbers
<1>2. /\ \A m \in (t0 + 1)..(N + 1) : at[m] \in Int
      /\ \A m \in (t0 + 1)..N : at[m + 1] = at[m] + SizeOf(sent[m])
  BY DEF Parted
<1> HIDE DEF N, t0
<1>3. T = {}
  <2> SUFFICES ASSUME T # {} PROVE FALSE
    OBVIOUS
  <2>1. T \subseteq Nat
    OBVIOUS
  <2>2. PICK k \in T : \A j \in T : k <= j
    <3> HIDE DEF T
    <3> QED BY <2>1, LeastNatural
  <2>3. k \in Nat /\ N + 1 - k \in (t0 + 1)..(N + 1) /\ ~(at[N + 1 - k] <= at[N + 1])
    OBVIOUS
  <2>4. at[N + 1] \in Int /\ at[N + 1 - k] \in Int
    <3>1. N + 1 \in (t0 + 1)..(N + 1)
      BY <1>1
    <3> QED BY <1>2, <2>3, <3>1
  <2>5. k # 0
    <3>1. k = 0 => N + 1 - k = N + 1
      BY <1>1
    <3> QED BY <2>3, <2>4, <3>1
  <2> DEFINE m == N + 1 - k
  <2>6. m \in (t0 + 1)..N /\ m + 1 = N + 1 - (k - 1) /\ k - 1 \in Nat /\ m + 1 \in (t0 + 1)..(N + 1)
    BY <1>1, <2>3, <2>5
  <2>7. at[m + 1] = at[m] + SizeOf(sent[m]) /\ SizeOf(sent[m]) \in Nat /\ at[m + 1] \in Int
    BY <1>1, <1>2, <2>6
  <2>8. ~(at[m + 1] <= at[N + 1])
    BY <2>3, <2>4, <2>7
  <2>9. k - 1 \in T
    BY <2>6, <2>8
  <2>10. k <= k - 1
    BY <2>2, <2>9
  <2> QED BY <2>3, <2>10
<1>4. ASSUME NEW m \in (t0 + 1)..(N + 1) PROVE at[m] <= at[N + 1]
  <2>1. N + 1 - m \in Nat /\ N + 1 - (N + 1 - m) = m
    BY <1>1
  <2> QED BY <1>3, <2>1
<1> QED BY <1>4 DEF N, t0

(* What is first in the buffer is what remains of the next message. *)
LEMMA FirstUnits ==
  ASSUME FormatAssumed, WireTypes, NEW at, Parted(at), Consumed = 0 - at[taken + 1],
         NEW c \in Nat, Consumed = c, taken < Len(sent)
  PROVE  \A j \in 1..Len(buffer) :
           j + c <= SizeOf(sent[taken + 1]) => buffer[j] = UnitOf(sent[taken + 1], j + c)
<1>1. /\ Len(sent) \in Nat /\ Len(buffer) \in Nat /\ Len(bytes) \in Nat
      /\ taken \in Nat /\ taken + 1 \in (taken + 1)..Len(sent) /\ SizeOf(sent[taken + 1]) \in Nat
  BY WireNumbers
<1> SUFFICES ASSUME NEW j \in 1..Len(buffer), j + c <= SizeOf(sent[taken + 1])
             PROVE  buffer[j] = UnitOf(sent[taken + 1], j + c)
  OBVIOUS
<1>2. at[taken + 1] = 0 - c
  BY DEF Parted
<1>3. j + c \in 1..SizeOf(sent[taken + 1]) /\ at[taken + 1] + (j + c) = j /\ j \in 1..StreamLen
  BY <1>1, <1>2 DEF StreamLen
<1>4. StreamAt(j) = UnitOf(sent[taken + 1], j + c)
  <2>1. \A i \in 1..SizeOf(sent[taken + 1]) :
          at[taken + 1] + i \in 1..StreamLen => StreamAt(at[taken + 1] + i) = UnitOf(sent[taken + 1], i)
    BY <1>1 DEF Parted
  <2> QED BY <1>3, <2>1
<1> QED BY <1>1, <1>4 DEF StreamAt

(* A unit that arrives between two messages belongs to the next. *)
LEMMA SomethingNext ==
  ASSUME FormatAssumed, WireTypes, NEW at, Parted(at), phase = "length", buffer # <<>>
  PROVE  taken < Len(sent)
<1>1. /\ Len(sent) \in Nat /\ Len(buffer) \in Nat /\ Len(bytes) \in Nat
      /\ taken \in Nat /\ taken <= Len(sent) /\ Len(buffer) >= 1
  BY WireNumbers DEF WireTypes
<1>2. at[taken + 1] = 0 /\ StreamLen <= at[Len(sent) + 1] /\ StreamLen >= 1 /\ StreamLen \in Nat
  BY <1>1 DEF Parted, Consumed, StreamLen
<1>3. taken # Len(sent)
  BY <1>2
<1> QED BY <1>1, <1>3

-----------------------------------------------------------------------------
(* Initially, and the steps of the sender and of TCP. *)

LEMMA WireStart == ASSUME FormatAssumed, Format!Init PROVE WireInv
<1>1. /\ sent = <<>> /\ bytes = <<>> /\ buffer = <<>> /\ socket = "up" /\ phase = "length"
      /\ length = 0 /\ taken = 0 /\ sender \in Format!Languages /\ receiver \in Format!Languages
  BY DEF Format!Init
<1>2. WireTypes
  BY <1>1 DEF WireTypes
<1>3. FrameNext /\ Format!StopsForAReason
  BY <1>1 DEF FrameNext, Format!StopsForAReason
<1>4. StreamFacts
  <2> DEFINE a == [m \in Nat |-> 0]
  <2>1. Len(sent) = 0 /\ StreamLen = 0 /\ Consumed = 0
    BY <1>1 DEF StreamLen, Consumed
  <2>2. a[taken + 1] = 0 /\ a[Len(sent) + 1] = 0 /\ \A m \in (taken + 1)..(Len(sent) + 1) : a[m] = 0
    BY <1>1, <2>1
  <2> HIDE DEF a
  <2>3. Parted(a)
    BY <1>1, <2>1, <2>2 DEF Parted
  <2> QED BY <2>3 DEF StreamFacts
<1> QED BY <1>2, <1>3, <1>4 DEF WireInv

(* While the receiver reads, StopsForAReason says nothing. *)
LEMMA ReadingOn ==
  ASSUME phase' \in {"length", "body", "discard"} PROVE Format!StopsForAReason'
BY DEF Format!StopsForAReason

(* What does not change with the phase. *)
LEMMA FrameKept ==
  ASSUME FormatAssumed, WireInv, UNCHANGED <<receiver, phase, length, taken>>,
         taken < Len(sent) => taken < Len(sent') /\ sent'[taken + 1] = sent[taken + 1],
         Len(buffer) <= Len(buffer'), Len(buffer) \in Nat, Len(buffer') \in Nat,
         socket = "down" => socket' = "down"
  PROVE  /\ FrameNext' /\ Format!StopsForAReason'
         /\ phase \in {"length", "body", "discard"} => Consumed' = Consumed
<1>1. FrameNext /\ Format!StopsForAReason /\ WireTypes /\ length \in Nat
  BY DEF WireInv, WireTypes
<1>2. Format!Limit' = Format!Limit
  BY DEF Format!Limit
<1>3. FrameNext'
  <2>1. phase \in {"body", "discard"} => taken < Len(sent') /\ sent'[taken + 1] = sent[taken + 1]
    BY <1>1 DEF FrameNext
  <2>2. phase = "body" => /\ length = sent'[taken + 1].size + 2
                          /\ receiver = "java" => length <= Len(buffer')
    BY <1>1, <2>1 DEF FrameNext
  <2>3. phase = "discard" => /\ length \in 1..SizeOf(sent'[taken + 1])
                             /\ sent'[taken + 1].size > Format!Limit
    BY <1>1, <2>1 DEF FrameNext
  <2>4. UNCHANGED <<receiver, phase, length, taken>>
    OBVIOUS
  <2> QED BY <1>2, <2>1, <2>2, <2>3, <2>4 DEF FrameNext, SizeOf
<1>4. Format!StopsForAReason'
  BY <1>1, <1>2 DEF Format!StopsForAReason
<1>5. phase \in {"length", "body", "discard"} => Consumed' = Consumed
  BY <1>1 DEF Consumed, FrameNext, SizeOf
<1> QED BY <1>3, <1>4, <1>5

LEMMA WireSend == ASSUME FormatAssumed, WireInv, Format!Send PROVE WireInv'
<1>1. PICK size \in Sizes :
        /\ sent' = Append(sent, [number |-> Len(sent) + 1, size |-> size])
        /\ bytes' = bytes \o Format!Encode([number |-> Len(sent) + 1, size |-> size])
  BY DEF Format!Send
<1> DEFINE m0 == [number |-> Len(sent) + 1, size |-> size]
           N == Len(sent)
           e == Format!Encode(m0)
<1>2. /\ socket = "up" /\ N < MaxMessages
      /\ UNCHANGED <<sender, receiver, buffer, socket, phase, length, received, taken>>
  BY DEF Format!Send
<1>3. WireTypes /\ FrameNext /\ StreamFacts
  BY DEF WireInv
<1>4. /\ N \in Nat /\ Len(buffer) \in Nat /\ Len(bytes) \in Nat /\ StreamLen \in Nat
      /\ taken \in Nat /\ taken <= N
  BY <1>3, WireNumbers
<1>5. m0 \in Format!Messages
  <2>1. N + 1 \in 1..MaxMessages
    BY <1>2, <1>4 DEF FormatAssumed
  <2> QED BY <2>1 DEF Format!Messages
<1>6. e \in Seq(Units) /\ Len(e) = SizeOf(m0) /\ (\A j \in 1..SizeOf(m0) : e[j] = UnitOf(m0, j))
      /\ SizeOf(m0) \in Nat
  BY <1>3, <1>5, EncodeFacts, MessageFacts DEF WireTypes
<1>7. sent' = Append(sent, m0) /\ bytes' = bytes \o e
  BY <1>1
<1> HIDE DEF m0, e
<1>8. /\ sent' \in Seq(Format!Messages) /\ Len(sent') = N + 1 /\ sent'[N + 1] = m0
      /\ \A m \in 1..N : sent'[m] = sent[m]
  BY <1>3, <1>5, <1>7, AppendProperties DEF WireTypes
<1>9. /\ bytes' \in Seq(Units) /\ Len(bytes') = Len(bytes) + SizeOf(m0)
      /\ \A j \in 1..Len(bytes) : bytes'[j] = bytes[j]
      /\ \A j \in 1..SizeOf(m0) : bytes'[Len(bytes) + j] = UnitOf(m0, j)
  <2>1. bytes \in Seq(Units) /\ e \in Seq(Units)
    BY <1>3, <1>6 DEF WireTypes
  <2>2. /\ bytes \o e \in Seq(Units) /\ Len(bytes \o e) = Len(bytes) + Len(e)
        /\ \A j \in 1..Len(bytes) : (bytes \o e)[j] = bytes[j]
        /\ \A j \in 1..Len(e) : (bytes \o e)[Len(bytes) + j] = e[j]
    BY <2>1, Joined
  <2> QED BY <1>6, <1>7, <2>2
<1>10. WireTypes'
  <2>1. taken' \in 0..Len(sent')
    BY <1>2, <1>4, <1>8
  <2> QED BY <1>2, <1>3, <1>8, <1>9, <2>1 DEF WireTypes, Units, UnitOf, Format!Messages, Format!Languages
<1>11. /\ FrameNext' /\ Format!StopsForAReason'
       /\ phase \in {"length", "body", "discard"} => Consumed' = Consumed
  <2>1. taken < N => taken < Len(sent') /\ sent'[taken + 1] = sent[taken + 1]
    BY <1>4, <1>8
  <2>2. Len(buffer) <= Len(buffer') /\ Len(buffer') \in Nat
    BY <1>2, <1>4
  <2>3. UNCHANGED <<receiver, phase, length, taken>> /\ socket' = socket
    BY <1>2
  <2> QED BY <1>4, <2>1, <2>2, <2>3, FrameKept
<1>12. StreamFacts'
  <2> SUFFICES ASSUME phase \in {"length", "body", "discard"} PROVE \E a : Parted(a)'
    BY <1>2 DEF StreamFacts
  <2>1. PICK at : Parted(at)
    BY <1>3 DEF StreamFacts
  <2>1a. PICK a : a = [m \in Nat |-> IF m = N + 2 THEN at[N + 1] + SizeOf(m0) ELSE at[m]]
    OBVIOUS
  <2>2. /\ at[taken + 1] = 0 - Consumed /\ (\A m \in (taken + 1)..(N + 1) : at[m] \in Int)
        /\ StreamLen = at[N + 1]
    BY <1>2, <2>1 DEF Parted
  <2>3. /\ a[N + 2] = at[N + 1] + SizeOf(m0)
        /\ \A m \in (taken + 1)..(N + 1) : a[m] = at[m] /\ at[m] \in Int
        /\ \A m \in (taken + 1)..(N + 2) : m \in (taken + 1)..(N + 1) \/ m = N + 2
        /\ taken + 1 \in (taken + 1)..(N + 1) /\ N + 1 \in (taken + 1)..(N + 1)
    BY <1>4, <2>2, <2>1a
  <2>4. StreamLen' = StreamLen + SizeOf(m0) /\ a[N + 2] = StreamLen'
    BY <1>2, <1>4, <1>6, <1>9, <2>2, <2>3 DEF StreamLen
  <2>5. ASSUME NEW p \in 1..StreamLen PROVE StreamAt(p)' = StreamAt(p)
    <3>1. p <= Len(buffer) \/ (~(p <= Len(buffer)) /\ p - Len(buffer) \in 1..Len(bytes))
      BY <1>4 DEF StreamLen
    <3> QED BY <1>2, <1>9, <3>1 DEF StreamAt
  <2>6. ASSUME NEW p \in Int, NEW j \in 1..SizeOf(m0), p = StreamLen + j
        PROVE  StreamAt(p)' = UnitOf(m0, j)
    <3>1. p = Len(buffer) + Len(bytes) + j
      BY <2>6 DEF StreamLen
    <3>2. ~(p <= Len(buffer)) /\ p - Len(buffer) = Len(bytes) + j
      BY <1>4, <1>6, <3>1
    <3>3. bytes'[p - Len(buffer)] = UnitOf(m0, j)
      BY <1>9, <3>2
    <3> QED BY <1>2, <3>2, <3>3 DEF StreamAt
  <2>7. ASSUME NEW m \in (taken + 1)..N
        PROVE  /\ a[m + 1] = a[m] + SizeOf(sent'[m])
               /\ \A j \in 1..SizeOf(sent'[m]) :
                    a[m] + j \in 1..StreamLen' => StreamAt(a[m] + j)' = UnitOf(sent'[m], j)
    <3>1. /\ m \in (taken + 1)..(N + 1) /\ m + 1 \in (taken + 1)..(N + 1) /\ m \in 1..N
      BY <1>4
    <3>2. a[m] = at[m] /\ a[m + 1] = at[m + 1] /\ at[m] \in Int /\ sent'[m] = sent[m]
          /\ SizeOf(sent[m]) \in Nat
      BY <1>3, <1>8, <2>3, <3>1, WireNumbers
    <3>3. at[m + 1] = at[m] + SizeOf(sent[m])
          /\ \A j \in 1..SizeOf(sent[m]) :
               at[m] + j \in 1..StreamLen => StreamAt(at[m] + j) = UnitOf(sent[m], j)
      BY <2>1 DEF Parted
    <3>4. at[m + 1] <= StreamLen
      <4>1. at[m + 1] <= at[N + 1]
        BY <1>3, <2>1, <3>1, PartsGrow
      <4> QED BY <2>2, <4>1
    <3>5. ASSUME NEW j \in 1..SizeOf(sent[m]), a[m] + j \in 1..StreamLen'
          PROVE  StreamAt(a[m] + j)' = UnitOf(sent[m], j)
      <4>1. at[m] + j \in 1..StreamLen
        <5>1. at[m] + j >= 1 /\ j <= SizeOf(sent[m]) /\ j \in Nat
          BY <1>4, <1>6, <2>4, <3>2, <3>5
        <5> QED BY <1>4, <3>2, <3>3, <3>4, <5>1, SMTT(20)
      <4>2. a[m] + j = at[m] + j /\ a[m] + j \in 1..StreamLen
        BY <3>2, <4>1
      <4>3. StreamAt(a[m] + j)' = StreamAt(a[m] + j)
        BY <2>5, <4>2
      <4> QED BY <3>3, <4>1, <4>2, <4>3
    <3> QED BY <3>2, <3>3, <3>5
  <2>8. ASSUME NEW m \in Int, m = N + 1
        PROVE  /\ a[m + 1] = a[m] + SizeOf(m0)
               /\ \A j \in 1..SizeOf(m0) :
                    a[m] + j \in 1..StreamLen' => StreamAt(a[m] + j)' = UnitOf(m0, j)
    <3>1. a[m] = StreamLen /\ m + 1 = N + 2
      BY <1>4, <2>2, <2>3, <2>8
    <3>2. ASSUME NEW j \in 1..SizeOf(m0) PROVE StreamAt(a[m] + j)' = UnitOf(m0, j)
      <4>1. a[m] + j \in Int /\ a[m] + j = StreamLen + j
        BY <1>4, <1>6, <3>1
      <4> QED BY <2>6, <4>1
    <3> QED BY <2>2, <2>3, <3>1, <3>2
  <2>9. \A m \in (taken + 1)..(N + 2) : a[m] \in Int
    <3>1. a[N + 2] \in Int
      BY <1>4, <1>6, <2>2, <2>3
    <3> QED BY <2>3, <3>1
  <2>10. ASSUME NEW m \in (taken' + 1)..Len(sent')
         PROVE  /\ a[m + 1] = a[m] + SizeOf(sent'[m])
                /\ \A j \in 1..SizeOf(sent'[m]) :
                     a[m] + j \in 1..StreamLen' => StreamAt(a[m] + j)' = UnitOf(sent'[m], j)
    <3>1. m \in (taken + 1)..N \/ m = N + 1
      BY <1>2, <1>4, <1>8
    <3>2. CASE m \in (taken + 1)..N
      BY <2>7, <3>2
    <3>3. CASE m = N + 1
      <4>1. sent'[m] = m0
        BY <1>8, <3>3
      <4> QED BY <2>8, <3>3, <4>1
    <3> QED BY <3>1, <3>2, <3>3
  <2>11. /\ a[taken' + 1] = 0 - Consumed'
         /\ \A m \in (taken' + 1)..(Len(sent') + 1) : a[m] \in Int
    BY <1>2, <1>4, <1>8, <1>11, <2>2, <2>3, <2>9
  <2>12. StreamLen' <= a[Len(sent') + 1] /\ StreamLen' = a[Len(sent') + 1]
    <3>1. Len(sent') + 1 = N + 2 /\ StreamLen' \in Nat
      BY <1>4, <1>6, <1>8, <2>4
    <3> QED BY <2>4, <3>1
  <2>13. Parted(a)'
    BY <2>10, <2>11, <2>12 DEF Parted, SizeOf, UnitOf
  <2> QED BY <2>13
<1> QED BY <1>10, <1>11, <1>12 DEF WireInv

(* The same messages, perhaps with the end of the stream missing. *)
LEMMA Shortened ==
  ASSUME FormatAssumed, WireTypes, NEW at, Parted(at), UNCHANGED <<sent, taken>>, Consumed' = Consumed,
         StreamLen' \in Nat, StreamLen' <= StreamLen,
         \A p \in 1..StreamLen' : StreamAt(p)' = StreamAt(p),
         socket' = "up" => socket = "up" /\ StreamLen' = StreamLen
  PROVE  Parted(at)'
<1>1. /\ at[taken + 1] = 0 - Consumed
      /\ \A m \in (taken + 1)..(Len(sent) + 1) : at[m] \in Int
      /\ StreamLen <= at[Len(sent) + 1]
      /\ socket = "up" => StreamLen = at[Len(sent) + 1]
  BY DEF Parted
<1>2. ASSUME NEW m \in (taken + 1)..Len(sent)
      PROVE  /\ at[m + 1] = at[m] + SizeOf(sent[m])
             /\ \A j \in 1..SizeOf(sent[m]) :
                  at[m] + j \in 1..StreamLen' => StreamAt(at[m] + j)' = UnitOf(sent[m], j)
  <2>1. /\ at[m + 1] = at[m] + SizeOf(sent[m])
        /\ \A j \in 1..SizeOf(sent[m]) :
             at[m] + j \in 1..StreamLen => StreamAt(at[m] + j) = UnitOf(sent[m], j)
    BY DEF Parted
  <2>2. StreamLen \in Nat
    BY WireNumbers
  <2>3. ASSUME NEW j \in 1..SizeOf(sent[m]), at[m] + j \in 1..StreamLen'
        PROVE  StreamAt(at[m] + j)' = UnitOf(sent[m], j)
    <3>1. at[m] + j \in 1..StreamLen
      BY <2>2, <2>3
    <3> QED BY <2>1, <2>3, <3>1
  <2> QED BY <2>1, <2>3
<1>3. StreamLen' <= at[Len(sent) + 1] /\ (socket' = "up" => StreamLen' = at[Len(sent) + 1])
  <2>1. at[Len(sent) + 1] \in Int /\ StreamLen \in Nat
    BY <1>1, WireNumbers
  <2> QED BY <1>1, <2>1
<1>4. sent' = sent /\ taken' = taken
  OBVIOUS
<1> QED BY <1>1, <1>2, <1>3, <1>4 DEF Parted, SizeOf, UnitOf

LEMMA WireArrive == ASSUME FormatAssumed, WireInv, Format!Arrive PROVE WireInv'
<1>1. /\ bytes # <<>> /\ buffer' = Append(buffer, Head(bytes)) /\ bytes' = Tail(bytes)
      /\ UNCHANGED <<sender, receiver, sent, socket, phase, length, received, taken>>
  BY DEF Format!Arrive
<1>2. WireTypes /\ FrameNext /\ StreamFacts
  BY DEF WireInv
<1>3. /\ Len(buffer) \in Nat /\ Len(bytes) \in Nat /\ StreamLen \in Nat
  BY <1>2, WireNumbers
<1>4. /\ Head(bytes) \in Units /\ Head(bytes) = bytes[1] /\ Len(bytes) >= 1
      /\ bytes' \in Seq(Units) /\ Len(bytes') = Len(bytes) - 1
      /\ \A j \in 1..(Len(bytes) - 1) : bytes'[j] = bytes[j + 1]
  <2>1. bytes \in Seq(Units)
    BY <1>2 DEF WireTypes
  <2>2. Len(bytes) >= 1
    BY <1>1, <1>3, <2>1, EmptySeq
  <2> QED BY <1>1, <1>3, <2>1, <2>2, HeadTailProperties, ElementOfSeq
<1>5. /\ buffer' \in Seq(Units) /\ Len(buffer') = Len(buffer) + 1
      /\ buffer'[Len(buffer) + 1] = bytes[1]
      /\ \A j \in 1..Len(buffer) : buffer'[j] = buffer[j]
  BY <1>1, <1>2, <1>4, AppendProperties DEF WireTypes
<1>6. WireTypes'
  BY <1>1, <1>2, <1>4, <1>5 DEF WireTypes, Units, UnitOf, Format!Messages, Format!Languages
<1>7. /\ FrameNext' /\ Format!StopsForAReason'
      /\ phase \in {"length", "body", "discard"} => Consumed' = Consumed
  <2>1. Len(buffer) <= Len(buffer') /\ Len(buffer') \in Nat
    BY <1>3, <1>5
  <2>2. UNCHANGED <<receiver, phase, length, taken>> /\ socket' = socket /\ sent' = sent
    BY <1>1
  <2> QED BY <1>3, <2>1, <2>2, FrameKept
<1>8. StreamLen' = StreamLen
  BY <1>3, <1>4, <1>5 DEF StreamLen
<1>9. ASSUME NEW p \in 1..StreamLen' PROVE StreamAt(p)' = StreamAt(p)
  <2>1. p \in Nat /\ p >= 1 /\ p <= Len(buffer) + Len(bytes)
    BY <1>3, <1>8 DEF StreamLen
  <2>2. CASE p <= Len(buffer)
    <3>1. p <= Len(buffer') /\ p \in 1..Len(buffer)
      BY <1>3, <1>5, <2>1, <2>2
    <3> QED BY <1>5, <2>2, <3>1 DEF StreamAt
  <2>3. CASE p = Len(buffer) + 1
    <3>1. p <= Len(buffer') /\ ~(p <= Len(buffer)) /\ p - Len(buffer) = 1
      BY <1>3, <1>5, <2>3
    <3> QED BY <1>5, <2>3, <3>1 DEF StreamAt
  <2>4. CASE p > Len(buffer) + 1
    <3>1. /\ ~(p <= Len(buffer')) /\ ~(p <= Len(buffer))
          /\ p - Len(buffer') \in 1..(Len(bytes) - 1) /\ (p - Len(buffer')) + 1 = p - Len(buffer)
      BY <1>3, <1>5, <2>1, <2>4
    <3> QED BY <1>4, <3>1 DEF StreamAt
  <2> QED BY <1>3, <2>1, <2>2, <2>3, <2>4
<1>10. StreamFacts'
  <2> SUFFICES ASSUME phase \in {"length", "body", "discard"} PROVE \E a : Parted(a)'
    BY <1>1 DEF StreamFacts
  <2>1. PICK at : Parted(at)
    BY <1>2 DEF StreamFacts
  <2>2. Parted(at)'
    BY <1>1, <1>2, <1>3, <1>7, <1>8, <1>9, <2>1, Shortened
  <2> QED BY <2>2
<1> QED BY <1>6, <1>7, <1>10 DEF WireInv

LEMMA WireBreak == ASSUME FormatAssumed, WireInv, Format!Break PROVE WireInv'
<1>1. /\ socket' = "down" /\ bytes' = <<>>
      /\ UNCHANGED <<sender, receiver, sent, buffer, phase, length, received, taken>>
  BY DEF Format!Break
<1>2. WireTypes /\ FrameNext /\ StreamFacts
  BY DEF WireInv
<1>3. /\ Len(buffer) \in Nat /\ Len(bytes) \in Nat /\ StreamLen \in Nat
  BY <1>2, WireNumbers
<1>4. WireTypes'
  BY <1>1, <1>2 DEF WireTypes, Units, UnitOf, Format!Messages, Format!Languages
<1>5. /\ FrameNext' /\ Format!StopsForAReason'
      /\ phase \in {"length", "body", "discard"} => Consumed' = Consumed
  <2>1. Len(buffer) <= Len(buffer') /\ Len(buffer') \in Nat
    BY <1>1, <1>3
  <2>2. UNCHANGED <<receiver, phase, length, taken>> /\ sent' = sent
    BY <1>1
  <2> QED BY <1>1, <1>3, <2>1, <2>2, FrameKept
<1>6. StreamLen' = Len(buffer) /\ StreamLen' <= StreamLen
  BY <1>1, <1>3 DEF StreamLen
<1>7. ASSUME NEW p \in 1..StreamLen' PROVE StreamAt(p)' = StreamAt(p)
  <2>1. p <= Len(buffer)
    BY <1>3, <1>6
  <2> QED BY <1>1, <2>1 DEF StreamAt
<1>8. StreamFacts'
  <2> SUFFICES ASSUME phase \in {"length", "body", "discard"} PROVE \E a : Parted(a)'
    BY <1>1 DEF StreamFacts
  <2>1. PICK at : Parted(at)
    BY <1>2 DEF StreamFacts
  <2>2. Parted(at)'
    BY <1>1, <1>2, <1>3, <1>5, <1>6, <1>7, <2>1, Shortened
  <2> QED BY <2>2
<1> QED BY <1>4, <1>5, <1>8 DEF WireInv

-----------------------------------------------------------------------------
(* The steps of the receiver. *)

(* Where it stops, nothing more is said than why. *)
LEMMA WireStops ==
  ASSUME FormatAssumed, WireInv, UNCHANGED <<sender, receiver, sent, bytes, socket, taken>>,
         buffer' \in Seq(Units), length' \in Nat, phase' \in {"refused", "assert", "end"},
         Format!StopsForAReason'
  PROVE  WireInv'
<1>1. WireTypes'
  BY DEF WireInv, WireTypes, Units, UnitOf, Format!Messages, Format!Languages
<1>2. FrameNext' /\ StreamFacts'
  BY DEF FrameNext, StreamFacts
<1> QED BY <1>1, <1>2 DEF WireInv

(* The length is that of the next message. *)
LEMMA LengthRead ==
  ASSUME FormatAssumed, WireInv, phase = "length", Len(buffer) >= 2
  PROVE  /\ taken < Len(sent) /\ buffer[1].size = sent[taken + 1].size + 2
         /\ sent[taken + 1] \in Format!Messages /\ sent[taken + 1].size \in Nat \ {0}
<1>1. PICK at : Parted(at)
  BY DEF WireInv, StreamFacts
<1>2. WireTypes /\ Len(buffer) \in Nat /\ buffer # <<>>
  BY DEF WireInv, WireTypes
<1>3. taken < Len(sent)
  BY <1>1, <1>2, SomethingNext
<1>4. /\ taken \in Nat /\ Len(sent) \in Nat /\ sent[taken + 1] \in Format!Messages
      /\ sent[taken + 1].size \in Nat \ {0} /\ SizeOf(sent[taken + 1]) = sent[taken + 1].size + 4
  <2>1. taken \in Nat /\ Len(sent) \in Nat
    BY <1>2, WireNumbers
  <2>2. taken + 1 \in (taken + 1)..Len(sent)
    BY <1>3, <2>1
  <2> QED BY <1>2, <2>1, <2>2, WireNumbers
<1>5. Consumed = 0 /\ at[taken + 1] = 0 - Consumed
  BY <1>1 DEF Consumed, Parted
<1>6. \A j \in 1..Len(buffer) :
        j + 0 <= SizeOf(sent[taken + 1]) => buffer[j] = UnitOf(sent[taken + 1], j + 0)
  <2>1. Consumed = 0 - at[taken + 1] /\ 0 \in Nat
    BY <1>5
  <2> QED BY <1>1, <1>2, <1>3, <1>5, <2>1, FirstUnits
<1>7. 1 \in 1..Len(buffer) /\ 1 + 0 = 1 /\ 1 <= SizeOf(sent[taken + 1])
  BY <1>2, <1>4
<1>8. buffer[1] = UnitOf(sent[taken + 1], 1)
  BY <1>6, <1>7
<1>9. buffer[1] = Format!Unit("length", 0, sent[taken + 1].size + 2, <<>>)
  BY <1>4, <1>8, UnitsOfMessage
<1>10. buffer[1].size = sent[taken + 1].size + 2
  BY <1>9 DEF Format!Unit
<1> QED BY <1>3, <1>4, <1>10

(* The receiver goes on to the body. *)
LEMMA WireToBody ==
  ASSUME FormatAssumed, WireInv, phase = "length", Len(buffer) >= 2, Format!Skip(2),
         phase' = "body", length' = buffer[1].size, receiver = "java" => length' <= Len(buffer) - 2,
         UNCHANGED <<sender, receiver, sent, bytes, socket, received, taken>>
  PROVE  WireInv'
<1>1. /\ taken < Len(sent) /\ buffer[1].size = sent[taken + 1].size + 2
      /\ sent[taken + 1].size \in Nat \ {0}
  BY LengthRead
<1>2. WireTypes /\ FrameNext /\ StreamFacts
  BY DEF WireInv
<1>3. PICK at : Parted(at)
  BY <1>2 DEF StreamFacts
<1>4. Consumed = 0 /\ Consumed' = 2 /\ at[taken + 1] = 0 - Consumed
  BY <1>3 DEF Consumed, Parted
<1>5. /\ taken' \in Nat /\ taken <= taken' /\ taken' <= Len(sent) /\ 2 \in Nat /\ 2 <= Len(buffer)
      /\ at[taken' + 1] - 2 = 0 - Consumed'
  <2>1. taken' = taken /\ taken \in Nat /\ Len(sent) \in Nat /\ taken <= Len(sent) /\ Len(buffer) \in Nat
    BY <1>2, WireNumbers
  <2> QED BY <1>4, <2>1
<1>6. buffer' \in Seq(Units) /\ Len(buffer') = Len(buffer) - 2 /\ \E a : Parted(a)'
  BY <1>2, <1>3, <1>5, Skipped
<1>7. WireTypes'
  <2>1. length' \in Nat
    BY <1>1
  <2> QED BY <1>2, <1>6, <2>1 DEF WireTypes, Units, UnitOf, Format!Messages, Format!Languages
<1>8. FrameNext'
  BY <1>1, <1>6 DEF FrameNext
<1>9. StreamFacts' /\ Format!StopsForAReason'
  BY <1>6, ReadingOn DEF StreamFacts
<1> QED BY <1>7, <1>8, <1>9 DEF WireInv

LEMMA WireReadLength == ASSUME FormatAssumed, WireInv, Format!ReadLength PROVE WireInv'
<1>1. /\ receiver # "java" /\ phase = "length"
      /\ UNCHANGED <<sender, receiver, sent, bytes, socket, received, taken>>
  BY DEF Format!ReadLength
<1>2. WireTypes /\ FrameNext /\ StreamFacts /\ receiver \in Format!Languages
  BY DEF WireInv, WireTypes
<1>3. /\ Len(buffer) \in Nat /\ Len(bytes) \in Nat /\ taken \in Nat /\ Len(sent) \in Nat
      /\ taken <= Len(sent)
  BY <1>2, WireNumbers
<1>4. CASE /\ Len(buffer) >= 2 /\ length' = buffer[1].size
           /\ phase' = IF Format!LengthAccepted(length') THEN "body" ELSE "refused"
           /\ Format!Skip(2)
  <2>1. /\ taken < Len(sent) /\ buffer[1].size = sent[taken + 1].size + 2
        /\ sent[taken + 1].size \in Nat \ {0}
    BY <1>1, <1>4, LengthRead
  <2>2. CASE Format!LengthAccepted(length')
    <3>1. phase' = "body"
      BY <1>4, <2>2
    <3> QED BY <1>1, <1>4, <3>1, WireToBody
  <2>3. CASE ~Format!LengthAccepted(length')
    <3>1. phase' = "refused"
      BY <1>4, <2>3
    <3>2. receiver = "go" /\ sent[taken + 1].size + 2 > GoMax
      <4>1. length' > Format!MinLength /\ length' >= Format!MinLength /\ length' \in Nat
        BY <1>4, <2>1 DEF Format!MinLength
      <4>2. receiver = "go"
        BY <1>1, <1>2, <2>3, <4>1 DEF Format!LengthAccepted, Format!Languages
      <4>3. ~(length' <= GoMax)
        BY <2>3, <4>1, <4>2 DEF Format!LengthAccepted
      <4> QED BY <1>4, <2>1, <4>1, <4>2, <4>3 DEF FormatAssumed
    <3>3. sent[taken + 1].size > Format!Limit
      <4>1. Format!Limit = GoMax - 2 /\ GoMax \in Nat
        BY <1>2, <3>2, LimitFacts DEF FormatAssumed
      <4> QED BY <2>1, <3>2, <4>1
    <3>4. Format!Limit' = Format!Limit
      BY <1>1 DEF Format!Limit
    <3>5. Format!StopsForAReason'
      BY <1>1, <2>1, <3>1, <3>3, <3>4 DEF Format!StopsForAReason
    <3>6. buffer' \in Seq(Units)
      <4>1. buffer' = SubSeq(buffer, 3, Len(buffer)) /\ buffer \in Seq(Units)
        BY <1>2, <1>4 DEF Format!Skip, WireTypes
      <4> QED BY <1>3, <1>4, <4>1
    <3>7. length' \in Nat
      BY <1>4, <2>1
    <3> QED BY <1>1, <3>1, <3>5, <3>6, <3>7, WireStops
  <2> QED BY <2>2, <2>3
<1>5. CASE /\ Format!AtEnd(2)
           /\ phase' = IF receiver = "python" /\ buffer # <<>> THEN "assert" ELSE "end"
           /\ UNCHANGED <<length, buffer>>
  <2>1. socket = "down" /\ phase' \in {"assert", "end"}
    BY <1>5 DEF Format!AtEnd
  <2>2. phase' = "assert" => taken < Len(sent)
    <3>1. phase' = "assert" => buffer # <<>>
      BY <1>5
    <3>2. PICK at : Parted(at)
      BY <1>1, <1>2 DEF StreamFacts
    <3> QED BY <1>1, <1>2, <3>1, <3>2, SomethingNext
  <2>3. Format!StopsForAReason'
    BY <1>1, <2>1, <2>2 DEF Format!StopsForAReason
  <2>4. buffer' \in Seq(Units) /\ length' \in Nat
    BY <1>2, <1>5 DEF WireTypes
  <2> QED BY <1>1, <2>1, <2>3, <2>4, WireStops
<1>6. (\/ /\ Len(buffer) >= 2
          /\ length' = buffer[1].size
          /\ phase' = IF Format!LengthAccepted(length') THEN "body" ELSE "refused"
          /\ Format!Skip(2)
       \/ /\ Format!AtEnd(2)
          /\ phase' = IF receiver = "python" /\ buffer # <<>> THEN "assert" ELSE "end"
          /\ UNCHANGED <<length, buffer>>)
  BY DEF Format!ReadLength, Format!LengthField
<1> QED BY <1>4, <1>5, <1>6

(* A frame that is whole decodes, as the message that was sent. *)
LEMMA FrameDecodes ==
  ASSUME FormatAssumed, WireInv, phase = "body", Len(buffer) >= length
  PROVE  /\ Format!Decodes(SubSeq(buffer, 1, length))
         /\ SubSeq(buffer, 1, length)[2].msg = sent[taken + 1]
         /\ length > 2
<1> DEFINE m == sent[taken + 1]
           z == m.size
           frame == SubSeq(buffer, 1, length)
           body == Format!Tag \o Format!Payload(m)
<1>1. WireTypes /\ FrameNext /\ StreamFacts
  BY DEF WireInv
<1>2. /\ taken \in Nat /\ Len(sent) \in Nat /\ Len(buffer) \in Nat
  BY <1>1, WireNumbers
<1>3. taken < Len(sent) /\ length = z + 2
  BY <1>1 DEF FrameNext
<1>4. m \in Format!Messages /\ z \in Nat \ {0} /\ SizeOf(m) = z + 4
  <2>1. taken + 1 \in (taken + 1)..Len(sent)
    BY <1>2, <1>3
  <2> QED BY <1>1, <1>2, <2>1, WireNumbers
<1>5. \A j \in 1..Len(buffer) : j + 2 <= SizeOf(m) => buffer[j] = UnitOf(m, j + 2)
  <2>1. PICK at : Parted(at)
    BY <1>1 DEF StreamFacts
  <2>2. Consumed = 2 /\ at[taken + 1] = 0 - Consumed
    BY <2>1 DEF Consumed, Parted
  <2>3. Consumed = 0 - at[taken + 1] /\ 2 \in Nat
    BY <2>2
  <2> QED BY <1>1, <1>3, <2>1, <2>2, <2>3, FirstUnits
<1>6. buffer \in Seq(Units)
  BY <1>1 DEF WireTypes
<1> HIDE DEF m, z
<1>7. Len(frame) = z + 2 /\ \A j \in 1..(z + 2) : frame[j] = UnitOf(m, j + 2)
  <2>1. \A j \in 1..(z + 2) : j \in 1..Len(buffer) /\ j + 2 <= SizeOf(m)
    BY <1>2, <1>3, <1>4
  <2>2. 1 \in 1..(Len(buffer) + 1) /\ length \in 0..Len(buffer)
    BY <1>2, <1>3, <1>4
  <2>3. Len(frame) = z + 2 /\ \A j \in 1..(z + 2) : frame[j] = buffer[j]
    BY <1>2, <1>3, <1>4, <1>6, <2>2
  <2> QED BY <1>5, <2>1, <2>3
<1>8. /\ UnitOf(m, 3) = Format!Unit("tag", 0, 0, <<>>)
      /\ UnitOf(m, 4) = Format!Unit("payload", m, 0, <<>>)
      /\ UnitOf(m, z + 4) = Format!Unit("checksum", 0, 0, body)
      /\ \A j \in Nat : UnitOf(m, j) \in Units
  <2>1. 1 \in 1..z /\ 1 + 3 = 4
    BY <1>4
  <2> QED BY <1>4, <2>1, UnitsOfMessage DEF z
<1>9. frame[1].part = "tag"
  <2>1. 1 \in 1..(z + 2) /\ 1 + 2 = 3
    BY <1>4
  <2>2. frame[1] = Format!Unit("tag", 0, 0, <<>>)
    BY <1>7, <1>8, <2>1
  <2> HIDE DEF frame
  <2> QED BY <2>2 DEF Format!Unit
<1>10. frame[2].part = "payload" /\ frame[2].msg = m
  <2>1. 2 \in 1..(z + 2) /\ 2 + 2 = 4
    BY <1>4
  <2>2. frame[2] = Format!Unit("payload", m, 0, <<>>)
    BY <1>7, <1>8, <2>1
  <2> HIDE DEF frame
  <2> QED BY <2>2 DEF Format!Unit
<1>11. Format!Last(frame).covers = body
  <2>1. z + 2 \in 1..(z + 2) /\ (z + 2) + 2 = z + 4
    BY <1>4
  <2>2. frame[z + 2] = Format!Unit("checksum", 0, 0, body)
    BY <1>7, <1>8, <2>1
  <2>3. Format!Last(frame) = frame[z + 2]
    BY <1>7 DEF Format!Last
  <2> HIDE DEF frame, body
  <2> QED BY <2>2, <2>3 DEF Format!Unit
<1>12. Format!Front(frame) = body
  <2>1. /\ body \in Seq(Units) /\ Len(body) = z + 1
        /\ \A j \in 1..(z + 1) : body[j] = UnitOf(m, j + 2)
    BY <1>4, BodyFacts DEF z
  <2>2. frame \in Seq(Units)
    BY <1>2, <1>3, <1>4, <1>6
  <2> HIDE DEF frame, body
  <2>3. Format!Front(frame) = SubSeq(frame, 1, z + 1)
    <3>1. Len(frame) - 1 = z + 1
      BY <1>4, <1>7
    <3> QED BY <3>1 DEF Format!Front
  <2>4. /\ SubSeq(frame, 1, z + 1) \in Seq(Units) /\ Len(SubSeq(frame, 1, z + 1)) = z + 1
        /\ \A j \in 1..(z + 1) : SubSeq(frame, 1, z + 1)[j] = frame[j]
    BY <1>4, <1>7, <2>2
  <2>5. \A j \in 1..(z + 1) : j \in 1..(z + 2)
    BY <1>4
  <2>6. \A j \in 1..(z + 1) : SubSeq(frame, 1, z + 1)[j] = body[j]
    BY <1>7, <2>1, <2>4, <2>5
  <2> QED BY <2>1, <2>3, <2>4, <2>6, SeqEqual
<1>13. Format!Decodes(frame)
  BY <1>9, <1>10, <1>11, <1>12 DEF Format!Decodes, Format!TagRight, Format!ChecksumRight
<1>14. length > 2
  BY <1>3, <1>4
<1> QED BY <1>10, <1>13, <1>14 DEF m

(* The receiver takes the body. *)
LEMMA WireDelivers ==
  ASSUME FormatAssumed, WireInv, phase = "body", Len(buffer) >= length, Format!Skip(length),
         phase' = "length", taken' = taken + 1,
         UNCHANGED <<sender, receiver, sent, bytes, socket, length>>
  PROVE  WireInv'
<1>1. WireTypes /\ FrameNext /\ StreamFacts
  BY DEF WireInv
<1>2. /\ taken \in Nat /\ Len(sent) \in Nat /\ Len(buffer) \in Nat
  BY <1>1, WireNumbers
<1>3. taken < Len(sent) /\ length = sent[taken + 1].size + 2
  BY <1>1 DEF FrameNext
<1>4. /\ sent[taken + 1].size \in Nat /\ SizeOf(sent[taken + 1]) = sent[taken + 1].size + 4
      /\ taken + 1 \in (taken + 1)..Len(sent)
  <2>1. taken + 1 \in (taken + 1)..Len(sent)
    BY <1>2, <1>3
  <2> QED BY <1>1, <1>2, <2>1, WireNumbers
<1>5. PICK at : Parted(at)
  BY <1>1 DEF StreamFacts
<1>6. /\ at[taken + 1] = 0 - 2 /\ Consumed' = 0
      /\ at[(taken + 1) + 1] = at[taken + 1] + SizeOf(sent[taken + 1])
  BY <1>4, <1>5 DEF Consumed, Parted
<1>7. /\ taken' \in Nat /\ taken <= taken' /\ taken' <= Len(sent)
      /\ length \in Nat /\ length <= Len(buffer)
      /\ at[taken' + 1] - length = 0 - Consumed'
  BY <1>2, <1>3, <1>4, <1>6
<1>8. buffer' \in Seq(Units) /\ \E a : Parted(a)'
  <2>1. UNCHANGED <<sent, bytes, socket>>
    OBVIOUS
  <2> QED BY <1>1, <1>5, <1>7, <2>1, Skipped
<1>9. WireTypes'
  <2>1. taken' \in 0..Len(sent')
    BY <1>2, <1>7
  <2> QED BY <1>1, <1>8, <2>1 DEF WireTypes, Units, UnitOf, Format!Messages, Format!Languages
<1>10. FrameNext'
  BY DEF FrameNext
<1>11. StreamFacts' /\ Format!StopsForAReason'
  BY <1>8, ReadingOn DEF StreamFacts
<1> QED BY <1>9, <1>10, <1>11 DEF WireInv

LEMMA WireReadBody == ASSUME FormatAssumed, WireInv, Format!ReadBody PROVE WireInv'
<1>1. /\ receiver # "java" /\ phase = "body"
      /\ UNCHANGED <<sender, receiver, sent, bytes, socket, length>>
  BY DEF Format!ReadBody
<1>2. CASE Len(buffer) >= length
  <2>1. /\ Format!Skip(length) /\ phase' = "length" /\ taken' = taken + 1
    <3>1. ~Format!AtEnd(length)
      <4>1. Len(buffer) \in Nat /\ length \in Nat
        BY DEF WireInv, WireTypes
      <4> QED BY <1>2, <4>1 DEF Format!AtEnd
    <3>2. Format!Decodes(SubSeq(buffer, 1, length))
      BY <1>1, <1>2, FrameDecodes
    <3> QED BY <3>1, <3>2 DEF Format!ReadBody, Format!Deliver
  <2> QED BY <1>1, <1>2, <2>1, WireDelivers
<1>3. CASE ~(Len(buffer) >= length)
  <2>1. /\ Format!AtEnd(length) /\ phase' = IF receiver = "python" THEN "assert" ELSE "end"
        /\ UNCHANGED <<buffer, received, taken>>
    BY <1>3 DEF Format!ReadBody
  <2>2. socket = "down" /\ phase' \in {"assert", "end"}
    BY <2>1 DEF Format!AtEnd
  <2>3. taken < Len(sent)
    BY <1>1 DEF WireInv, FrameNext
  <2>4. Format!StopsForAReason'
    BY <1>1, <2>1, <2>2, <2>3 DEF Format!StopsForAReason
  <2>5. buffer' \in Seq(Units) /\ length' \in Nat
    BY <1>1, <2>1 DEF WireInv, WireTypes
  <2> QED BY <1>1, <2>1, <2>2, <2>4, <2>5, WireStops
<1> QED BY <1>2, <1>3

LEMMA WireRpcDecoder == ASSUME FormatAssumed, WireInv, Format!RpcDecoder PROVE WireInv'
<1>1. /\ receiver = "java" /\ phase = "body" /\ Format!Skip(length)
      /\ UNCHANGED <<sender, receiver, sent, bytes, socket, length>>
  BY DEF Format!RpcDecoder
<1>2. Len(buffer) >= length
  <2>1. Len(buffer) \in Nat /\ length \in Nat /\ length <= Len(buffer)
    BY <1>1 DEF WireInv, WireTypes, FrameNext
  <2> QED BY <2>1
<1>3. Format!Decodes(SubSeq(buffer, 1, length)) /\ length > 2
  BY <1>1, <1>2, FrameDecodes
<1>4. phase' = "length" /\ taken' = taken + 1
  BY <1>3 DEF Format!RpcDecoder, Format!Deliver, Format!MinLength
<1> QED BY <1>1, <1>2, <1>4, WireDelivers

LEMMA WireFrameDecoder == ASSUME FormatAssumed, WireInv, Format!FrameDecoder PROVE WireInv'
<1>1. /\ receiver = "java" /\ phase = "length" /\ Len(buffer) >= 2
      /\ UNCHANGED <<sender, receiver, sent, bytes, socket, received, taken>>
  BY DEF Format!FrameDecoder, Format!LengthField
<1>2. WireTypes /\ FrameNext /\ StreamFacts /\ receiver \in Format!Languages
  BY DEF WireInv, WireTypes
<1>3. /\ taken < Len(sent) /\ buffer[1].size = sent[taken + 1].size + 2
      /\ sent[taken + 1].size \in Nat \ {0}
  BY <1>1, LengthRead
<1>4. Len(buffer) \in Nat /\ StreamLen \in Nat
  BY <1>2, WireNumbers
<1> DEFINE z == sent[taken + 1].size
           n == buffer[1].size
<1>5. CASE Format!FrameTooLong(n) /\ phase' = "discard" /\ length' = n + 2 /\ UNCHANGED buffer
  <2>1. length' = SizeOf(sent[taken + 1]) /\ length' \in 1..SizeOf(sent[taken + 1]) /\ length' \in Nat
    BY <1>3, <1>5 DEF SizeOf
  <2>2. z > Format!Limit
    <3>1. Format!Limit = JavaMax - 4 /\ JavaMax \in Nat
      BY <1>1, <1>2, LimitFacts DEF FormatAssumed
    <3>2. n + 2 > JavaMax
      BY <1>5 DEF Format!FrameTooLong, Format!LengthField
    <3> QED BY <1>3, <3>1, <3>2
  <2>3. Format!Limit' = Format!Limit
    BY <1>1 DEF Format!Limit
  <2>4. WireTypes'
    BY <1>1, <1>2, <1>5, <2>1 DEF WireTypes, Units, UnitOf, Format!Messages, Format!Languages
  <2>5. FrameNext'
    <3>1. sent' = sent /\ taken' = taken
      BY <1>1
    <3> QED BY <1>3, <1>5, <2>1, <2>2, <2>3, <3>1 DEF FrameNext, SizeOf
  <2>6. StreamFacts'
    <3>1. PICK at : Parted(at)
      BY <1>1, <1>2 DEF StreamFacts
    <3>2. Consumed' = Consumed
      <4>1. Consumed' = SizeOf(sent[taken + 1]) - length'
        BY <1>1, <1>5 DEF Consumed, SizeOf
      <4>2. Consumed' = 0
        BY <2>1, <4>1
      <4> QED BY <1>1, <4>2 DEF Consumed
    <3>3. StreamLen' = StreamLen /\ \A p \in 1..StreamLen' : StreamAt(p)' = StreamAt(p)
      BY <1>1, <1>5 DEF StreamLen, StreamAt
    <3>4. Parted(at)'
      BY <1>1, <1>2, <1>4, <3>1, <3>2, <3>3, Shortened
    <3> QED BY <3>4 DEF StreamFacts
  <2>7. Format!StopsForAReason'
    BY <1>5, ReadingOn
  <2> QED BY <2>4, <2>5, <2>6, <2>7 DEF WireInv
<1>6. CASE /\ ~Format!FrameTooLong(n) /\ Len(buffer) >= n + 2 /\ phase' = "body" /\ length' = n
           /\ Format!Skip(2)
  <2>1. length' <= Len(buffer) - 2
    BY <1>3, <1>4, <1>6
  <2> QED BY <1>1, <1>6, <2>1, WireToBody
<1>7. (\/ Format!FrameTooLong(n) /\ phase' = "discard" /\ length' = n + 2 /\ UNCHANGED buffer
       \/ ~Format!FrameTooLong(n) /\ Len(buffer) >= n + 2 /\ phase' = "body" /\ length' = n /\ Format!Skip(2))
  BY DEF Format!FrameDecoder, Format!LengthField
<1> QED BY <1>5, <1>6, <1>7

LEMMA WireDiscardFrame == ASSUME FormatAssumed, WireInv, Format!DiscardFrame PROVE WireInv'
<1>1. /\ phase = "discard" /\ buffer # <<>> /\ buffer' = Tail(buffer) /\ length' = length - 1
      /\ phase' = (IF length = 1 THEN "length" ELSE "discard")
      /\ taken' = (IF length = 1 THEN taken + 1 ELSE taken)
      /\ UNCHANGED <<sender, receiver, sent, bytes, socket, received>>
  BY DEF Format!DiscardFrame
<1>2. WireTypes /\ FrameNext /\ StreamFacts
  BY DEF WireInv
<1>3. /\ Len(buffer) \in Nat /\ Len(buffer) >= 1 /\ taken \in Nat /\ Len(sent) \in Nat
  <2>1. Len(buffer) \in Nat /\ taken \in Nat /\ Len(sent) \in Nat
    BY <1>2, WireNumbers
  <2>2. Len(buffer) # 0
    BY <1>1, <1>2 DEF WireTypes
  <2> QED BY <2>1, <2>2
<1>4. /\ taken < Len(sent) /\ length \in 1..SizeOf(sent[taken + 1])
      /\ sent[taken + 1].size > Format!Limit
  BY <1>1, <1>2 DEF FrameNext
<1>5. SizeOf(sent[taken + 1]) \in Nat /\ taken + 1 \in (taken + 1)..Len(sent)
  <2>1. taken + 1 \in (taken + 1)..Len(sent)
    BY <1>3, <1>4
  <2> QED BY <1>2, <2>1, WireNumbers
<1>6. Format!Skip(1)
  <2>1. buffer \in Seq(Units)
    BY <1>2 DEF WireTypes
  <2>2. Tail(buffer) = SubSeq(buffer, 2, Len(buffer))
    BY <1>3, <2>1
  <2> QED BY <1>1, <2>2 DEF Format!Skip
<1>7. PICK at : Parted(at)
  BY <1>1, <1>2 DEF StreamFacts
<1>8. /\ at[taken + 1] = 0 - (SizeOf(sent[taken + 1]) - length)
      /\ at[(taken + 1) + 1] = at[taken + 1] + SizeOf(sent[taken + 1])
  BY <1>1, <1>5, <1>7 DEF Consumed, Parted
<1>9. Consumed' = IF length = 1 THEN 0 ELSE SizeOf(sent[taken + 1]) - (length - 1)
  BY <1>1 DEF Consumed, SizeOf
<1>10. /\ taken' \in Nat /\ taken <= taken' /\ taken' <= Len(sent)
       /\ at[taken' + 1] - 1 = 0 - Consumed'
  <2>1. CASE length = 1
    <3>1. taken' = taken + 1 /\ Consumed' = 0
      BY <1>1, <1>9, <2>1
    <3>2. at[(taken + 1) + 1] = 1
      BY <1>4, <1>5, <1>8, <2>1
    <3> QED BY <1>3, <1>4, <3>1, <3>2
  <2>2. CASE length # 1
    <3>1. taken' = taken /\ Consumed' = SizeOf(sent[taken + 1]) - (length - 1)
      BY <1>1, <1>9, <2>2
    <3>2. at[taken + 1] - 1 = 0 - (SizeOf(sent[taken + 1]) - (length - 1))
      BY <1>4, <1>5, <1>8
    <3> QED BY <1>3, <1>4, <3>1, <3>2
  <2> QED BY <2>1, <2>2
<1>11. buffer' \in Seq(Units) /\ \E a : Parted(a)'
  <2>1. UNCHANGED <<sent, bytes, socket>> /\ 1 \in Nat /\ 1 <= Len(buffer)
    BY <1>1, <1>3
  <2> QED BY <1>2, <1>6, <1>7, <1>10, <2>1, Skipped
<1>12. WireTypes'
  <2>1. taken' \in 0..Len(sent') /\ length' \in Nat
    BY <1>1, <1>3, <1>4, <1>5, <1>10
  <2> QED BY <1>1, <1>2, <1>11, <2>1 DEF WireTypes, Units, UnitOf, Format!Messages, Format!Languages
<1>13. FrameNext'
  <2>1. Format!Limit' = Format!Limit
    BY <1>1 DEF Format!Limit
  <2>2. phase' = "discard" => /\ taken' = taken /\ sent' = sent
                              /\ length' \in 1..SizeOf(sent[taken + 1])
    BY <1>1, <1>4, <1>5
  <2>3. phase' # "body"
    BY <1>1
  <2> QED BY <1>4, <2>1, <2>2, <2>3 DEF FrameNext, SizeOf
<1>14. StreamFacts' /\ Format!StopsForAReason'
  BY <1>1, <1>11, ReadingOn DEF StreamFacts
<1> QED BY <1>12, <1>13, <1>14 DEF WireInv

LEMMA WireNext == FormatAssumed /\ WireInv /\ [Format!Next]_Format!vars => WireInv'
<1> SUFFICES ASSUME FormatAssumed, WireInv, [Format!Next]_Format!vars PROVE WireInv'
  OBVIOUS
<1>1. CASE Format!Next
  BY <1>1, WireSend, WireArrive, WireBreak, WireReadLength, WireReadBody, WireFrameDecoder,
     WireDiscardFrame, WireRpcDecoder DEF Format!Next, Format!Receiver
<1>2. CASE UNCHANGED Format!vars
  <2>1. UNCHANGED <<sender, receiver, sent, bytes, buffer, socket, phase, length, received, taken>>
    BY <1>2 DEF Format!vars
  <2>2. WireTypes'
    BY <2>1 DEF WireInv, WireTypes, Units, UnitOf, Format!Messages, Format!Languages
  <2>3. FrameNext' /\ Format!StopsForAReason'
    BY <2>1 DEF WireInv, FrameNext, SizeOf, Format!StopsForAReason, Format!Limit
  <2>4. StreamFacts'
    BY <2>1 DEF WireInv, StreamFacts, Parted, Consumed, StreamLen, StreamAt, SizeOf, UnitOf
  <2> QED BY <2>2, <2>3, <2>4 DEF WireInv
<1> QED BY <1>1, <1>2

LEMMA WireInvariance == FormatAssumed => (Format!Spec => []WireInv)
<1> SUFFICES ASSUME FormatAssumed PROVE Format!Spec => []WireInv
  OBVIOUS
<1>1. Format!Init => WireInv
  BY WireStart
<1>2. WireInv /\ [Format!Next]_Format!vars => WireInv'
  BY WireNext
<1> QED BY <1>1, <1>2, PTL DEF Format!Spec

(* A reader of the three languages (DecodeGeneral and Decode of codec.go,  *)
(* decode of rpc.py, the pipeline of Java) stops before the end of the     *)
(* connection only at a message over its limit, and the assertions of      *)
(* Python fail only when the connection ends within a message.             *)
THEOREM ReadersStopForAReason == FormatAssumed => (Format!Spec => []StopsForAReason)
<1> SUFFICES ASSUME FormatAssumed PROVE Format!Spec => []StopsForAReason
  OBVIOUS
<1>1. WireInv => StopsForAReason
  BY DEF WireInv, StopsForAReason
<1> QED BY <1>1, WireInvariance, PTL

-----------------------------------------------------------------------------
(* The link of whole messages. *)

LEMMA LinkSteps ==
  FormatAssumed /\ WireInv /\ [Format!Next]_Format!vars
    => [Format!Link!Next]_Format!Link!vars
<1> SUFFICES ASSUME FormatAssumed, WireInv, [Format!Next]_Format!vars
             PROVE  Format!Link!Next \/ UNCHANGED <<Format!Limit, sent, received, taken>>
  BY DEF Format!Link!vars
<1>1. ASSUME UNCHANGED receiver PROVE Format!Limit' = Format!Limit
  BY <1>1 DEF Format!Limit
<1>2. CASE Format!Send
  <2>1. PICK size \in Sizes : sent' = Append(sent, [number |-> Len(sent) + 1, size |-> size])
    BY <1>2 DEF Format!Send
  <2>2. Len(sent) < MaxMessages /\ UNCHANGED <<receiver, received, taken>>
    BY <1>2 DEF Format!Send
  <2>3. [number |-> Len(sent) + 1, size |-> size] \in Format!Messages
    <3>1. Len(sent) \in Nat
      BY DEF WireInv, WireTypes
    <3>2. Len(sent) + 1 \in 1..MaxMessages
      BY <2>2, <3>1 DEF FormatAssumed
    <3> QED BY <3>2 DEF Format!Messages
  <2>4. Format!Link!Send
    BY <1>1, <2>1, <2>2, <2>3 DEF Format!Link!Send
  <2> QED BY <2>4 DEF Format!Link!Next
<1>3. CASE Format!Arrive \/ Format!Break
  <2>1. UNCHANGED <<receiver, sent, received, taken>>
    BY <1>3 DEF Format!Arrive, Format!Break
  <2> QED BY <1>1, <2>1
<1>4. CASE Format!ReadLength \/ Format!FrameDecoder
  <2>1. UNCHANGED <<receiver, sent, received, taken>>
    BY <1>4 DEF Format!ReadLength, Format!FrameDecoder
  <2> QED BY <1>1, <2>1
<1>5. CASE Format!ReadBody \/ Format!RpcDecoder
  <2>1. phase = "body" /\ UNCHANGED <<receiver, sent>>
    BY <1>5 DEF Format!ReadBody, Format!RpcDecoder
  <2>2. taken < Len(sent)
    BY <2>1 DEF WireInv, FrameNext
  <2>3. CASE UNCHANGED <<received, taken>>
    BY <1>1, <2>1, <2>3
  <2>4. CASE ~UNCHANGED <<received, taken>>
    <3>1. Format!Deliver(SubSeq(buffer, 1, length))
      BY <1>5, <2>4 DEF Format!ReadBody, Format!RpcDecoder
    <3>2. Len(buffer) >= length
      <4>1. CASE Format!ReadBody
        BY <2>4, <4>1 DEF Format!ReadBody
      <4>2. CASE Format!RpcDecoder
        <5>1. Len(buffer) \in Nat /\ length \in Nat /\ length <= Len(buffer)
          BY <2>1, <4>2 DEF Format!RpcDecoder, WireInv, WireTypes, FrameNext
        <5> QED BY <5>1
      <4> QED BY <1>5, <4>1, <4>2
    <3>3. SubSeq(buffer, 1, length)[2].msg = sent[taken + 1]
      BY <2>1, <3>2, FrameDecodes
    <3>4. received' = Append(received, sent[taken + 1]) /\ taken' = taken + 1
      BY <3>1, <3>3 DEF Format!Deliver
    <3>5. Format!Link!Receive
      BY <1>1, <2>1, <2>2, <3>4 DEF Format!Link!Receive
    <3> QED BY <3>5 DEF Format!Link!Next
  <2> QED BY <2>3, <2>4
<1>6. CASE Format!DiscardFrame
  <2>1. phase = "discard" /\ UNCHANGED <<receiver, sent, received>>
        /\ taken' = IF length = 1 THEN taken + 1 ELSE taken
    BY <1>6 DEF Format!DiscardFrame
  <2>2. taken < Len(sent) /\ sent[taken + 1].size > Format!Limit
    BY <2>1 DEF WireInv, FrameNext
  <2>3. CASE length = 1
    <3>1. Format!Link!Refuse
      BY <1>1, <2>1, <2>2, <2>3 DEF Format!Link!Refuse
    <3> QED BY <3>1 DEF Format!Link!Next
  <2>4. CASE length # 1
    BY <1>1, <2>1, <2>4
  <2> QED BY <2>3, <2>4
<1>7. CASE UNCHANGED Format!vars
  <2>1. UNCHANGED <<receiver, sent, received, taken>>
    BY <1>7 DEF Format!vars
  <2> QED BY <1>1, <2>1
<1> QED BY <1>2, <1>3, <1>4, <1>5, <1>6, <1>7 DEF Format!Next, Format!Receiver

(* Whatever the languages of its ends and wherever TCP cuts the bytes, a   *)
(* connection with these codecs carries whole messages, in order and once, *)
(* and leaves out only what is over the limit of the receiver.             *)
THEOREM FormatImplementsLink == FormatAssumed => (Format!Spec => ImplementsLink)
<1> SUFFICES ASSUME FormatAssumed PROVE Format!Spec => Format!Link!Spec
  BY DEF ImplementsLink, Format!ImplementsLink
<1>1. Format!Init => Format!Link!Init
  BY LimitFacts DEF Format!Init, Format!Link!Init
<1>2. WireInv /\ [Format!Next]_Format!vars => [Format!Link!Next]_Format!Link!vars
  BY LinkSteps
<1> QED BY <1>1, <1>2, WireInvariance, PTL DEF Format!Spec, Format!Link!Spec
=============================================================================
