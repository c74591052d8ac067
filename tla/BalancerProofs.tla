--------------------------- MODULE BalancerProofs ---------------------------
(***************************************************************************)
(* Proofs about Balancer for every set of clients, every number of         *)
(* requests and of backends, and every capacity of the channels.           *)
(***************************************************************************)
EXTENDS Balancer, FiniteSetTheorems, SequenceTheorems, TLAPS

(* The dispatcher is in the middle of a round: the backends before idx     *)
(* have had one request more.                                              *)
Balanced ==
  LET k == dispatched[NumBackends - 1] IN
    \A b \in Backends : dispatched[b] = IF b < idx THEN k + 1 ELSE k

(* Ids towards a backend are below the next one. *)
IdsIssued == \A b \in Backends : \A i \in DOMAIN outstanding[b] : i < nextId[b]

(* MapMatchesBackend, message by message. *)
InMap(b, m) == m.id \in DOMAIN outstanding[b] /\ m.body = outstanding[b][m.id]

MapsMatch ==
  \A b \in Backends :
    /\ \A m \in sending[b] : InMap(b, m)
    /\ \A m \in atBackend[b] : InMap(b, m)
    /\ \A i \in 1..Len(fromBackend[b]) : InMap(b, fromBackend[b][i])
    /\ \A i \in DOMAIN outstanding[b] :
         \/ \E m \in sending[b] : m.id = i
         \/ \E m \in atBackend[b] : m.id = i
         \/ \E j \in 1..Len(fromBackend[b]) : fromBackend[b][j].id = i

(* An id is in one place at a backend. *)
IdsDistinct ==
  \A b \in Backends :
    /\ \A m \in sending[b], n \in atBackend[b] : m.id # n.id
    /\ \A m \in sending[b] : \A i \in 1..Len(fromBackend[b]) : fromBackend[b][i].id # m.id
    /\ \A m \in atBackend[b] : \A i \in 1..Len(fromBackend[b]) : fromBackend[b][i].id # m.id
    /\ \A i, j \in 1..Len(fromBackend[b]) : fromBackend[b][i].id = fromBackend[b][j].id => i = j

(* What has its original id back answers that request of its client. *)
IdsRestored ==
  /\ \A b \in Backends : \A h \in holding[b] : h[2].body = <<h[1], h[2].id>>
  /\ \A c \in Clients : \A i \in 1..Len(output[c]) : output[c][i].body = <<c, output[c][i].id>>

(* The reader of a backend holds at most one response. *)
HoldsOne == \A b \in Backends : \A g, h \in holding[b] : g = h

Tables ==
  /\ TypeOK /\ Balanced /\ IdsIssued /\ MapsMatch /\ IdsDistinct /\ IdsRestored
  /\ HoldsOne /\ RightAnswer /\ NothingWrong

-----------------------------------------------------------------------------
(* The stages of a request. *)
Asked(r) == \E i \in 1..Len(requests) : requests[i] = r
Queued(b, r) == \E i \in 1..Len(queue[b]) : queue[b][i] = r
Mapped(b, r) == \E i \in DOMAIN outstanding[b] : outstanding[b][i] = r
Held(b, r) == \E h \in holding[b] : h[2].body = r
Answered(r) == \E i \in 1..Len(output[r[1]]) : output[r[1]][i].body = r
At(b, r) == Queued(b, r) \/ Mapped(b, r) \/ Held(b, r)
Somewhere(r) == Asked(r) \/ Answered(r) \/ \E b \in Backends : At(b, r)

(* No stage has a request twice, *)
NoRepeats ==
  /\ \A i, j \in 1..Len(requests) : requests[i] = requests[j] => i = j
  /\ \A b \in Backends :
       /\ \A i, j \in 1..Len(queue[b]) : queue[b][i] = queue[b][j] => i = j
       /\ \A i, j \in DOMAIN outstanding[b] : outstanding[b][i] = outstanding[b][j] => i = j
  /\ \A c \in Clients : \A i, j \in 1..Len(output[c]) :
       output[c][i].body = output[c][j].body => i = j

(* and a request is in one stage, none before it is read. *)
OneStage(r) ==
  /\ Asked(r) => ~Answered(r) /\ \A b \in Backends : ~At(b, r)
  /\ Answered(r) => \A b \in Backends : ~At(b, r)
  /\ \A b, d \in Backends : At(b, r) /\ At(d, r) => b = d
  /\ \A b \in Backends : /\ Queued(b, r) => ~Mapped(b, r) /\ ~Held(b, r)
                         /\ Mapped(b, r) => ~Held(b, r)
  /\ Somewhere(r) => r[2] <= sent[r[1]]

Staged == NoRepeats /\ \A r \in AllRequests : OneStage(r)

IndInv == Tables /\ Staged

-----------------------------------------------------------------------------
(* Channels after an append and after a removal. *)
LEMMA Appended ==
  ASSUME NEW S, NEW s \in Seq(S), NEW e \in S
  PROVE  /\ Append(s, e) \in Seq(S) /\ Len(Append(s, e)) = Len(s) + 1
         /\ \A i \in 1..Len(Append(s, e)) :
              \/ i \in 1..Len(s) /\ Append(s, e)[i] = s[i]
              \/ i = Len(s) + 1 /\ Append(s, e)[i] = e
         /\ \A i \in 1..Len(s) : i \in 1..Len(Append(s, e)) /\ Append(s, e)[i] = s[i]
         /\ Len(s) + 1 \in 1..Len(Append(s, e)) /\ Append(s, e)[Len(s) + 1] = e
  OBVIOUS

LEMMA Removed ==
  ASSUME NEW S, NEW s \in Seq(S), s # <<>>
  PROVE  /\ Tail(s) \in Seq(S) /\ Len(Tail(s)) <= Len(s) /\ Len(Tail(s)) \in Nat
         /\ 1 \in 1..Len(s) /\ Head(s) = s[1] /\ Head(s) \in S
         /\ \A i \in 1..Len(Tail(s)) : i + 1 \in 1..Len(s) /\ i + 1 # 1 /\ Tail(s)[i] = s[i + 1]
         /\ \A i \in 1..Len(s) : i = 1 \/ (i - 1 \in 1..Len(Tail(s)) /\ Tail(s)[i - 1] = s[i])
         /\ \A i, j \in 1..Len(Tail(s)) : i + 1 = j + 1 => i = j
  OBVIOUS

LEMMA RequestFacts ==
  /\ \A r \in AllRequests : /\ r[1] \in Clients /\ r[2] \in Nat /\ r[2] \in 1..MaxRequests[r[1]]
                            /\ r = <<r[1], r[2]>>
  /\ \A c \in Clients : \A i \in 1..MaxRequests[c] : <<c, i>> \in AllRequests
<1>1. ASSUME NEW r \in AllRequests
      PROVE  /\ r[1] \in Clients /\ r[2] \in Nat /\ r[2] \in 1..MaxRequests[r[1]]
             /\ r = <<r[1], r[2]>>
  <2>1. PICK c \in Clients : r \in {c} \X (1..MaxRequests[c])
    BY DEF AllRequests
  <2>2. MaxRequests[c] \in Nat
    BY BoundAssumption
  <2> QED BY <2>1, <2>2
<1>2. ASSUME NEW c \in Clients, NEW i \in 1..MaxRequests[c] PROVE <<c, i>> \in AllRequests
  BY DEF AllRequests
<1> QED BY <1>1, <1>2

LEMMA BackendFacts ==
  /\ NumBackends - 1 \in Backends /\ 0 \in Backends
  /\ \A b \in Backends : b \in Nat /\ b <= NumBackends - 1
  /\ \A b : b \in Nat /\ b < NumBackends => b \in Backends
  BY BackendsAssumption DEF Backends

(* What TypeOK says of what is in the channels. *)
LEMMA ElementFacts ==
  ASSUME TypeOK
  PROVE  /\ \A i \in 1..Len(requests) : requests[i] \in AllRequests
         /\ \A b \in Backends :
              /\ queue[b] \in Seq(AllRequests)
              /\ \A i \in 1..Len(queue[b]) : queue[b][i] \in AllRequests
              /\ fromBackend[b] \in Seq(Messages)
              /\ \A i \in 1..Len(fromBackend[b]) : fromBackend[b][i] \in Messages
              /\ sending[b] \subseteq Messages /\ atBackend[b] \subseteq Messages
              /\ holding[b] \subseteq (Clients \X Messages)
         /\ \A c \in Clients : /\ output[c] \in Seq(Messages)
                               /\ \A i \in 1..Len(output[c]) : output[c][i] \in Messages
                               /\ delivered[c] \in Seq(Messages)
         /\ \A m \in Messages : m.id \in Nat /\ m.body \in AllRequests
<1>1. requests \in Seq(AllRequests)
  BY DEF TypeOK
<1>2. \A b \in Backends : /\ queue[b] \in Seq(AllRequests) /\ fromBackend[b] \in Seq(Messages)
                          /\ sending[b] \subseteq Messages /\ atBackend[b] \subseteq Messages
                          /\ holding[b] \subseteq (Clients \X Messages)
  BY DEF TypeOK
<1>3. \A c \in Clients : output[c] \in Seq(Messages) /\ delivered[c] \in Seq(Messages)
  BY DEF TypeOK
<1>4. \A m \in Messages : m.id \in Nat /\ m.body \in AllRequests
  BY DEF Messages
<1>5. \A i \in 1..Len(requests) : requests[i] \in AllRequests
  BY <1>1
<1>6. ASSUME NEW b \in Backends
      PROVE  /\ \A i \in 1..Len(queue[b]) : queue[b][i] \in AllRequests
             /\ \A i \in 1..Len(fromBackend[b]) : fromBackend[b][i] \in Messages
  BY <1>2
<1>7. ASSUME NEW c \in Clients PROVE \A i \in 1..Len(output[c]) : output[c][i] \in Messages
  BY <1>3
<1> QED BY <1>2, <1>3, <1>4, <1>5, <1>6, <1>7

(* The parts of the invariant depend on these variables only. *)
LEMMA SameMaps ==
  ASSUME Tables, UNCHANGED <<nextId, outstanding, sending, atBackend, fromBackend>>
  PROVE  IdsIssued' /\ MapsMatch' /\ IdsDistinct'
  BY DEF Tables, IdsIssued, MapsMatch, IdsDistinct, InMap

LEMMA SameRound ==
  ASSUME Tables, UNCHANGED <<idx, dispatched>>
  PROVE  Balanced'
  BY DEF Tables, Balanced

LEMMA SameAnswers ==
  ASSUME Tables, UNCHANGED <<holding, output, delivered>>
  PROVE  IdsRestored' /\ HoldsOne' /\ RightAnswer'
  BY DEF Tables, IdsRestored, HoldsOne, RightAnswer

-----------------------------------------------------------------------------
(* The tables: initially, *)
LEMMA TablesInit == Init => Tables
<1> SUFFICES ASSUME Init PROVE Tables
  OBVIOUS
<1>1. /\ \A b \in Backends : /\ DOMAIN outstanding[b] = {} /\ sending[b] = {} /\ atBackend[b] = {}
                             /\ fromBackend[b] = <<>> /\ holding[b] = {} /\ dispatched[b] = 0
      /\ \A c \in Clients : output[c] = <<>> /\ delivered[c] = <<>> /\ sent[c] = 0
      /\ idx = 0 /\ panic = "no"
  BY DEF Init
<1>2. TypeOK
  <2>1. idx \in Backends /\ FirstId \in Nat
    BY <1>1, BackendFacts, BoundAssumption
  <2>2. \A c \in Clients : sent[c] <= MaxRequests[c] /\ Len(output[c]) <= OutputCap
    BY <1>1, BoundAssumption, CapsAssumption
  <2>3. \A b \in Backends : queue[b] = <<>> /\ Len(queue[b]) <= BackendCap
    BY CapsAssumption DEF Init
  <2>4. requests = <<>> /\ Len(requests) <= RequestsCap
    BY CapsAssumption DEF Init
  <2>5. /\ sent \in [Clients -> Nat] /\ sock \in [Clients -> {"up", "down"}]
        /\ reader \in [Clients -> {"running", "ended"}] /\ writer \in [Clients -> {"running", "ended"}]
    BY DEF Init
  <2>6. output \in [Clients -> Seq(Messages)] /\ delivered \in [Clients -> Seq(Messages)]
    BY DEF Init
  <2>7. /\ dispatched \in [Backends -> Nat] /\ queue \in [Backends -> Seq(AllRequests)]
        /\ nextId \in [Backends -> Nat] /\ DOMAIN outstanding = Backends
    BY <2>1 DEF Init
  <2>8. /\ sending \in [Backends -> SUBSET Messages] /\ atBackend \in [Backends -> SUBSET Messages]
        /\ fromBackend \in [Backends -> Seq(Messages)]
        /\ holding \in [Backends -> SUBSET (Clients \X Messages)]
    BY DEF Init
  <2>9. backendUp \subseteq Backends /\ requests \in Seq(AllRequests)
    BY <2>4 DEF Init
  <2> QED BY <1>1, <2>1, <2>2, <2>3, <2>4, <2>5, <2>6, <2>7, <2>8, <2>9 DEF TypeOK
<1>3. Balanced
  BY <1>1, BackendFacts DEF Balanced
<1>4. IdsIssued /\ MapsMatch /\ IdsDistinct
  BY <1>1 DEF IdsIssued, MapsMatch, IdsDistinct
<1>5. IdsRestored /\ HoldsOne /\ RightAnswer /\ NothingWrong
  BY <1>1 DEF IdsRestored, HoldsOne, RightAnswer, NothingWrong
<1> QED BY <1>2, <1>3, <1>4, <1>5 DEF Tables

(* at a client's connection, *)
LEMMA TablesReadRequest ==
  ASSUME Tables, NEW c \in Clients, ReadRequest(c)
  PROVE  Tables'
<1>1. /\ sent[c] < MaxRequests[c] /\ Len(requests) < RequestsCap
      /\ sent' = [sent EXCEPT ![c] = sent[c] + 1]
      /\ requests' = Append(requests, <<c, sent[c] + 1>>)
      /\ UNCHANGED <<sock, reader, writer, delivered, output, idx, dispatched, queue>>
      /\ UNCHANGED <<nextId, outstanding, sending, atBackend, fromBackend, holding, backendUp, panic>>
  BY DEF ReadRequest, backendVars
<1>2. sent \in [Clients -> Nat] /\ MaxRequests[c] \in Nat /\ requests \in Seq(AllRequests)
  BY BoundAssumption DEF Tables, TypeOK
<1>3. sent[c] + 1 \in 1..MaxRequests[c] /\ sent[c] + 1 \in Nat
  BY <1>1, <1>2
<1>4. sent' \in [Clients -> Nat] /\ \A d \in Clients : sent'[d] <= MaxRequests[d]
  <2>1. sent' \in [Clients -> Nat]
    BY <1>1, <1>2, <1>3
  <2>2. \A d \in Clients : sent[d] <= MaxRequests[d]
    BY DEF Tables, TypeOK
  <2> QED BY <1>1, <1>2, <1>3, <2>1, <2>2
<1>5. requests' \in Seq(AllRequests) /\ Len(requests') <= RequestsCap
  <2>1. <<c, sent[c] + 1>> \in AllRequests
    BY <1>3, RequestFacts
  <2> QED BY <1>1, <1>2, <2>1, Appended, CapsAssumption
<1>6. TypeOK'
  BY <1>1, <1>4, <1>5 DEF Tables, TypeOK
<1> QED BY <1>1, <1>6, SameMaps, SameRound, SameAnswers DEF Tables, NothingWrong

LEMMA TablesLeaving ==
  ASSUME Tables, NEW c \in Clients, ReaderEnds(c) \/ ClientLeaves(c) \/ WriterEnds(c)
  PROVE  Tables'
<1>1. /\ UNCHANGED <<sent, delivered, output, requests, idx, dispatched, queue>>
      /\ UNCHANGED <<nextId, outstanding, sending, atBackend, fromBackend, holding, backendUp, panic>>
  BY DEF ReaderEnds, ClientLeaves, WriterEnds, backendVars
<1>2. /\ sock' \in [Clients -> {"up", "down"}]
      /\ reader' \in [Clients -> {"running", "ended"}]
      /\ writer' \in [Clients -> {"running", "ended"}]
  BY DEF Tables, TypeOK, ReaderEnds, ClientLeaves, WriterEnds
<1>3. TypeOK'
  BY <1>1, <1>2 DEF Tables, TypeOK
<1> QED BY <1>1, <1>3, SameMaps, SameRound, SameAnswers DEF Tables, NothingWrong

LEMMA TablesWriting ==
  ASSUME Tables, NEW c \in Clients, WriteResponse(c) \/ WriteFails(c)
  PROVE  Tables'
<1>1. /\ output[c] # <<>> /\ output' = [output EXCEPT ![c] = Tail(output[c])]
      /\ delivered' = delivered \/ delivered' = [delivered EXCEPT ![c] = Append(delivered[c], Head(output[c]))]
      /\ writer' = writer \/ writer' = [writer EXCEPT ![c] = "ended"]
      /\ UNCHANGED <<sent, sock, reader, requests, idx, dispatched, queue>>
      /\ UNCHANGED <<nextId, outstanding, sending, atBackend, fromBackend, holding, backendUp, panic>>
  BY DEF WriteResponse, WriteFails, backendVars
<1>2. /\ output \in [Clients -> Seq(Messages)] /\ delivered \in [Clients -> Seq(Messages)]
      /\ \A d \in Clients : Len(output[d]) <= OutputCap
  BY DEF Tables, TypeOK
<1>3. /\ Tail(output[c]) \in Seq(Messages) /\ Len(Tail(output[c])) <= OutputCap
      /\ Head(output[c]) \in Messages /\ Head(output[c]).body = <<c, Head(output[c]).id>>
      /\ \A i \in 1..Len(Tail(output[c])) :
           Tail(output[c])[i].body = <<c, Tail(output[c])[i].id>>
  <2>1. output[c] \in Seq(Messages) /\ Len(output[c]) \in Nat
    BY <1>2
  <2> QED BY <1>1, <1>2, <2>1, Removed, CapsAssumption DEF Tables, IdsRestored
<1>4. /\ output' \in [Clients -> Seq(Messages)]
      /\ \A d \in Clients : output'[d] = IF d = c THEN Tail(output[c]) ELSE output[d]
  BY <1>1, <1>2, <1>3
<1>5. delivered' \in [Clients -> Seq(Messages)] /\ RightAnswer'
  <2>1. CASE delivered' = delivered
    BY <1>2, <2>1 DEF Tables, RightAnswer
  <2>2. CASE delivered' = [delivered EXCEPT ![c] = Append(delivered[c], Head(output[c]))]
    <3>1. delivered[c] \in Seq(Messages)
      BY <1>2
    <3>2. /\ Append(delivered[c], Head(output[c])) \in Seq(Messages)
          /\ \A i \in 1..Len(Append(delivered[c], Head(output[c]))) :
               \/ i \in 1..Len(delivered[c]) /\ Append(delivered[c], Head(output[c]))[i] = delivered[c][i]
               \/ Append(delivered[c], Head(output[c]))[i] = Head(output[c])
      BY <1>3, <3>1, Appended
    <3>3. delivered' \in [Clients -> Seq(Messages)]
      BY <1>2, <2>2, <3>2
    <3>4. \A d \in Clients : delivered'[d] = IF d = c THEN Append(delivered[c], Head(output[c])) ELSE delivered[d]
      BY <1>2, <2>2
    <3>5. ASSUME NEW d \in Clients, NEW i \in 1..Len(delivered'[d])
          PROVE  delivered'[d][i].body = <<d, delivered'[d][i].id>>
      <4>1. CASE d = c
        <5>1. CASE i \in 1..Len(delivered[c]) /\ Append(delivered[c], Head(output[c]))[i] = delivered[c][i]
          BY <3>4, <4>1, <5>1 DEF Tables, RightAnswer
        <5>2. CASE Append(delivered[c], Head(output[c]))[i] = Head(output[c])
          BY <1>3, <3>4, <4>1, <5>2
        <5> QED BY <3>2, <3>4, <3>5, <4>1, <5>1, <5>2
      <4>2. CASE d # c
        BY <3>4, <3>5, <4>2 DEF Tables, RightAnswer
      <4> QED BY <4>1, <4>2
    <3> QED BY <3>3, <3>5 DEF RightAnswer
  <2> QED BY <1>1, <2>1, <2>2
<1>6. IdsRestored' /\ HoldsOne'
  BY <1>1, <1>3, <1>4 DEF Tables, IdsRestored, HoldsOne
<1>7. TypeOK'
  <2>1. writer' \in [Clients -> {"running", "ended"}]
    BY <1>1 DEF Tables, TypeOK
  <2>2. \A d \in Clients : Len(output'[d]) <= OutputCap
    BY <1>2, <1>3, <1>4
  <2> QED BY <1>1, <1>4, <1>5, <2>1, <2>2 DEF Tables, TypeOK
<1> QED BY <1>1, <1>5, <1>6, <1>7, SameMaps, SameRound DEF Tables, NothingWrong

(* in the dispatcher, *)
LEMMA TablesDispatch ==
  ASSUME Tables, Dispatch
  PROVE  Tables'
<1>1. /\ requests # <<>> /\ Len(queue[idx]) < BackendCap
      /\ queue' = [queue EXCEPT ![idx] = Append(queue[idx], Head(requests))]
      /\ dispatched' = [dispatched EXCEPT ![idx] = dispatched[idx] + 1]
      /\ requests' = Tail(requests)
      /\ idx' = IF idx + 1 >= NumBackends THEN 0 ELSE idx + 1
      /\ UNCHANGED <<sent, sock, reader, writer, delivered, output>>
      /\ UNCHANGED <<nextId, outstanding, sending, atBackend, fromBackend, holding, backendUp, panic>>
  BY DEF Dispatch, clientVars, backendVars
<1>2. /\ requests \in Seq(AllRequests) /\ Len(requests) <= RequestsCap
      /\ queue \in [Backends -> Seq(AllRequests)] /\ \A b \in Backends : Len(queue[b]) <= BackendCap
      /\ idx \in Backends /\ dispatched \in [Backends -> Nat]
  BY DEF Tables, TypeOK
<1>3. idx' \in Backends /\ idx \in Nat /\ NumBackends \in Nat
  <2>1. idx \in Nat /\ NumBackends \in Nat
    BY <1>2, BackendFacts, BackendsAssumption
  <2>2. CASE idx + 1 >= NumBackends
    BY <1>1, <2>1, <2>2, BackendFacts
  <2>3. CASE ~(idx + 1 >= NumBackends)
    <3>1. idx + 1 \in Nat /\ idx + 1 < NumBackends
      BY <2>1, <2>3
    <3> QED BY <1>1, <2>1, <2>3, <3>1, BackendFacts
  <2> QED BY <2>2, <2>3
<1>4. requests' \in Seq(AllRequests) /\ Len(requests') <= RequestsCap /\ Head(requests) \in AllRequests
  <2>1. Len(requests) \in Nat
    BY <1>2
  <2> QED BY <1>1, <1>2, <2>1, Removed, CapsAssumption
<1>5. Append(queue[idx], Head(requests)) \in Seq(AllRequests)
      /\ Len(Append(queue[idx], Head(requests))) <= BackendCap
  <2>1. queue[idx] \in Seq(AllRequests)
    BY <1>2
  <2> QED BY <1>1, <1>4, <2>1, Appended, CapsAssumption
<1>6. queue' \in [Backends -> Seq(AllRequests)] /\ \A b \in Backends : Len(queue'[b]) <= BackendCap
  BY <1>1, <1>2, <1>5
<1>7. /\ dispatched' \in [Backends -> Nat]
      /\ \A b \in Backends : dispatched'[b] = IF b = idx THEN dispatched[b] + 1 ELSE dispatched[b]
  BY <1>1, <1>2
<1>8. Balanced'
  <2> DEFINE n == NumBackends - 1
             k == dispatched[n]
  <2>1. n \in Backends /\ k \in Nat /\ \A b \in Backends : dispatched[b] = IF b < idx THEN k + 1 ELSE k
    BY <1>2, BackendFacts DEF Tables, Balanced
  <2>2. CASE idx = n
    <3>1. idx' = 0
      BY <1>1, <1>3, <2>2
    <3>2. \A b \in Backends : dispatched'[b] = k + 1
      BY <1>2, <1>7, <2>1, <2>2, BackendFacts
    <3> QED BY <2>1, <3>1, <3>2, BackendFacts DEF Balanced
  <2>3. CASE idx # n
    <3>1. idx' = idx + 1
      BY <1>1, <1>2, <1>3, <2>3, BackendFacts
    <3>2. dispatched'[n] = k
      BY <1>7, <2>1, <2>3
    <3> HIDE DEF n, k
    <3>3. ASSUME NEW b \in Backends PROVE dispatched'[b] = IF b < idx' THEN k + 1 ELSE k
      <4>1. b \in Nat
        BY BackendFacts
      <4>2. CASE b = idx
        <5>1. dispatched[b] = k /\ b < idx'
          BY <1>3, <2>1, <3>1, <4>1, <4>2
        <5> QED BY <1>7, <4>2, <5>1
      <4>3. CASE b # idx
        <5>1. dispatched'[b] = dispatched[b] /\ (b < idx' <=> b < idx)
          BY <1>3, <1>7, <3>1, <4>1, <4>3
        <5> QED BY <2>1, <5>1
      <4> QED BY <4>2, <4>3
    <3> QED BY <3>2, <3>3 DEF Balanced, n
  <2> QED BY <2>2, <2>3
<1>9. TypeOK'
  BY <1>1, <1>3, <1>4, <1>6, <1>7 DEF Tables, TypeOK
<1> QED BY <1>1, <1>8, <1>9, SameMaps, SameAnswers DEF Tables, NothingWrong

(* and at the backends. *)
LEMMA TablesRegisterRequest ==
  ASSUME Tables, NEW b \in Backends, RegisterRequest(b)
  PROVE  Tables'
<1> DEFINE r == Head(queue[b])
           n == nextId[b]
           m == Message(n, r)
<1>1. /\ sending[b] = {} /\ queue[b] # <<>>
      /\ queue' = [queue EXCEPT ![b] = Tail(queue[b])]
      /\ nextId' = [nextId EXCEPT ![b] = n + 1]
      /\ outstanding' = [outstanding EXCEPT ![b] = WithEntry(outstanding[b], n, r)]
      /\ sending' = [sending EXCEPT ![b] = {m}]
      /\ UNCHANGED <<sent, sock, reader, writer, delivered, output, requests, idx, dispatched>>
      /\ UNCHANGED <<atBackend, fromBackend, holding, backendUp, panic>>
  BY DEF RegisterRequest, FollowingId, clientVars
<1>2. /\ queue \in [Backends -> Seq(AllRequests)] /\ nextId \in [Backends -> Nat]
      /\ sending \in [Backends -> SUBSET Messages] /\ DOMAIN outstanding = Backends
      /\ \A d \in Backends : Len(queue[d]) <= BackendCap
  BY DEF Tables, TypeOK
<1>3. /\ Tail(queue[b]) \in Seq(AllRequests) /\ Len(Tail(queue[b])) <= BackendCap
      /\ r \in AllRequests /\ n \in Nat
  <2>1. queue[b] \in Seq(AllRequests)
    BY <1>2
  <2>2. Len(queue[b]) \in Nat /\ n \in Nat
    BY <1>2, <2>1
  <2> QED BY <1>1, <1>2, <2>1, <2>2, Removed, CapsAssumption
<1> HIDE DEF r, n
<1>4. m \in Messages /\ m.id = n /\ m.body = r
  BY <1>3 DEF Message, Messages
<1> HIDE DEF m
<1>5. /\ n \notin DOMAIN outstanding[b]
      /\ DOMAIN outstanding'[b] = DOMAIN outstanding[b] \cup {n}
      /\ outstanding'[b][n] = r
      /\ \A i \in DOMAIN outstanding[b] : outstanding'[b][i] = outstanding[b][i]
      /\ DOMAIN outstanding' = Backends
      /\ \A d \in Backends : d # b => outstanding'[d] = outstanding[d]
  <2>1. n \notin DOMAIN outstanding[b]
    <3>1. \A i \in DOMAIN outstanding[b] : i \in Nat /\ i < n
      BY DEF Tables, TypeOK, IdsIssued, n
    <3> QED BY <1>3, <3>1
  <2>2. outstanding'[b] = WithEntry(outstanding[b], n, r)
    BY <1>1, <1>2
  <2>3. DOMAIN outstanding' = Backends /\ \A d \in Backends : d # b => outstanding'[d] = outstanding[d]
    BY <1>1, <1>2
  <2> QED BY <2>1, <2>2, <2>3 DEF WithEntry
<1>6. sending'[b] = {m} /\ \A d \in Backends : d # b => sending'[d] = sending[d]
  BY <1>1, <1>2
<1>7. nextId'[b] = n + 1 /\ \A d \in Backends : d # b => nextId'[d] = nextId[d]
  BY <1>1, <1>2
<1>8. TypeOK'
  <2>1. queue' \in [Backends -> Seq(AllRequests)] /\ \A d \in Backends : Len(queue'[d]) <= BackendCap
    BY <1>1, <1>2, <1>3
  <2>2. nextId' \in [Backends -> Nat]
    BY <1>1, <1>2, <1>3
  <2>3. sending' \in [Backends -> SUBSET Messages]
    BY <1>1, <1>2, <1>4
  <2>4. \A d \in Backends :
          /\ DOMAIN outstanding'[d] \subseteq Nat
          /\ \A i \in DOMAIN outstanding'[d] : outstanding'[d][i] \in AllRequests
    BY <1>3, <1>5 DEF Tables, TypeOK
  <2> QED BY <1>1, <1>5, <2>1, <2>2, <2>3, <2>4 DEF Tables, TypeOK
<1>9. IdsIssued'
  <2>1. \A i \in DOMAIN outstanding[b] : i \in Nat /\ i < n
    BY DEF Tables, TypeOK, IdsIssued, n
  <2>2. \A i \in DOMAIN outstanding'[b] : i < n + 1
    BY <1>3, <1>5, <2>1
  <2> QED BY <1>5, <1>7, <2>2 DEF Tables, IdsIssued
<1>10. MapsMatch'
  <2>1. \A d \in Backends : \A i \in DOMAIN outstanding[d] :
          i \in DOMAIN outstanding'[d] /\ outstanding'[d][i] = outstanding[d][i]
    BY <1>5
  <2>2. \A d \in Backends : /\ \A x \in atBackend[d] : InMap(d, x)'
                            /\ \A i \in 1..Len(fromBackend[d]) : InMap(d, fromBackend[d][i])'
    BY <1>1, <2>1 DEF Tables, MapsMatch, InMap
  <2>3. \A d \in Backends : \A x \in sending'[d] : InMap(d, x)'
    BY <1>4, <1>5, <1>6 DEF Tables, MapsMatch, InMap
  <2>4. ASSUME NEW d \in Backends, NEW i \in DOMAIN outstanding'[d]
        PROVE  \/ \E x \in sending'[d] : x.id = i
               \/ \E x \in atBackend[d] : x.id = i
               \/ \E j \in 1..Len(fromBackend[d]) : fromBackend[d][j].id = i
    <3>1. CASE d = b /\ i = n
      BY <1>4, <1>6, <3>1
    <3>2. CASE d = b /\ i # n
      BY <1>1, <1>5, <2>4, <3>2 DEF Tables, MapsMatch
    <3>3. CASE d # b
      BY <1>5, <1>6, <2>4, <3>3 DEF Tables, MapsMatch
    <3> QED BY <3>1, <3>2, <3>3
  <2> QED BY <1>1, <2>2, <2>3, <2>4 DEF MapsMatch
<1>11. IdsDistinct'
  <2>1. /\ \A x \in atBackend[b] : x.id # n
        /\ \A i \in 1..Len(fromBackend[b]) : fromBackend[b][i].id # n
    BY <1>5 DEF Tables, MapsMatch, InMap
  <2> QED BY <1>1, <1>4, <1>6, <2>1, SMTT(40) DEF Tables, IdsDistinct
<1> QED BY <1>1, <1>8, <1>9, <1>10, <1>11, SameRound, SameAnswers DEF Tables, NothingWrong

LEMMA TablesSendToBackend ==
  ASSUME Tables, NEW b \in Backends, SendToBackend(b)
  PROVE  Tables'
<1>1. /\ sending' = [sending EXCEPT ![b] = {}]
      /\ atBackend' = [atBackend EXCEPT ![b] = atBackend[b] \cup sending[b]]
      /\ UNCHANGED <<sent, sock, reader, writer, delivered, output, requests, idx, dispatched, queue>>
      /\ UNCHANGED <<nextId, outstanding, fromBackend, holding, backendUp, panic>>
  BY DEF SendToBackend, clientVars
<1>2. /\ sending \in [Backends -> SUBSET Messages] /\ atBackend \in [Backends -> SUBSET Messages]
  BY DEF Tables, TypeOK
<1>3. /\ sending'[b] = {} /\ \A d \in Backends : d # b => sending'[d] = sending[d]
      /\ atBackend'[b] = atBackend[b] \cup sending[b]
      /\ \A d \in Backends : d # b => atBackend'[d] = atBackend[d]
  BY <1>1, <1>2
<1>4. TypeOK'
  <2>1. sending' \in [Backends -> SUBSET Messages] /\ atBackend' \in [Backends -> SUBSET Messages]
    BY <1>1, <1>2
  <2> QED BY <1>1, <2>1 DEF Tables, TypeOK
<1>5. IdsIssued'
  BY <1>1 DEF Tables, IdsIssued
<1>6. MapsMatch'
  <2>1. \A d \in Backends : /\ \A x \in sending'[d] : x \in sending[d]
                            /\ \A x \in atBackend'[d] : x \in sending[d] \/ x \in atBackend[d]
                            /\ \A x \in sending[d] : x \in sending'[d] \/ x \in atBackend'[d]
                            /\ \A x \in atBackend[d] : x \in atBackend'[d]
    BY <1>3
  <2> QED BY <1>1, <2>1 DEF Tables, MapsMatch, InMap
<1>7. IdsDistinct'
  BY <1>1, <1>3 DEF Tables, IdsDistinct
<1> QED BY <1>1, <1>4, <1>5, <1>6, <1>7, SameRound, SameAnswers DEF Tables, NothingWrong

LEMMA TablesBackendAnswers ==
  ASSUME Tables, NEW b \in Backends, NEW m \in atBackend[b], BackendAnswers(b, m)
  PROVE  Tables'
<1>1. /\ atBackend' = [atBackend EXCEPT ![b] = atBackend[b] \ {m}]
      /\ fromBackend' = [fromBackend EXCEPT ![b] = Append(fromBackend[b], m)]
      /\ UNCHANGED <<sent, sock, reader, writer, delivered, output, requests, idx, dispatched, queue>>
      /\ UNCHANGED <<nextId, outstanding, sending, holding, backendUp, panic>>
  BY DEF BackendAnswers, clientVars
<1>2. /\ atBackend \in [Backends -> SUBSET Messages] /\ fromBackend \in [Backends -> Seq(Messages)]
      /\ m \in Messages
  BY DEF Tables, TypeOK
<1> DEFINE s == fromBackend[b]
           t == Append(s, m)
<1>3. /\ t \in Seq(Messages)
      /\ \A i \in 1..Len(t) : (i \in 1..Len(s) /\ t[i] = s[i]) \/ (i = Len(s) + 1 /\ t[i] = m)
      /\ \A i \in 1..Len(s) : i \in 1..Len(t) /\ t[i] = s[i]
      /\ Len(s) + 1 \in 1..Len(t) /\ t[Len(s) + 1] = m
  <2>1. s \in Seq(Messages)
    BY <1>2
  <2> QED BY <1>2, <2>1, Appended
<1>4. /\ atBackend'[b] = atBackend[b] \ {m} /\ fromBackend'[b] = t
      /\ \A d \in Backends : d # b => atBackend'[d] = atBackend[d] /\ fromBackend'[d] = fromBackend[d]
  BY <1>1, <1>2
<1> HIDE DEF s, t
<1>5. TypeOK'
  <2>1. atBackend' \in [Backends -> SUBSET Messages] /\ fromBackend' \in [Backends -> Seq(Messages)]
    BY <1>1, <1>2, <1>3 DEF s, t
  <2> QED BY <1>1, <2>1 DEF Tables, TypeOK
<1>6. IdsIssued'
  BY <1>1 DEF Tables, IdsIssued
<1>7. MapsMatch'
  <2>1. \A d \in Backends : /\ \A x \in sending[d] : InMap(d, x)'
                            /\ \A x \in atBackend'[d] : InMap(d, x)'
    BY <1>1, <1>4 DEF Tables, MapsMatch, InMap
  <2>2. \A i \in 1..Len(t) : t[i].id \in DOMAIN outstanding[b] /\ t[i].body = outstanding[b][t[i].id]
    BY <1>3 DEF Tables, MapsMatch, InMap, s
  <2>3. \A d \in Backends : \A i \in 1..Len(fromBackend'[d]) : InMap(d, fromBackend[d][i])'
    BY <1>1, <1>4, <2>2 DEF Tables, MapsMatch, InMap
  <2>4. ASSUME NEW d \in Backends, NEW i \in DOMAIN outstanding[d]
        PROVE  \/ \E x \in sending[d] : x.id = i
               \/ \E x \in atBackend'[d] : x.id = i
               \/ \E j \in 1..Len(fromBackend'[d]) : fromBackend'[d][j].id = i
    <3>1. CASE d = b /\ i = m.id
      BY <1>3, <1>4, <3>1
    <3>2. CASE d = b /\ i # m.id
      BY <1>3, <1>4, <3>2 DEF Tables, MapsMatch, s
    <3>3. CASE d # b
      BY <1>4, <3>3 DEF Tables, MapsMatch
    <3> QED BY <3>1, <3>2, <3>3
  <2> QED BY <1>1, <2>1, <2>3, <2>4 DEF MapsMatch
<1>8. IdsDistinct'
  <2>1. \A x \in atBackend[b] : x.id = m.id => x = m
    <3>1. \A x \in atBackend[b] : /\ x \in [id : Nat, body : AllRequests]
                                  /\ x.id = m.id => x.body = m.body
      BY <1>2 DEF Tables, MapsMatch, InMap, Messages
    <3> QED BY <1>2, <3>1 DEF Messages
  <2>2. /\ \A x \in sending[b] : x.id # m.id
        /\ \A i \in 1..Len(s) : s[i].id # m.id
        /\ \A i, j \in 1..Len(s) : s[i].id = s[j].id => i = j
        /\ \A x \in sending[b], i \in 1..Len(s) : s[i].id # x.id
        /\ \A x \in atBackend[b], i \in 1..Len(s) : s[i].id # x.id
        /\ \A x \in sending[b], y \in atBackend[b] : x.id # y.id
    BY DEF Tables, IdsDistinct, s
  <2>3. \A i, j \in 1..Len(t) : t[i].id = t[j].id => i = j
    BY <1>3, <2>2
  <2>4. /\ \A x \in sending[b], i \in 1..Len(t) : t[i].id # x.id
        /\ \A x \in atBackend'[b], i \in 1..Len(t) : t[i].id # x.id
        /\ \A x \in sending[b], y \in atBackend'[b] : x.id # y.id
    BY <1>3, <1>4, <2>1, <2>2
  <2> QED BY <1>1, <1>4, <2>3, <2>4, SMTT(40) DEF Tables, IdsDistinct
<1> QED BY <1>1, <1>5, <1>6, <1>7, <1>8, SameRound, SameAnswers DEF Tables, NothingWrong

LEMMA TablesTakeResponse ==
  ASSUME Tables, NEW b \in Backends, TakeResponse(b)
  PROVE  Tables'
<1> DEFINE s == fromBackend[b]
           t == Tail(s)
           m == Head(s)
           r == outstanding[b][m.id]
           h == <<r[1], Message(r[2], m.body)>>
<1>1. /\ s # <<>> /\ m.id \in DOMAIN outstanding[b]
      /\ outstanding' = [outstanding EXCEPT ![b] = WithoutEntry(outstanding[b], m.id)]
      /\ holding' = [holding EXCEPT ![b] = {h}]
      /\ fromBackend' = [fromBackend EXCEPT ![b] = t]
      /\ UNCHANGED <<sent, sock, reader, writer, delivered, output, requests, idx, dispatched, queue>>
      /\ UNCHANGED <<nextId, sending, atBackend, backendUp, panic>>
  BY DEF TakeResponse, RestoreId, clientVars
<1>2. /\ holding \in [Backends -> SUBSET (Clients \X Messages)]
      /\ fromBackend \in [Backends -> Seq(Messages)] /\ DOMAIN outstanding = Backends
  BY DEF Tables, TypeOK
<1>3. /\ t \in Seq(Messages) /\ m \in Messages
      /\ 1 \in 1..Len(s) /\ m = s[1]
      /\ \A i \in 1..Len(t) : i + 1 \in 1..Len(s) /\ i + 1 # 1 /\ t[i] = s[i + 1]
      /\ \A i \in 1..Len(s) : i = 1 \/ (i - 1 \in 1..Len(t) /\ t[i - 1] = s[i])
      /\ \A i, j \in 1..Len(t) : i + 1 = j + 1 => i = j
  <2>1. s \in Seq(Messages)
    BY <1>2
  <2> QED BY <1>1, <2>1, Removed
<1>4. r \in AllRequests /\ r = m.body
  <2>1. r \in AllRequests
    BY <1>1 DEF Tables, TypeOK
  <2>2. InMap(b, s[1])
    BY <1>3 DEF Tables, MapsMatch
  <2> QED BY <1>3, <2>1, <2>2 DEF InMap
<1>5. /\ h \in Clients \X Messages /\ h[1] = r[1] /\ h[2].body = r /\ h[2].id = r[2]
      /\ h[2].body = <<h[1], h[2].id>>
  <2>1. /\ r[1] \in Clients /\ r[2] \in Nat /\ r = <<r[1], r[2]>>
    BY <1>4, RequestFacts
  <2>2. Message(r[2], m.body) \in Messages
    BY <1>4, <2>1 DEF Message, Messages
  <2> QED BY <1>4, <2>1, <2>2 DEF Message
<1>6. /\ fromBackend'[b] = t /\ \A d \in Backends : d # b => fromBackend'[d] = fromBackend[d]
      /\ holding'[b] = {h} /\ \A d \in Backends : d # b => holding'[d] = holding[d]
  BY <1>1, <1>2
<1>7. /\ DOMAIN outstanding' = Backends
      /\ \A d \in Backends : d # b => outstanding'[d] = outstanding[d]
      /\ DOMAIN outstanding'[b] = DOMAIN outstanding[b] \ {m.id}
      /\ \A i \in DOMAIN outstanding'[b] : outstanding'[b][i] = outstanding[b][i]
  <2>1. outstanding'[b] = WithoutEntry(outstanding[b], m.id)
    BY <1>1, <1>2
  <2> QED BY <1>1, <1>2, <2>1 DEF WithoutEntry
<1> HIDE DEF s, t, m, r, h
<1>8. TypeOK'
  <2>1. fromBackend' \in [Backends -> Seq(Messages)]
    BY <1>1, <1>2, <1>3
  <2>2. holding' \in [Backends -> SUBSET (Clients \X Messages)]
    BY <1>1, <1>2, <1>5
  <2>3. \A d \in Backends :
          /\ DOMAIN outstanding'[d] \subseteq Nat
          /\ \A i \in DOMAIN outstanding'[d] : outstanding'[d][i] \in AllRequests
    BY <1>7 DEF Tables, TypeOK
  <2> QED BY <1>1, <1>7, <2>1, <2>2, <2>3 DEF Tables, TypeOK
<1>9. IdsIssued'
  BY <1>1, <1>7 DEF Tables, IdsIssued
<1>10. /\ \A x \in sending[b] : x.id # m.id
       /\ \A x \in atBackend[b] : x.id # m.id
       /\ \A i \in 1..Len(t) : t[i].id # m.id
  <2>1. ASSUME NEW i \in 1..Len(t) PROVE t[i].id # m.id
    <3>1. i + 1 \in 1..Len(s) /\ i + 1 # 1 /\ t[i] = s[i + 1]
      BY <1>3
    <3>2. s[i + 1].id # s[1].id
      BY <1>3, <3>1 DEF Tables, IdsDistinct, s
    <3> QED BY <1>3, <3>1, <3>2
  <2>2. s[1].id = m.id /\ 1 \in 1..Len(s)
    BY <1>3
  <2>3. /\ \A x \in sending[b] : x.id # s[1].id
        /\ \A x \in atBackend[b] : x.id # s[1].id
    BY <2>2 DEF Tables, IdsDistinct, s
  <2> QED BY <2>1, <2>2, <2>3
<1>11. MapsMatch'
  <2>1. \A d \in Backends : /\ \A x \in sending[d] : InMap(d, x)'
                            /\ \A x \in atBackend[d] : InMap(d, x)'
    BY <1>7, <1>10 DEF Tables, MapsMatch, InMap
  <2>2. \A i \in 1..Len(t) : t[i].id \in DOMAIN outstanding'[b] /\ t[i].body = outstanding'[b][t[i].id]
    <3> SUFFICES ASSUME NEW i \in 1..Len(t)
                 PROVE  t[i].id \in DOMAIN outstanding'[b] /\ t[i].body = outstanding'[b][t[i].id]
      OBVIOUS
    <3>1. i + 1 \in 1..Len(s) /\ t[i] = s[i + 1]
      BY <1>3
    <3>2. s[i + 1].id \in DOMAIN outstanding[b] /\ s[i + 1].body = outstanding[b][s[i + 1].id]
      BY <3>1 DEF Tables, MapsMatch, InMap, s
    <3> QED BY <1>7, <1>10, <3>1, <3>2
  <2>3. \A d \in Backends : \A i \in 1..Len(fromBackend'[d]) : InMap(d, fromBackend[d][i])'
    BY <1>6, <1>7, <2>2 DEF Tables, MapsMatch, InMap
  <2>4. ASSUME NEW d \in Backends, NEW i \in DOMAIN outstanding'[d]
        PROVE  \/ \E x \in sending[d] : x.id = i
               \/ \E x \in atBackend[d] : x.id = i
               \/ \E j \in 1..Len(fromBackend'[d]) : fromBackend'[d][j].id = i
    <3>1. CASE d = b
      <4>1. i \in DOMAIN outstanding[b] /\ i # m.id
        BY <1>7, <2>4, <3>1
      <4>2. CASE \E j \in 1..Len(s) : s[j].id = i
        <5>1. PICK j \in 1..Len(s) : s[j].id = i
          BY <4>2
        <5>2. j - 1 \in 1..Len(t) /\ t[j - 1] = s[j]
          BY <1>3, <4>1, <5>1
        <5> QED BY <1>6, <3>1, <5>1, <5>2
      <4>3. CASE ~\E j \in 1..Len(s) : s[j].id = i
        BY <3>1, <4>1, <4>3 DEF Tables, MapsMatch, s
      <4> QED BY <4>2, <4>3
    <3>2. CASE d # b
      BY <1>6, <1>7, <2>4, <3>2 DEF Tables, MapsMatch
    <3> QED BY <3>1, <3>2
  <2> QED BY <1>1, <2>1, <2>3, <2>4 DEF MapsMatch
<1>12. IdsDistinct'
  <2>1. ASSUME NEW i \in 1..Len(t), NEW j \in 1..Len(t), t[i].id = t[j].id PROVE i = j
    <3>1. i + 1 \in 1..Len(s) /\ j + 1 \in 1..Len(s) /\ t[i] = s[i + 1] /\ t[j] = s[j + 1]
      BY <1>3
    <3>2. i + 1 = j + 1
      BY <2>1, <3>1 DEF Tables, IdsDistinct, s
    <3> QED BY <1>3, <3>2
  <2>2. /\ \A x \in sending[b] : \A i \in 1..Len(t) : t[i].id # x.id
        /\ \A x \in atBackend[b] : \A i \in 1..Len(t) : t[i].id # x.id
    <3> SUFFICES ASSUME NEW i \in 1..Len(t)
                 PROVE  /\ \A x \in sending[b] : t[i].id # x.id
                        /\ \A x \in atBackend[b] : t[i].id # x.id
      OBVIOUS
    <3>1. i + 1 \in 1..Len(s) /\ t[i] = s[i + 1]
      BY <1>3
    <3> QED BY <3>1 DEF Tables, IdsDistinct, s
  <2> QED BY <1>1, <1>6, <2>1, <2>2 DEF Tables, IdsDistinct
<1>13. IdsRestored' /\ HoldsOne' /\ RightAnswer'
  BY <1>1, <1>5, <1>6 DEF Tables, IdsRestored, HoldsOne, RightAnswer
<1> QED BY <1>1, <1>8, <1>9, <1>11, <1>12, <1>13, SameRound DEF Tables, NothingWrong

LEMMA TablesForwardResponse ==
  ASSUME Tables, NEW b \in Backends, ForwardResponse(b)
  PROVE  Tables'
<1>1. PICK h \in holding[b] :
        /\ \/ /\ panic' = "closed channel"
              /\ UNCHANGED <<output, holding>>
           \/ /\ Len(output[h[1]]) < OutputCap
              /\ output' = [output EXCEPT ![h[1]] = Append(output[h[1]], h[2])]
              /\ holding' = [holding EXCEPT ![b] = {}]
              /\ UNCHANGED panic
        /\ UNCHANGED <<clientVars, requests, idx, dispatched, queue, nextId, outstanding,
                       sending, atBackend, fromBackend, backendUp>>
  BY DEF ForwardResponse
<1>2. /\ UNCHANGED <<sent, sock, reader, writer, delivered, requests, idx, dispatched, queue>>
      /\ UNCHANGED <<nextId, outstanding, sending, atBackend, fromBackend, backendUp>>
  BY <1>1 DEF clientVars
<1>3. CASE panic' = "closed channel" /\ UNCHANGED <<output, holding>>
  <2>1. TypeOK'
    BY <1>2, <1>3 DEF Tables, TypeOK
  <2> QED BY <1>2, <1>3, <2>1, SameMaps, SameRound, SameAnswers DEF Tables, NothingWrong
<1>4. CASE /\ Len(output[h[1]]) < OutputCap
           /\ output' = [output EXCEPT ![h[1]] = Append(output[h[1]], h[2])]
           /\ holding' = [holding EXCEPT ![b] = {}]
           /\ UNCHANGED panic
  <2> DEFINE c == h[1]
             t == Append(output[c], h[2])
  <2>1. /\ output \in [Clients -> Seq(Messages)]
        /\ holding \in [Backends -> SUBSET (Clients \X Messages)]
    BY DEF Tables, TypeOK
  <2>2. c \in Clients /\ h[2] \in Messages /\ h[2].body = <<c, h[2].id>> /\ output[c] \in Seq(Messages)
    BY <2>1 DEF Tables, IdsRestored
  <2>3. /\ t \in Seq(Messages) /\ Len(t) = Len(output[c]) + 1
        /\ \A i \in 1..Len(t) : (i \in 1..Len(output[c]) /\ t[i] = output[c][i]) \/ t[i] = h[2]
    BY <2>2, Appended
  <2>4. Len(t) <= OutputCap
    BY <1>4, <2>2, <2>3, CapsAssumption
  <2> HIDE DEF t
  <2>5. /\ output'[c] = t /\ \A d \in Clients : d # c => output'[d] = output[d]
        /\ holding'[b] = {} /\ \A d \in Backends : d # b => holding'[d] = holding[d]
    BY <1>4, <2>1, <2>2 DEF t
  <2>6. TypeOK'
    <3>1. output' \in [Clients -> Seq(Messages)]
      BY <1>4, <2>1, <2>2, <2>3 DEF t
    <3>2. holding' \in [Backends -> SUBSET (Clients \X Messages)]
      BY <1>4, <2>1
    <3>3. \A d \in Clients : Len(output'[d]) <= OutputCap
      BY <2>4, <2>5 DEF Tables, TypeOK
    <3> QED BY <1>2, <1>4, <3>1, <3>2, <3>3 DEF Tables, TypeOK
  <2>7. \A i \in 1..Len(t) : t[i].body = <<c, t[i].id>>
    BY <2>2, <2>3 DEF Tables, IdsRestored
  <2>8. IdsRestored' /\ HoldsOne' /\ RightAnswer'
    <3>1. \A d \in Clients : \A i \in 1..Len(output'[d]) : output'[d][i].body = <<d, output'[d][i].id>>
      BY <2>5, <2>7 DEF Tables, IdsRestored
    <3>2. \A d \in Backends : \A g \in holding'[d] : g \in holding[d]
      BY <2>5
    <3> QED BY <1>2, <3>1, <3>2 DEF Tables, IdsRestored, HoldsOne, RightAnswer
  <2> QED BY <1>2, <1>4, <2>6, <2>8, SameMaps, SameRound DEF Tables, NothingWrong
<1> QED BY <1>1, <1>3, <1>4

(* A response whose id is unknown is never decoded. *)
LEMMA TablesFailing ==
  ASSUME Tables, NEW b \in Backends, SendToBackendFails(b) \/ PanicWhatsWrong(b) \/ BackendLost(b)
  PROVE  Tables'
<1>1. /\ UNCHANGED <<sent, sock, reader, writer, delivered, output, requests, idx, dispatched, queue>>
      /\ UNCHANGED <<nextId, outstanding, sending, atBackend, fromBackend, holding>>
      /\ backendUp' \subseteq backendUp
  BY DEF SendToBackendFails, PanicWhatsWrong, BackendLost, clientVars, backendVars
<1>2. ASSUME fromBackend[b] # <<>> PROVE Head(fromBackend[b]).id \in DOMAIN outstanding[b]
  <2>1. fromBackend[b] \in Seq(Messages)
    BY DEF Tables, TypeOK
  <2>2. 1 \in 1..Len(fromBackend[b]) /\ Head(fromBackend[b]) = fromBackend[b][1]
    BY <1>2, <2>1, Removed
  <2> QED BY <2>2 DEF Tables, MapsMatch, InMap
<1>3. panic' = panic \/ panic' = "backend lost"
  BY <1>2 DEF SendToBackendFails, PanicWhatsWrong, BackendLost
<1>4. TypeOK'
  BY <1>1, <1>3 DEF Tables, TypeOK
<1> QED BY <1>1, <1>3, <1>4, SameMaps, SameRound, SameAnswers DEF Tables, NothingWrong

LEMMA TablesNext == Tables /\ [Next]_vars => Tables'
<1> SUFFICES ASSUME Tables, [Next]_vars PROVE Tables'
  OBVIOUS
<1>1. CASE UNCHANGED vars
  <2>1. /\ UNCHANGED <<sent, sock, reader, writer, delivered, output, requests, idx, dispatched, queue>>
        /\ UNCHANGED <<nextId, outstanding, sending, atBackend, fromBackend, holding, backendUp, panic>>
    BY <1>1 DEF vars, clientVars, backendVars
  <2>2. TypeOK'
    BY <2>1 DEF Tables, TypeOK
  <2> QED BY <2>1, <2>2, SameMaps, SameRound, SameAnswers DEF Tables, NothingWrong
<1>2. CASE Next
  BY <1>2, TablesReadRequest, TablesLeaving, TablesWriting, TablesDispatch, TablesRegisterRequest,
     TablesSendToBackend, TablesBackendAnswers, TablesTakeResponse, TablesForwardResponse, TablesFailing
  DEF Next, Writer, Sender, Receiver, Backend
<1> QED BY <1>1, <1>2

LEMMA TablesInvariance == Spec => []Tables
  BY TablesInit, TablesNext, PTL DEF Spec

(* go/balancer/main.go: each backend's map is what the backend was sent    *)
(* and has not answered, the dispatcher is fair to the backends, the panic *)
(* "What's wrong?" is unreachable while backends answer each request once, *)
(* and a client gets the answer to the request whose id the answer has.    *)
THEOREM TablesAreConsistent == Spec => []TablesConsistent
<1>1. ASSUME Tables PROVE TablesConsistent
  <2>1. MapMatchesBackend
    <3> SUFFICES ASSUME NEW b \in Backends
                 PROVE  {Message(i, outstanding[b][i]) : i \in DOMAIN outstanding[b]}
                          = sending[b] \cup atBackend[b] \cup ToSet(fromBackend[b])
      BY DEF MapMatchesBackend
    <3>1. /\ sending[b] \subseteq Messages /\ atBackend[b] \subseteq Messages
          /\ fromBackend[b] \in Seq(Messages)
          /\ \A i \in 1..Len(fromBackend[b]) : fromBackend[b][i] \in Messages
      BY <1>1, ElementFacts DEF Tables
    <3>2. ToSet(fromBackend[b]) = {fromBackend[b][i] : i \in 1..Len(fromBackend[b])}
      BY <3>1 DEF ToSet
    <3>3. ASSUME NEW m \in Messages, InMap(b, m) PROVE m = Message(m.id, outstanding[b][m.id])
      BY <3>3 DEF Messages, Message, InMap
    <3>4. \A m \in sending[b] \cup atBackend[b] \cup ToSet(fromBackend[b]) :
            m \in Messages /\ InMap(b, m)
      BY <1>1, <3>1, <3>2 DEF Tables, MapsMatch
    <3>5. \A i \in DOMAIN outstanding[b] :
            \E m \in sending[b] \cup atBackend[b] \cup ToSet(fromBackend[b]) : m.id = i
      BY <1>1, <3>2 DEF Tables, MapsMatch
    <3>6. \A m \in sending[b] \cup atBackend[b] \cup ToSet(fromBackend[b]) :
            m.id \in DOMAIN outstanding[b] /\ m = Message(m.id, outstanding[b][m.id])
      BY <3>3, <3>4 DEF InMap
    <3> QED BY <3>5, <3>6
  <2>2. RoundRobin
    <3>1. dispatched \in [Backends -> Nat] /\ dispatched[NumBackends - 1] \in Nat
      BY <1>1, BackendFacts DEF Tables, TypeOK
    <3> QED BY <1>1, <3>1 DEF Tables, Balanced, RoundRobin
  <2> QED BY <1>1, <2>1, <2>2 DEF Tables, TablesConsistent
<1> QED BY <1>1, TablesInvariance, PTL

-----------------------------------------------------------------------------
(* Channels without repetitions. *)
LEMMA OnceAppended ==
  ASSUME NEW S, NEW s \in Seq(S), NEW e \in S, NEW t, t = Append(s, e),
         \A i, j \in 1..Len(s) : s[i] = s[j] => i = j, \A i \in 1..Len(s) : s[i] # e
  PROVE  /\ \A i, j \in 1..Len(t) : t[i] = t[j] => i = j
         /\ \A q : (\E i \in 1..Len(t) : t[i] = q)
                     <=> (\E i \in 1..Len(s) : s[i] = q) \/ q = e
<1>1. /\ \A i \in 1..Len(t) : (i \in 1..Len(s) /\ t[i] = s[i]) \/ (i = Len(s) + 1 /\ t[i] = e)
      /\ \A i \in 1..Len(s) : i \in 1..Len(t) /\ t[i] = s[i]
      /\ Len(s) + 1 \in 1..Len(t) /\ t[Len(s) + 1] = e
  BY Appended
<1>2. \A i, j \in 1..Len(t) : t[i] = t[j] => i = j
  BY <1>1
<1>3. \A q : (\E i \in 1..Len(t) : t[i] = q) <=> (\E i \in 1..Len(s) : s[i] = q) \/ q = e
  BY <1>1
<1> QED BY <1>2, <1>3

LEMMA OnceRemoved ==
  ASSUME NEW S, NEW s \in Seq(S), NEW t, NEW e, s # <<>>, t = Tail(s), e = Head(s),
         \A i, j \in 1..Len(s) : s[i] = s[j] => i = j
  PROVE  /\ \A i, j \in 1..Len(t) : t[i] = t[j] => i = j
         /\ \A i \in 1..Len(t) : t[i] # e /\ \E j \in 1..Len(s) : s[j] = t[i]
         /\ \A i \in 1..Len(s) : s[i] # e => \E j \in 1..Len(t) : t[j] = s[i]
         /\ \E i \in 1..Len(s) : s[i] = e
<1>1. /\ 1 \in 1..Len(s) /\ Head(s) = s[1]
      /\ \A i \in 1..Len(t) : i + 1 \in 1..Len(s) /\ i + 1 # 1 /\ t[i] = s[i + 1]
      /\ \A i \in 1..Len(s) : i = 1 \/ (i - 1 \in 1..Len(t) /\ t[i - 1] = s[i])
      /\ \A i, j \in 1..Len(t) : i + 1 = j + 1 => i = j
  BY Removed
<1>2. ASSUME NEW i \in 1..Len(t), NEW j \in 1..Len(t), t[i] = t[j] PROVE i = j
  <2>1. i + 1 \in 1..Len(s) /\ j + 1 \in 1..Len(s) /\ s[i + 1] = s[j + 1]
    BY <1>1, <1>2
  <2> QED BY <1>1, <2>1
<1>3. ASSUME NEW i \in 1..Len(t) PROVE t[i] # Head(s) /\ \E j \in 1..Len(s) : s[j] = t[i]
  BY <1>1
<1>4. ASSUME NEW i \in 1..Len(s), s[i] # Head(s) PROVE \E j \in 1..Len(t) : t[j] = s[i]
  <2>1. i - 1 \in 1..Len(t) /\ t[i - 1] = s[i]
    BY <1>1, <1>4
  <2> QED BY <2>1
<1> QED BY <1>1, <1>2, <1>3, <1>4

(* The same for channels of messages, which are told apart by their body. *)
LEMMA BodyAppended ==
  ASSUME NEW S, NEW s \in Seq(S), NEW e \in S, NEW t, t = Append(s, e),
         \A i, j \in 1..Len(s) : s[i].body = s[j].body => i = j,
         \A i \in 1..Len(s) : s[i].body # e.body
  PROVE  /\ \A i, j \in 1..Len(t) : t[i].body = t[j].body => i = j
         /\ \A q : (\E i \in 1..Len(t) : t[i].body = q)
                     <=> (\E i \in 1..Len(s) : s[i].body = q) \/ q = e.body
<1>1. /\ \A i \in 1..Len(t) : (i \in 1..Len(s) /\ t[i] = s[i]) \/ (i = Len(s) + 1 /\ t[i] = e)
      /\ \A i \in 1..Len(s) : i \in 1..Len(t) /\ t[i] = s[i]
      /\ Len(s) + 1 \in 1..Len(t) /\ t[Len(s) + 1] = e
  BY Appended
<1>2. \A i, j \in 1..Len(t) : t[i].body = t[j].body => i = j
  BY <1>1
<1>3. \A q : (\E i \in 1..Len(t) : t[i].body = q) <=> (\E i \in 1..Len(s) : s[i].body = q) \/ q = e.body
  BY <1>1
<1> QED BY <1>2, <1>3

LEMMA BodyRemoved ==
  ASSUME NEW S, NEW s \in Seq(S), NEW t, s # <<>>, t = Tail(s),
         \A i, j \in 1..Len(s) : s[i].body = s[j].body => i = j
  PROVE  /\ \A i, j \in 1..Len(t) : t[i].body = t[j].body => i = j
         /\ \A q : (\E i \in 1..Len(t) : t[i].body = q)
                     <=> (\E i \in 1..Len(s) : s[i].body = q) /\ q # Head(s).body
         /\ \E i \in 1..Len(s) : s[i].body = Head(s).body
<1>1. /\ 1 \in 1..Len(s) /\ Head(s) = s[1]
      /\ \A i \in 1..Len(t) : i + 1 \in 1..Len(s) /\ i + 1 # 1 /\ t[i] = s[i + 1]
      /\ \A i \in 1..Len(s) : i = 1 \/ (i - 1 \in 1..Len(t) /\ t[i - 1] = s[i])
      /\ \A i, j \in 1..Len(t) : i + 1 = j + 1 => i = j
  BY Removed
<1>2. ASSUME NEW i \in 1..Len(t), NEW j \in 1..Len(t), t[i].body = t[j].body PROVE i = j
  <2>1. i + 1 \in 1..Len(s) /\ j + 1 \in 1..Len(s) /\ s[i + 1].body = s[j + 1].body
    BY <1>1, <1>2
  <2> QED BY <1>1, <2>1
<1>3. ASSUME NEW i \in 1..Len(t)
      PROVE  t[i].body # Head(s).body /\ \E j \in 1..Len(s) : s[j].body = t[i].body
  <2>1. i + 1 \in 1..Len(s) /\ i + 1 # 1 /\ t[i] = s[i + 1]
    BY <1>1
  <2>2. s[i + 1].body # s[1].body
    BY <1>1, <2>1
  <2> QED BY <1>1, <2>1, <2>2
<1>4. ASSUME NEW i \in 1..Len(s), s[i].body # Head(s).body PROVE \E j \in 1..Len(t) : t[j].body = s[i].body
  <2>1. i - 1 \in 1..Len(t) /\ t[i - 1] = s[i]
    BY <1>1, <1>4
  <2> QED BY <2>1
<1>5. ASSUME NEW q
      PROVE  (\E i \in 1..Len(t) : t[i].body = q)
               <=> (\E i \in 1..Len(s) : s[i].body = q) /\ q # Head(s).body
  <2>1. ASSUME NEW i \in 1..Len(t), t[i].body = q
        PROVE  (\E j \in 1..Len(s) : s[j].body = q) /\ q # Head(s).body
    BY <1>3, <2>1
  <2>2. ASSUME NEW i \in 1..Len(s), s[i].body = q, q # Head(s).body
        PROVE  \E j \in 1..Len(t) : t[j].body = q
    BY <1>4, <2>2
  <2> QED BY <2>1, <2>2
<1>6. \E i \in 1..Len(s) : s[i].body = Head(s).body
  BY <1>1
<1> QED BY <1>2, <1>5, <1>6

-----------------------------------------------------------------------------
(* The stages: initially, *)
LEMMA StagedInit == Init => Staged
<1> SUFFICES ASSUME Init PROVE Staged
  OBVIOUS
<1>1. /\ requests = <<>>
      /\ \A b \in Backends : queue[b] = <<>> /\ DOMAIN outstanding[b] = {} /\ holding[b] = {}
      /\ \A c \in Clients : output[c] = <<>>
  BY DEF Init
<1>2. NoRepeats
  BY <1>1 DEF NoRepeats
<1>3. ASSUME NEW r \in AllRequests PROVE OneStage(r)
  <2>1. r[1] \in Clients
    BY RequestFacts
  <2>2. ~Asked(r) /\ ~Answered(r)
    BY <1>1, <2>1 DEF Asked, Answered
  <2>3. \A b \in Backends : ~At(b, r)
    BY <1>1 DEF At, Queued, Mapped, Held
  <2> QED BY <2>2, <2>3 DEF OneStage, Somewhere, At
<1> QED BY <1>2, <1>3 DEF Staged

(* in steps that move no request to another stage, *)
LEMMA SameStages ==
  ASSUME Staged, UNCHANGED <<requests, queue, outstanding, holding, output, sent>>
  PROVE  Staged' /\ \A q \in AllRequests : Somewhere(q)' <=> Somewhere(q)
<1>1. NoRepeats'
  BY DEF Staged, NoRepeats
<1>2. ASSUME NEW q \in AllRequests
      PROVE  /\ Asked(q)' <=> Asked(q)
             /\ Answered(q)' <=> Answered(q)
             /\ \A b \in Backends : /\ Queued(b, q)' <=> Queued(b, q)
                                    /\ Mapped(b, q)' <=> Mapped(b, q)
                                    /\ Held(b, q)' <=> Held(b, q)
  BY DEF Asked, Answered, Queued, Mapped, Held
<1>3. ASSUME NEW q \in AllRequests PROVE OneStage(q)' /\ (Somewhere(q)' <=> Somewhere(q))
  BY <1>2 DEF Staged, OneStage, Somewhere, At
<1> QED BY <1>1, <1>3 DEF Staged

(* at a client's reader, *)
LEMMA StagedReadRequest ==
  ASSUME IndInv, NEW c \in Clients, ReadRequest(c)
  PROVE  /\ Staged' /\ ~Somewhere(<<c, sent[c] + 1>>)
         /\ \A q \in AllRequests : Somewhere(q)' <=> Somewhere(q) \/ q = <<c, sent[c] + 1>>
<1> DEFINE r == <<c, sent[c] + 1>>
<1>1. /\ sent[c] < MaxRequests[c]
      /\ sent' = [sent EXCEPT ![c] = sent[c] + 1]
      /\ requests' = Append(requests, r)
      /\ UNCHANGED <<queue, outstanding, holding, output>>
  BY DEF ReadRequest, backendVars
<1>2. sent \in [Clients -> Nat] /\ MaxRequests[c] \in Nat /\ requests \in Seq(AllRequests)
  BY BoundAssumption DEF IndInv, Tables, TypeOK
<1>3. sent[c] + 1 \in 1..MaxRequests[c] /\ r \in AllRequests /\ r[1] = c /\ r[2] = sent[c] + 1
  BY <1>1, <1>2, RequestFacts
<1> HIDE DEF r
<1>4. ~Somewhere(r)
  <2>1. OneStage(r) /\ sent[c] \in Nat
    BY <1>2, <1>3 DEF IndInv, Staged
  <2>2. Somewhere(r) => r[2] <= sent[r[1]]
    BY <2>1 DEF OneStage
  <2> QED BY <1>3, <2>1, <2>2
<1>5. /\ \A i, j \in 1..Len(requests') : requests'[i] = requests'[j] => i = j
      /\ \A q : (\E i \in 1..Len(requests') : requests'[i] = q)
                  <=> (\E i \in 1..Len(requests) : requests[i] = q) \/ q = r
  <2>1. /\ \A i, j \in 1..Len(requests) : requests[i] = requests[j] => i = j
        /\ \A i \in 1..Len(requests) : requests[i] # r
    BY <1>4 DEF IndInv, Staged, NoRepeats, Somewhere, Asked
  <2>2. requests \in Seq(AllRequests) /\ r \in AllRequests /\ requests' = Append(requests, r)
    BY <1>1, <1>2, <1>3
  <2> DEFINE t == requests'
  <2>3. t = Append(requests, r)
    BY <2>2
  <2> HIDE DEF t
  <2>4. /\ \A i, j \in 1..Len(t) : t[i] = t[j] => i = j
        /\ \A q : (\E i \in 1..Len(t) : t[i] = q)
                    <=> (\E i \in 1..Len(requests) : requests[i] = q) \/ q = r
    BY <2>1, <2>2, <2>3, OnceAppended, SMTT(40)
  <2> QED BY <2>4 DEF t
<1>6. NoRepeats'
  <2>1. NoRepeats
    BY DEF IndInv, Staged
  <2>2. UNCHANGED queue /\ UNCHANGED outstanding /\ UNCHANGED output
    BY <1>1
  <2>3. \A i, j \in 1..Len(requests') : requests'[i] = requests'[j] => i = j
    BY <1>5
  <2> QED BY <2>1, <2>2, <2>3 DEF NoRepeats
<1>7. ASSUME NEW q \in AllRequests
      PROVE  /\ Asked(q)' <=> Asked(q) \/ q = r
             /\ Answered(q)' <=> Answered(q)
             /\ \A b \in Backends : /\ Queued(b, q)' <=> Queued(b, q)
                                    /\ Mapped(b, q)' <=> Mapped(b, q)
                                    /\ Held(b, q)' <=> Held(b, q)
             /\ sent[q[1]] <= sent'[q[1]]
             /\ q = r => q[2] <= sent'[q[1]]
  <2>1. Asked(q)' <=> Asked(q) \/ q = r
    BY <1>5 DEF Asked
  <2>2. /\ Answered(q)' <=> Answered(q)
        /\ \A b \in Backends : /\ Queued(b, q)' <=> Queued(b, q)
                               /\ Mapped(b, q)' <=> Mapped(b, q)
                               /\ Held(b, q)' <=> Held(b, q)
    BY <1>1 DEF Answered, Queued, Mapped, Held
  <2>3. q[1] \in Clients
    BY RequestFacts
  <2>4. sent[q[1]] <= sent'[q[1]]
    BY <1>1, <1>2, <2>3
  <2>5. q = r => q[2] <= sent'[q[1]]
    BY <1>1, <1>2, <1>3
  <2> QED BY <2>1, <2>2, <2>4, <2>5
<1>8. ASSUME NEW q \in AllRequests PROVE OneStage(q)' /\ (Somewhere(q)' <=> Somewhere(q) \/ q = r)
  <2>1. OneStage(q)
    BY DEF IndInv, Staged
  <2>2. Somewhere(q)' <=> Somewhere(q) \/ q = r
    BY <1>7 DEF Somewhere, At
  <2>3. Somewhere(q)' => q[2] <= sent'[q[1]]
    <3>1. q[1] \in Clients /\ q[2] \in Nat
      BY RequestFacts
    <3>2. sent[q[1]] \in Nat /\ sent'[q[1]] \in Nat
      BY <1>1, <1>2, <3>1
    <3>3. Somewhere(q) => q[2] <= sent[q[1]]
      BY <2>1 DEF OneStage
    <3> QED BY <1>7, <2>2, <3>1, <3>2, <3>3
  <2>4. CASE q = r
    BY <1>4, <1>7, <2>2, <2>3, <2>4 DEF OneStage, Somewhere, At
  <2>5. CASE q # r
    BY <1>7, <2>1, <2>2, <2>3, <2>5 DEF OneStage, At
  <2> QED BY <2>2, <2>4, <2>5
<1> QED BY <1>4, <1>6, <1>8 DEF Staged, r

(* at its writer, *)
LEMMA StagedWriting ==
  ASSUME IndInv, NEW c \in Clients, WriteResponse(c) \/ WriteFails(c)
  PROVE  /\ Staged'
         /\ Head(output[c]) \in Messages /\ Head(output[c]).body = <<c, Head(output[c]).id>>
         /\ Somewhere(Head(output[c]).body)
         /\ \A q \in AllRequests : Somewhere(q)' <=> Somewhere(q) /\ q # Head(output[c]).body
<1> DEFINE r == Head(output[c]).body
<1>1. /\ output[c] # <<>> /\ output' = [output EXCEPT ![c] = Tail(output[c])]
      /\ UNCHANGED <<sent, requests, queue, outstanding, holding>>
  BY DEF WriteResponse, WriteFails, backendVars
<1>2. output \in [Clients -> Seq(Messages)] /\ output[c] \in Seq(Messages)
  BY DEF IndInv, Tables, TypeOK
<1>3. /\ Head(output[c]) \in Messages /\ r = <<c, Head(output[c]).id>>
      /\ r \in AllRequests /\ r[1] = c
  <2>1. /\ Head(output[c]) \in Messages /\ 1 \in 1..Len(output[c]) /\ Head(output[c]) = output[c][1]
    BY <1>1, <1>2, Removed
  <2>2. r = <<c, Head(output[c]).id>>
    BY <2>1 DEF IndInv, Tables, IdsRestored
  <2> QED BY <2>1, <2>2 DEF Messages
<1>4. output'[c] = Tail(output[c]) /\ \A d \in Clients : d # c => output'[d] = output[d]
  BY <1>1, <1>2
<1>5. /\ \A i, j \in 1..Len(output'[c]) : output'[c][i].body = output'[c][j].body => i = j
      /\ \A q : (\E i \in 1..Len(output'[c]) : output'[c][i].body = q)
                  <=> (\E i \in 1..Len(output[c]) : output[c][i].body = q) /\ q # r
      /\ \E i \in 1..Len(output[c]) : output[c][i].body = r
  <2>1. \A i, j \in 1..Len(output[c]) : output[c][i].body = output[c][j].body => i = j
    BY DEF IndInv, Staged, NoRepeats
  <2>2. output[c] \in Seq(Messages) /\ output[c] # <<>> /\ output'[c] = Tail(output[c])
    BY <1>1, <1>2, <1>4
  <2> QED BY <2>1, <2>2, BodyRemoved, ZenonT(40)
<1> HIDE DEF r
<1>6. NoRepeats'
  <2>1. NoRepeats
    BY DEF IndInv, Staged
  <2>2. UNCHANGED requests /\ UNCHANGED queue /\ UNCHANGED outstanding
    BY <1>1
  <2>3. ASSUME NEW d \in Clients, NEW i \in 1..Len(output'[d]), NEW j \in 1..Len(output'[d]),
               output'[d][i].body = output'[d][j].body
        PROVE  i = j
    <3>1. CASE d = c
      BY <1>5, <2>3, <3>1
    <3>2. CASE d # c
      <4>1. output'[d] = output[d]
        BY <1>4, <3>2
      <4> QED BY <4>1, <2>1, <2>3 DEF NoRepeats
    <3> QED BY <3>1, <3>2
  <2> QED BY <2>1, <2>2, <2>3 DEF NoRepeats
<1>7. Answered(r)
  BY <1>3, <1>5 DEF Answered
<1>8. ASSUME NEW q \in AllRequests
      PROVE  /\ Asked(q)' <=> Asked(q)
             /\ Answered(q)' <=> Answered(q) /\ q # r
             /\ \A b \in Backends : /\ Queued(b, q)' <=> Queued(b, q)
                                    /\ Mapped(b, q)' <=> Mapped(b, q)
                                    /\ Held(b, q)' <=> Held(b, q)
  <2>1. q[1] \in Clients
    BY RequestFacts
  <2>2. Answered(q)' <=> Answered(q) /\ q # r
    <3>1. CASE q[1] = c
      <4>1. Answered(q)' <=> \E i \in 1..Len(output'[c]) : output'[c][i].body = q
        BY <3>1 DEF Answered
      <4>2. Answered(q) <=> \E i \in 1..Len(output[c]) : output[c][i].body = q
        BY <3>1 DEF Answered
      <4>3. (\E i \in 1..Len(output'[c]) : output'[c][i].body = q)
              <=> (\E i \in 1..Len(output[c]) : output[c][i].body = q) /\ q # r
        BY <1>5
      <4> QED BY <4>1, <4>2, <4>3
    <3>2. CASE q[1] # c
      <4>1. output'[q[1]] = output[q[1]] /\ q # r
        BY <1>3, <1>4, <2>1, <3>2
      <4> QED BY <4>1 DEF Answered
    <3> QED BY <3>1, <3>2
  <2> QED BY <1>1, <2>2 DEF Asked, Queued, Mapped, Held
<1>9. ASSUME NEW q \in AllRequests PROVE OneStage(q)' /\ (Somewhere(q)' <=> Somewhere(q) /\ q # r)
  <2>1. OneStage(q)
    BY DEF IndInv, Staged
  <2>2. CASE q = r
    BY <1>1, <1>7, <1>8, <2>1, <2>2 DEF OneStage, Somewhere, At
  <2>3. CASE q # r
    <3>1. Somewhere(q)' <=> Somewhere(q)
      BY <1>8, <2>3 DEF Somewhere, At
    <3> QED BY <1>1, <1>8, <2>1, <2>3, <3>1 DEF OneStage, At
  <2> QED BY <2>2, <2>3
<1>10. Somewhere(r)
  BY <1>7 DEF Somewhere
<1> QED BY <1>3, <1>6, <1>9, <1>10 DEF Staged, r

(* in the dispatcher, *)
LEMMA StagedDispatch ==
  ASSUME IndInv, Dispatch
  PROVE  Staged' /\ \A q \in AllRequests : Somewhere(q)' <=> Somewhere(q)
<1> DEFINE r == Head(requests)
<1>1. /\ requests # <<>>
      /\ queue' = [queue EXCEPT ![idx] = Append(queue[idx], r)]
      /\ requests' = Tail(requests)
      /\ UNCHANGED <<sent, outstanding, holding, output>>
  BY DEF Dispatch, clientVars, backendVars
<1>2. /\ requests \in Seq(AllRequests) /\ queue \in [Backends -> Seq(AllRequests)]
      /\ idx \in Backends /\ queue[idx] \in Seq(AllRequests)
  BY DEF IndInv, Tables, TypeOK
<1>3. r \in AllRequests
  BY <1>1, <1>2, Removed
<1>4. /\ \A i, j \in 1..Len(requests') : requests'[i] = requests'[j] => i = j
      /\ \A q : (\E i \in 1..Len(requests') : requests'[i] = q)
                  <=> (\E i \in 1..Len(requests) : requests[i] = q) /\ q # r
      /\ \E i \in 1..Len(requests) : requests[i] = r
  <2>1. \A i, j \in 1..Len(requests) : requests[i] = requests[j] => i = j
    BY DEF IndInv, Staged, NoRepeats
  <2>2. requests \in Seq(AllRequests) /\ requests # <<>> /\ requests' = Tail(requests) /\ r = Head(requests)
    BY <1>1, <1>2
  <2> HIDE DEF r
  <2>3. \A i, j \in 1..Len(requests') : requests'[i] = requests'[j] => i = j
    BY <2>1, <2>2, OnceRemoved
  <2>4. ASSUME NEW q
        PROVE  (\E i \in 1..Len(requests') : requests'[i] = q)
                 <=> (\E i \in 1..Len(requests) : requests[i] = q) /\ q # r
    <3>1. \A i \in 1..Len(requests') : requests'[i] # r /\ \E j \in 1..Len(requests) : requests[j] = requests'[i]
      BY <2>1, <2>2, OnceRemoved
    <3>2. \A i \in 1..Len(requests) : requests[i] # r => \E j \in 1..Len(requests') : requests'[j] = requests[i]
      <4>1. /\ 1 \in 1..Len(requests) /\ r = requests[1]
            /\ \A i \in 1..Len(requests) : i = 1 \/ (i - 1 \in 1..Len(requests') /\ requests'[i - 1] = requests[i])
        BY <2>2, Removed
      <4>2. ASSUME NEW i \in 1..Len(requests), requests[i] # r
            PROVE  \E j \in 1..Len(requests') : requests'[j] = requests[i]
        <5>1. i - 1 \in 1..Len(requests') /\ requests'[i - 1] = requests[i]
          BY <4>1, <4>2
        <5> QED BY <5>1
      <4> QED BY <4>2
    <3> QED BY <3>1, <3>2
  <2>5. \E i \in 1..Len(requests) : requests[i] = r
    BY <2>1, <2>2, OnceRemoved
  <2> QED BY <2>3, <2>4, <2>5
<1> HIDE DEF r
<1>5. Asked(r) /\ OneStage(r)
  BY <1>3, <1>4 DEF IndInv, Staged, Asked
<1>6. queue'[idx] = Append(queue[idx], r) /\ \A b \in Backends : b # idx => queue'[b] = queue[b]
  BY <1>1, <1>2
<1>7. /\ \A i, j \in 1..Len(queue'[idx]) : queue'[idx][i] = queue'[idx][j] => i = j
      /\ \A q : (\E i \in 1..Len(queue'[idx]) : queue'[idx][i] = q)
                  <=> (\E i \in 1..Len(queue[idx]) : queue[idx][i] = q) \/ q = r
  <2>1. \A i, j \in 1..Len(queue[idx]) : queue[idx][i] = queue[idx][j] => i = j
    BY <1>2 DEF IndInv, Staged, NoRepeats
  <2>2. \A i \in 1..Len(queue[idx]) : queue[idx][i] # r
    BY <1>2, <1>5 DEF OneStage, At, Queued
  <2> QED BY <1>2, <1>3, <1>6, <2>1, <2>2, OnceAppended
<1>8. NoRepeats'
  <2>1. \A b \in Backends : \A i, j \in 1..Len(queue'[b]) : queue'[b][i] = queue'[b][j] => i = j
    <3>1. ASSUME NEW b \in Backends, NEW i \in 1..Len(queue'[b]), NEW j \in 1..Len(queue'[b]),
                 queue'[b][i] = queue'[b][j]
          PROVE  i = j
      <4>1. CASE b = idx
        BY <1>7, <3>1, <4>1
      <4>2. CASE b # idx
        <5>1. queue'[b] = queue[b]
          BY <1>6, <4>2
        <5> QED BY <3>1, <5>1 DEF IndInv, Staged, NoRepeats
      <4> QED BY <4>1, <4>2
    <3> QED BY <3>1
  <2>2. NoRepeats
    BY DEF IndInv, Staged
  <2>3. UNCHANGED outstanding /\ UNCHANGED output
    BY <1>1
  <2>4. \A i, j \in 1..Len(requests') : requests'[i] = requests'[j] => i = j
    BY <1>4
  <2> QED BY <2>1, <2>2, <2>3, <2>4 DEF NoRepeats
<1>9. ASSUME NEW q \in AllRequests
      PROVE  /\ Asked(q)' <=> Asked(q) /\ q # r
             /\ Answered(q)' <=> Answered(q)
             /\ \A b \in Backends : /\ Queued(b, q)' <=> Queued(b, q) \/ (b = idx /\ q = r)
                                    /\ Mapped(b, q)' <=> Mapped(b, q)
                                    /\ Held(b, q)' <=> Held(b, q)
  <2>1. Asked(q)' <=> Asked(q) /\ q # r
    BY <1>4 DEF Asked
  <2>2. ASSUME NEW b \in Backends PROVE Queued(b, q)' <=> Queued(b, q) \/ (b = idx /\ q = r)
    <3>1. /\ Queued(b, q)' <=> \E i \in 1..Len(queue'[b]) : queue'[b][i] = q
          /\ Queued(b, q) <=> \E i \in 1..Len(queue[b]) : queue[b][i] = q
      BY DEF Queued
    <3>2. CASE b = idx
      <4>1. (\E i \in 1..Len(queue'[idx]) : queue'[idx][i] = q)
              <=> (\E i \in 1..Len(queue[idx]) : queue[idx][i] = q) \/ q = r
        BY <1>7
      <4> QED BY <3>1, <3>2, <4>1
    <3>3. CASE b # idx
      <4>1. queue'[b] = queue[b]
        BY <1>6, <3>3
      <4> QED BY <3>1, <3>3, <4>1
    <3> QED BY <3>2, <3>3
  <2> QED BY <1>1, <2>1, <2>2 DEF Answered, Mapped, Held
<1>10. ASSUME NEW q \in AllRequests PROVE OneStage(q)' /\ (Somewhere(q)' <=> Somewhere(q))
  <2>1. OneStage(q)
    BY DEF IndInv, Staged
  <2>2. Somewhere(q)' <=> Somewhere(q)
    <3>1. CASE q = r
      BY <1>2, <1>5, <1>9, <3>1 DEF Somewhere, At
    <3>2. CASE q # r
      BY <1>9, <3>2 DEF Somewhere, At
    <3> QED BY <3>1, <3>2
  <2>3. CASE q = r
    BY <1>1, <1>2, <1>5, <1>9, <2>1, <2>2, <2>3 DEF OneStage, At
  <2>4. CASE q # r
    BY <1>1, <1>9, <2>1, <2>2, <2>4 DEF OneStage, At
  <2> QED BY <2>2, <2>3, <2>4
<1> QED BY <1>8, <1>10 DEF Staged

(* at the sender to a backend, *)
LEMMA StagedRegisterRequest ==
  ASSUME IndInv, NEW b \in Backends, RegisterRequest(b)
  PROVE  Staged' /\ \A q \in AllRequests : Somewhere(q)' <=> Somewhere(q)
<1> DEFINE r == Head(queue[b])
           n == nextId[b]
<1>1. /\ queue[b] # <<>>
      /\ queue' = [queue EXCEPT ![b] = Tail(queue[b])]
      /\ outstanding' = [outstanding EXCEPT ![b] = WithEntry(outstanding[b], n, r)]
      /\ UNCHANGED <<sent, requests, holding, output>>
  BY DEF RegisterRequest, clientVars
<1>2. /\ queue \in [Backends -> Seq(AllRequests)] /\ queue[b] \in Seq(AllRequests)
      /\ DOMAIN outstanding = Backends /\ n \in Nat
      /\ \A i \in DOMAIN outstanding[b] : i \in Nat /\ i < n
  BY DEF IndInv, Tables, TypeOK, IdsIssued
<1>3. r \in AllRequests
  BY <1>1, <1>2, Removed
<1>4. queue'[b] = Tail(queue[b]) /\ \A d \in Backends : d # b => queue'[d] = queue[d]
  BY <1>1, <1>2
<1>5. /\ \A i, j \in 1..Len(queue'[b]) : queue'[b][i] = queue'[b][j] => i = j
      /\ \A q : (\E i \in 1..Len(queue'[b]) : queue'[b][i] = q)
                  <=> (\E i \in 1..Len(queue[b]) : queue[b][i] = q) /\ q # r
      /\ \E i \in 1..Len(queue[b]) : queue[b][i] = r
  <2>1. \A i, j \in 1..Len(queue[b]) : queue[b][i] = queue[b][j] => i = j
    BY DEF IndInv, Staged, NoRepeats
  <2>2. queue[b] \in Seq(AllRequests) /\ queue[b] # <<>> /\ queue'[b] = Tail(queue[b]) /\ r = Head(queue[b])
    BY <1>1, <1>2, <1>4
  <2> HIDE DEF r
  <2>3. \A i, j \in 1..Len(queue'[b]) : queue'[b][i] = queue'[b][j] => i = j
    BY <2>1, <2>2, OnceRemoved
  <2>4. ASSUME NEW q
        PROVE  (\E i \in 1..Len(queue'[b]) : queue'[b][i] = q)
                 <=> (\E i \in 1..Len(queue[b]) : queue[b][i] = q) /\ q # r
    <3>1. \A i \in 1..Len(queue'[b]) : queue'[b][i] # r /\ \E j \in 1..Len(queue[b]) : queue[b][j] = queue'[b][i]
      BY <2>1, <2>2, OnceRemoved
    <3>2. \A i \in 1..Len(queue[b]) : queue[b][i] # r => \E j \in 1..Len(queue'[b]) : queue'[b][j] = queue[b][i]
      BY <2>1, <2>2, OnceRemoved
    <3> QED BY <3>1, <3>2
  <2>5. \E i \in 1..Len(queue[b]) : queue[b][i] = r
    BY <2>1, <2>2, OnceRemoved
  <2> QED BY <2>3, <2>4, <2>5
<1> HIDE DEF r, n
<1>6. Queued(b, r) /\ OneStage(r)
  BY <1>3, <1>5 DEF IndInv, Staged, Queued
<1>7. /\ DOMAIN outstanding'[b] = DOMAIN outstanding[b] \cup {n}
      /\ outstanding'[b][n] = r /\ n \notin DOMAIN outstanding[b]
      /\ \A i \in DOMAIN outstanding[b] : outstanding'[b][i] = outstanding[b][i]
      /\ \A d \in Backends : d # b => outstanding'[d] = outstanding[d]
  <2>1. n \notin DOMAIN outstanding[b]
    BY <1>2
  <2>2. outstanding'[b] = WithEntry(outstanding[b], n, r)
    BY <1>1, <1>2
  <2>3. \A d \in Backends : d # b => outstanding'[d] = outstanding[d]
    BY <1>1, <1>2
  <2> QED BY <2>1, <2>2, <2>3 DEF WithEntry
<1>8. \A i \in DOMAIN outstanding[b] : outstanding[b][i] # r
  BY <1>6 DEF OneStage, Mapped
<1>9. NoRepeats'
  <2>1. \A d \in Backends : \A i, j \in 1..Len(queue'[d]) : queue'[d][i] = queue'[d][j] => i = j
    <3>1. ASSUME NEW d \in Backends, NEW i \in 1..Len(queue'[d]), NEW j \in 1..Len(queue'[d]),
                 queue'[d][i] = queue'[d][j]
          PROVE  i = j
      <4>1. CASE d = b
        BY <1>5, <3>1, <4>1
      <4>2. CASE d # b
        <5>1. queue'[d] = queue[d]
          BY <1>4, <4>2
        <5> QED BY <3>1, <5>1 DEF IndInv, Staged, NoRepeats
      <4> QED BY <4>1, <4>2
    <3> QED BY <3>1
  <2>2. ASSUME NEW d \in Backends, NEW i \in DOMAIN outstanding'[d], NEW j \in DOMAIN outstanding'[d],
               outstanding'[d][i] = outstanding'[d][j]
        PROVE  i = j
    <3>1. CASE d = b
      BY <1>7, <1>8, <2>2, <3>1 DEF IndInv, Staged, NoRepeats
    <3>2. CASE d # b
      BY <1>7, <2>2, <3>2 DEF IndInv, Staged, NoRepeats
    <3> QED BY <3>1, <3>2
  <2> QED BY <1>1, <2>1, <2>2 DEF IndInv, Staged, NoRepeats
<1>10. ASSUME NEW q \in AllRequests
       PROVE  /\ Asked(q)' <=> Asked(q)
              /\ Answered(q)' <=> Answered(q)
              /\ \A d \in Backends : /\ Queued(d, q)' <=> Queued(d, q) /\ ~(d = b /\ q = r)
                                     /\ Mapped(d, q)' <=> Mapped(d, q) \/ (d = b /\ q = r)
                                     /\ Held(d, q)' <=> Held(d, q)
  <2>1. ASSUME NEW d \in Backends PROVE Queued(d, q)' <=> Queued(d, q) /\ ~(d = b /\ q = r)
    <3>1. /\ Queued(d, q)' <=> \E i \in 1..Len(queue'[d]) : queue'[d][i] = q
          /\ Queued(d, q) <=> \E i \in 1..Len(queue[d]) : queue[d][i] = q
      BY DEF Queued
    <3>2. CASE d = b
      <4>1. (\E i \in 1..Len(queue'[b]) : queue'[b][i] = q)
              <=> (\E i \in 1..Len(queue[b]) : queue[b][i] = q) /\ q # r
        BY <1>5
      <4> QED BY <3>1, <3>2, <4>1
    <3>3. CASE d # b
      <4>1. queue'[d] = queue[d]
        BY <1>4, <3>3
      <4> QED BY <3>1, <3>3, <4>1
    <3> QED BY <3>2, <3>3
  <2>2. ASSUME NEW d \in Backends PROVE Mapped(d, q)' <=> Mapped(d, q) \/ (d = b /\ q = r)
    <3>1. /\ Mapped(d, q)' <=> \E i \in DOMAIN outstanding'[d] : outstanding'[d][i] = q
          /\ Mapped(d, q) <=> \E i \in DOMAIN outstanding[d] : outstanding[d][i] = q
      BY DEF Mapped
    <3>2. CASE d = b
      BY <1>7, <3>1, <3>2
    <3>3. CASE d # b
      BY <1>7, <3>1, <3>3
    <3> QED BY <3>2, <3>3
  <2> QED BY <1>1, <2>1, <2>2 DEF Asked, Answered, Held
<1>11. ASSUME NEW q \in AllRequests PROVE OneStage(q)' /\ (Somewhere(q)' <=> Somewhere(q))
  <2>1. OneStage(q)
    BY DEF IndInv, Staged
  <2>2. Somewhere(q)' <=> Somewhere(q)
    <3>1. CASE q = r
      BY <1>6, <1>10, <3>1 DEF Somewhere, At
    <3>2. CASE q # r
      BY <1>10, <3>2 DEF Somewhere, At
    <3> QED BY <3>1, <3>2
  <2>3. CASE q = r
    BY <1>1, <1>6, <1>10, <2>1, <2>2, <2>3 DEF OneStage, At
  <2>4. CASE q # r
    BY <1>1, <1>10, <2>1, <2>2, <2>4 DEF OneStage, At
  <2> QED BY <2>2, <2>3, <2>4
<1> QED BY <1>9, <1>11 DEF Staged

(* and at its receiver. *)
LEMMA StagedTakeResponse ==
  ASSUME IndInv, NEW b \in Backends, TakeResponse(b)
  PROVE  Staged' /\ \A q \in AllRequests : Somewhere(q)' <=> Somewhere(q)
<1> DEFINE m == Head(fromBackend[b])
           r == outstanding[b][m.id]
           h == <<r[1], Message(r[2], m.body)>>
<1>1. /\ holding[b] = {} /\ fromBackend[b] # <<>> /\ m.id \in DOMAIN outstanding[b]
      /\ outstanding' = [outstanding EXCEPT ![b] = WithoutEntry(outstanding[b], m.id)]
      /\ holding' = [holding EXCEPT ![b] = {h}]
      /\ UNCHANGED <<sent, output, requests, queue>>
  BY DEF TakeResponse, RestoreId, clientVars
<1>2. /\ holding \in [Backends -> SUBSET (Clients \X Messages)]
      /\ fromBackend[b] \in Seq(Messages) /\ DOMAIN outstanding = Backends
  BY DEF IndInv, Tables, TypeOK
<1>3. r \in AllRequests /\ m.body = r /\ h[2].body = r
  <2>1. r \in AllRequests
    BY <1>1 DEF IndInv, Tables, TypeOK
  <2>2. 1 \in 1..Len(fromBackend[b]) /\ m = fromBackend[b][1]
    BY <1>1, <1>2, Removed
  <2>3. InMap(b, fromBackend[b][1])
    BY <2>2 DEF IndInv, Tables, MapsMatch
  <2>4. m.body = r
    BY <2>2, <2>3 DEF InMap
  <2> QED BY <2>1, <2>4 DEF Message
<1>4. holding'[b] = {h} /\ \A d \in Backends : d # b => holding'[d] = holding[d]
  BY <1>1, <1>2
<1>5. /\ \A d \in Backends : d # b => outstanding'[d] = outstanding[d]
      /\ DOMAIN outstanding'[b] = DOMAIN outstanding[b] \ {m.id}
      /\ \A i \in DOMAIN outstanding'[b] : outstanding'[b][i] = outstanding[b][i]
  <2>1. outstanding'[b] = WithoutEntry(outstanding[b], m.id)
    BY <1>1, <1>2
  <2> QED BY <1>1, <1>2, <2>1 DEF WithoutEntry
<1>6. Mapped(b, r) /\ OneStage(r)
  BY <1>1, <1>3 DEF IndInv, Staged, Mapped
<1>7. \A i \in DOMAIN outstanding[b] : outstanding[b][i] = r <=> i = m.id
  BY <1>1 DEF IndInv, Staged, NoRepeats
<1> HIDE DEF m, r, h
<1>8. NoRepeats'
  <2>1. \A d \in Backends : \A i, j \in DOMAIN outstanding'[d] :
          outstanding'[d][i] = outstanding'[d][j] => i = j
    BY <1>5 DEF IndInv, Staged, NoRepeats
  <2> QED BY <1>1, <2>1 DEF IndInv, Staged, NoRepeats
<1>9. ASSUME NEW q \in AllRequests
      PROVE  /\ Asked(q)' <=> Asked(q)
             /\ Answered(q)' <=> Answered(q)
             /\ \A d \in Backends : /\ Queued(d, q)' <=> Queued(d, q)
                                    /\ Mapped(d, q)' <=> Mapped(d, q) /\ ~(d = b /\ q = r)
                                    /\ Held(d, q)' <=> Held(d, q) \/ (d = b /\ q = r)
  <2>1. ASSUME NEW d \in Backends PROVE Mapped(d, q)' <=> Mapped(d, q) /\ ~(d = b /\ q = r)
    <3>1. /\ Mapped(d, q)' <=> \E i \in DOMAIN outstanding'[d] : outstanding'[d][i] = q
          /\ Mapped(d, q) <=> \E i \in DOMAIN outstanding[d] : outstanding[d][i] = q
      BY DEF Mapped
    <3>2. CASE d = b
      BY <1>5, <1>7, <3>1, <3>2
    <3>3. CASE d # b
      BY <1>5, <3>1, <3>3
    <3> QED BY <3>2, <3>3
  <2>2. ASSUME NEW d \in Backends PROVE Held(d, q)' <=> Held(d, q) \/ (d = b /\ q = r)
    <3>1. /\ Held(d, q)' <=> \E x \in holding'[d] : x[2].body = q
          /\ Held(d, q) <=> \E x \in holding[d] : x[2].body = q
      BY DEF Held
    <3> QED BY <1>1, <1>3, <1>4, <3>1
  <2> QED BY <1>1, <2>1, <2>2 DEF Asked, Answered, Queued
<1>10. ASSUME NEW q \in AllRequests PROVE OneStage(q)' /\ (Somewhere(q)' <=> Somewhere(q))
  <2>1. OneStage(q)
    BY DEF IndInv, Staged
  <2>2. Somewhere(q)' <=> Somewhere(q)
    <3>1. CASE q = r
      BY <1>6, <1>9, <3>1 DEF Somewhere, At
    <3>2. CASE q # r
      BY <1>9, <3>2 DEF Somewhere, At
    <3> QED BY <3>1, <3>2
  <2>3. CASE q = r
    BY <1>1, <1>6, <1>9, <2>1, <2>2, <2>3 DEF OneStage, At
  <2>4. CASE q # r
    BY <1>1, <1>9, <2>1, <2>2, <2>4 DEF OneStage, At
  <2> QED BY <2>2, <2>3, <2>4
<1> QED BY <1>8, <1>10 DEF Staged

LEMMA StagedForwardResponse ==
  ASSUME IndInv, NEW b \in Backends, ForwardResponse(b)
  PROVE  Staged' /\ \A q \in AllRequests : Somewhere(q)' <=> Somewhere(q)
<1>1. PICK h \in holding[b] :
        /\ \/ UNCHANGED <<output, holding>>
           \/ /\ output' = [output EXCEPT ![h[1]] = Append(output[h[1]], h[2])]
              /\ holding' = [holding EXCEPT ![b] = {}]
        /\ UNCHANGED <<requests, queue, outstanding, sent>>
  BY DEF ForwardResponse, clientVars
<1>2. CASE UNCHANGED <<output, holding>>
  <2>1. UNCHANGED <<requests, queue, outstanding, holding, output, sent>> /\ Staged
    BY <1>1, <1>2 DEF IndInv
  <2> QED BY <2>1, SameStages
<1>3. CASE /\ output' = [output EXCEPT ![h[1]] = Append(output[h[1]], h[2])]
           /\ holding' = [holding EXCEPT ![b] = {}]
  <2> DEFINE c == h[1]
             r == h[2].body
  <2>1. /\ output \in [Clients -> Seq(Messages)]
        /\ holding \in [Backends -> SUBSET (Clients \X Messages)]
    BY DEF IndInv, Tables, TypeOK
  <2>2. /\ c \in Clients /\ h[2] \in Messages /\ r = <<c, h[2].id>> /\ r[1] = c /\ r \in AllRequests
        /\ output[c] \in Seq(Messages)
    <3>1. h \in Clients \X Messages
      BY <2>1
    <3>2. c \in Clients /\ h[2] \in Messages
      BY <3>1
    <3>3. r = <<c, h[2].id>>
      BY DEF IndInv, Tables, IdsRestored
    <3>4. r \in AllRequests
      BY <3>2 DEF Messages
    <3> QED BY <2>1, <3>2, <3>3, <3>4
  <2>3. \A g \in holding[b] : g = h
    BY DEF IndInv, Tables, HoldsOne
  <2> HIDE DEF c, r
  <2>4. /\ output'[c] = Append(output[c], h[2]) /\ \A d \in Clients : d # c => output'[d] = output[d]
        /\ holding'[b] = {} /\ \A d \in Backends : d # b => holding'[d] = holding[d]
    BY <1>3, <2>1, <2>2 DEF c
  <2>5. Held(b, r) /\ OneStage(r)
    BY <2>2 DEF IndInv, Staged, Held, r
  <2>6. /\ \A i, j \in 1..Len(output'[c]) : output'[c][i].body = output'[c][j].body => i = j
        /\ \A q : (\E i \in 1..Len(output'[c]) : output'[c][i].body = q)
                    <=> (\E i \in 1..Len(output[c]) : output[c][i].body = q) \/ q = r
    <3>1. \A i, j \in 1..Len(output[c]) : output[c][i].body = output[c][j].body => i = j
      BY <2>2 DEF IndInv, Staged, NoRepeats
    <3>2. \A i \in 1..Len(output[c]) : output[c][i].body # h[2].body
      <4>1. ~Answered(r)
        BY <2>5 DEF OneStage, At
      <4> QED BY <2>2, <4>1 DEF Answered, r
    <3>3. output[c] \in Seq(Messages) /\ h[2] \in Messages /\ output'[c] = Append(output[c], h[2])
      BY <2>2, <2>4
    <3> QED BY <3>1, <3>2, <3>3, BodyAppended DEF r
  <2>7. NoRepeats'
    <3>1. \A d \in Clients : \A i, j \in 1..Len(output'[d]) :
            output'[d][i].body = output'[d][j].body => i = j
      <4>1. \A d \in Clients : \A i, j \in 1..Len(output[d]) :
              output[d][i].body = output[d][j].body => i = j
        BY DEF IndInv, Staged, NoRepeats
      <4>2. ASSUME NEW d \in Clients, d # c
            PROVE  \A i, j \in 1..Len(output'[d]) : output'[d][i].body = output'[d][j].body => i = j
        BY <2>4, <4>1, <4>2
      <4> QED BY <2>6, <4>2
    <3> QED BY <1>1, <3>1 DEF IndInv, Staged, NoRepeats
  <2>8. ASSUME NEW q \in AllRequests
        PROVE  /\ Asked(q)' <=> Asked(q)
               /\ Answered(q)' <=> Answered(q) \/ q = r
               /\ \A d \in Backends : /\ Queued(d, q)' <=> Queued(d, q)
                                      /\ Mapped(d, q)' <=> Mapped(d, q)
                                      /\ Held(d, q)' <=> Held(d, q) /\ ~(d = b /\ q = r)
    <3>1. q[1] \in Clients
      BY RequestFacts
    <3>2. Answered(q)' <=> Answered(q) \/ q = r
      <4>1. CASE q[1] = c
        <5>1. /\ Answered(q)' <=> \E i \in 1..Len(output'[c]) : output'[c][i].body = q
              /\ Answered(q) <=> \E i \in 1..Len(output[c]) : output[c][i].body = q
          BY <4>1 DEF Answered
        <5> QED BY <2>6, <5>1
      <4>2. CASE q[1] # c
        <5>1. output'[q[1]] = output[q[1]] /\ q # r
          BY <2>2, <2>4, <3>1, <4>2
        <5> QED BY <5>1 DEF Answered
      <4> QED BY <4>1, <4>2
    <3>3. ASSUME NEW d \in Backends PROVE Held(d, q)' <=> Held(d, q) /\ ~(d = b /\ q = r)
      <4>1. /\ Held(d, q)' <=> \E x \in holding'[d] : x[2].body = q
            /\ Held(d, q) <=> \E x \in holding[d] : x[2].body = q
        BY DEF Held
      <4> QED BY <2>3, <2>4, <4>1 DEF r
    <3> QED BY <1>1, <3>2, <3>3 DEF Asked, Queued, Mapped
  <2>9. ASSUME NEW q \in AllRequests PROVE OneStage(q)' /\ (Somewhere(q)' <=> Somewhere(q))
    <3>1. OneStage(q)
      BY DEF IndInv, Staged
    <3>2. Somewhere(q)' <=> Somewhere(q)
      <4>1. CASE q = r
        BY <2>5, <2>8, <4>1 DEF Somewhere, At
      <4>2. CASE q # r
        BY <2>8, <4>2 DEF Somewhere, At
      <4> QED BY <4>1, <4>2
    <3>3. CASE q = r
      BY <1>1, <2>5, <2>8, <3>1, <3>2, <3>3 DEF OneStage, At
    <3>4. CASE q # r
      BY <1>1, <2>8, <3>1, <3>2, <3>4 DEF OneStage, At
    <3> QED BY <3>2, <3>3, <3>4
  <2> QED BY <2>7, <2>9 DEF Staged
<1> QED BY <1>1, <1>2, <1>3

(* A step is one of a client's reader or writer, which change what is on   *)
(* its way, or it leaves every request on its way there.                   *)
Elsewhere ==
  \/ Dispatch
  \/ \E c \in Clients : ReaderEnds(c) \/ ClientLeaves(c) \/ WriterEnds(c)
  \/ \E b \in Backends : Sender(b) \/ Backend(b) \/ BackendLost(b) \/ Receiver(b)

LEMMA NextCases ==
  Next => \/ Elsewhere
          \/ \E c \in Clients : ReadRequest(c)
          \/ \E c \in Clients : WriteResponse(c) \/ WriteFails(c)
  BY DEF Next, Writer, Elsewhere

LEMMA StagedElsewhere ==
  ASSUME IndInv, Elsewhere
  PROVE  Staged' /\ \A q \in AllRequests : Somewhere(q)' <=> Somewhere(q)
<1>1. CASE Dispatch
  BY <1>1, StagedDispatch
<1>2. ASSUME NEW c \in Clients, ReaderEnds(c) \/ ClientLeaves(c) \/ WriterEnds(c)
      PROVE  Staged' /\ \A q \in AllRequests : Somewhere(q)' <=> Somewhere(q)
  <2>1. UNCHANGED <<requests, queue, outstanding, holding, output, sent>> /\ Staged
    BY <1>2 DEF ReaderEnds, ClientLeaves, WriterEnds, backendVars, IndInv
  <2> QED BY <2>1, SameStages
<1>3. ASSUME NEW b \in Backends,
             SendToBackend(b) \/ SendToBackendFails(b) \/ Backend(b) \/ BackendLost(b) \/ PanicWhatsWrong(b)
      PROVE  Staged' /\ \A q \in AllRequests : Somewhere(q)' <=> Somewhere(q)
  <2>1. UNCHANGED <<requests, queue, outstanding, holding, output, sent>> /\ Staged
    BY <1>3 DEF SendToBackend, SendToBackendFails, Backend, BackendAnswers, BackendLost,
                PanicWhatsWrong, clientVars, backendVars, IndInv
  <2> QED BY <2>1, SameStages
<1>4. ASSUME NEW b \in Backends, RegisterRequest(b) \/ TakeResponse(b) \/ ForwardResponse(b)
      PROVE  Staged' /\ \A q \in AllRequests : Somewhere(q)' <=> Somewhere(q)
  BY <1>4, StagedRegisterRequest, StagedTakeResponse, StagedForwardResponse
<1> QED BY <1>1, <1>2, <1>3, <1>4 DEF Elsewhere, Sender, Receiver

LEMMA Invariance == Spec => []IndInv
<1>1. Init => IndInv
  BY TablesInit, StagedInit DEF IndInv
<1>2. IndInv /\ [Next]_vars => IndInv'
  <2> SUFFICES ASSUME IndInv, [Next]_vars PROVE Staged'
    BY TablesNext DEF IndInv
  <2>1. CASE UNCHANGED vars
    <3>1. UNCHANGED <<requests, queue, outstanding, holding, output, sent>> /\ Staged
      BY <2>1 DEF vars, clientVars, backendVars, IndInv
    <3> QED BY <3>1, SameStages
  <2>2. CASE Next
    BY <2>2, NextCases, StagedElsewhere, StagedReadRequest, StagedWriting
  <2> QED BY <2>1, <2>2
<1> QED BY <1>1, <1>2, PTL DEF Spec

-----------------------------------------------------------------------------
(* A place is a place of a stage. *)
LEMMA PlacesOfStages ==
  ASSUME NEW r, NEW p
  PROVE  p \in Places(r)
           <=> \/ p \in AskedPlaces(r) \/ p \in AnsweredPlaces(r)
               \/ \E b \in Backends : \/ p \in QueuedPlaces(b, r)
                                      \/ p \in MappedPlaces(b, r) \/ p \in HeldPlaces(b, r)
  BY DEF Places

(* In its stage a request has exactly one place. *)
LEMMA OnePlaceMapped ==
  ASSUME IndInv, NEW r \in AllRequests, NEW b \in Backends
  PROVE  /\ Mapped(b, r) <=> \E p : p \in MappedPlaces(b, r)
         /\ \A p, q \in MappedPlaces(b, r) : p = q
<1>1. /\ sending[b] \subseteq Messages /\ atBackend[b] \subseteq Messages
      /\ \A i \in 1..Len(fromBackend[b]) : fromBackend[b][i] \in Messages
  BY ElementFacts DEF IndInv, Tables
<1>2. /\ \A m \in sending[b] : InMap(b, m)
      /\ \A m \in atBackend[b] : InMap(b, m)
      /\ \A i \in 1..Len(fromBackend[b]) : InMap(b, fromBackend[b][i])
      /\ \A i \in DOMAIN outstanding[b] :
           \/ \E m \in sending[b] : m.id = i
           \/ \E m \in atBackend[b] : m.id = i
           \/ \E j \in 1..Len(fromBackend[b]) : fromBackend[b][j].id = i
  BY DEF IndInv, Tables, MapsMatch
<1>3. \A i, j \in DOMAIN outstanding[b] : outstanding[b][i] = outstanding[b][j] => i = j
  BY DEF IndInv, Staged, NoRepeats
<1>4. \A m, n : InMap(b, m) /\ InMap(b, n) /\ m.body = r /\ n.body = r => m.id = n.id
  BY <1>3 DEF InMap
<1>5. \A m, n \in Messages : m.id = n.id /\ m.body = n.body => m = n
  BY DEF Messages
<1>6. /\ \A m \in sending[b], n \in atBackend[b] : m.id # n.id
      /\ \A m \in sending[b] : \A i \in 1..Len(fromBackend[b]) : fromBackend[b][i].id # m.id
      /\ \A m \in atBackend[b] : \A i \in 1..Len(fromBackend[b]) : fromBackend[b][i].id # m.id
      /\ \A i, j \in 1..Len(fromBackend[b]) : fromBackend[b][i].id = fromBackend[b][j].id => i = j
  BY DEF IndInv, Tables, IdsDistinct
<1>7. ASSUME NEW p \in MappedPlaces(b, r)
      PROVE  \/ \E m \in sending[b] : p = <<"sending", b, m>> /\ m.body = r
             \/ \E m \in atBackend[b] : p = <<"atBackend", b, m>> /\ m.body = r
             \/ \E i \in 1..Len(fromBackend[b]) :
                  p = <<"fromBackend", b, i>> /\ fromBackend[b][i].body = r
  BY DEF MappedPlaces
<1>8. ASSUME NEW p \in MappedPlaces(b, r) PROVE Mapped(b, r)
  BY <1>2, <1>7 DEF InMap, Mapped
<1>9. ASSUME Mapped(b, r) PROVE \E p : p \in MappedPlaces(b, r)
  <2>1. PICK i \in DOMAIN outstanding[b] : outstanding[b][i] = r
    BY <1>9 DEF Mapped
  <2>2. CASE \E m \in sending[b] : m.id = i
    <3>1. PICK m \in sending[b] : m.id = i
      BY <2>2
    <3>2. m.body = r
      BY <1>2, <2>1, <3>1 DEF InMap
    <3>3. <<"sending", b, m>> \in MappedPlaces(b, r)
      BY <3>1, <3>2 DEF MappedPlaces
    <3> QED BY <3>3
  <2>3. CASE \E m \in atBackend[b] : m.id = i
    <3>1. PICK m \in atBackend[b] : m.id = i
      BY <2>3
    <3>2. m.body = r
      BY <1>2, <2>1, <3>1 DEF InMap
    <3>3. <<"atBackend", b, m>> \in MappedPlaces(b, r)
      BY <3>1, <3>2 DEF MappedPlaces
    <3> QED BY <3>3
  <2>4. CASE \E j \in 1..Len(fromBackend[b]) : fromBackend[b][j].id = i
    <3>1. PICK j \in 1..Len(fromBackend[b]) : fromBackend[b][j].id = i
      BY <2>4
    <3>2. fromBackend[b][j].body = r
      BY <1>2, <2>1, <3>1 DEF InMap
    <3>3. <<"fromBackend", b, j>> \in MappedPlaces(b, r)
      BY <3>1, <3>2 DEF MappedPlaces
    <3> QED BY <3>3
  <2> QED BY <1>2, <2>1, <2>2, <2>3, <2>4
<1>10. ASSUME NEW p \in MappedPlaces(b, r), NEW q \in MappedPlaces(b, r) PROVE p = q
  <2>1. CASE \E m \in sending[b] : p = <<"sending", b, m>> /\ m.body = r
    <3>1. PICK m \in sending[b] : p = <<"sending", b, m>> /\ m.body = r
      BY <2>1
    <3>2. \A n \in sending[b] : n.body = r => n = m
      BY <1>1, <1>2, <1>4, <1>5, <3>1
    <3>3. \A n \in atBackend[b] : n.body # r
      BY <1>2, <1>4, <1>6, <3>1
    <3>4. \A i \in 1..Len(fromBackend[b]) : fromBackend[b][i].body # r
      BY <1>2, <1>4, <1>6, <3>1
    <3> QED BY <1>7, <3>1, <3>2, <3>3, <3>4
  <2>2. CASE \E m \in atBackend[b] : p = <<"atBackend", b, m>> /\ m.body = r
    <3>1. PICK m \in atBackend[b] : p = <<"atBackend", b, m>> /\ m.body = r
      BY <2>2
    <3>2. \A n \in atBackend[b] : n.body = r => n = m
      BY <1>1, <1>2, <1>4, <1>5, <3>1
    <3>3. \A n \in sending[b] : n.body # r
      BY <1>2, <1>4, <1>6, <3>1
    <3>4. \A i \in 1..Len(fromBackend[b]) : fromBackend[b][i].body # r
      BY <1>2, <1>4, <1>6, <3>1
    <3> QED BY <1>7, <3>1, <3>2, <3>3, <3>4
  <2>3. CASE \E i \in 1..Len(fromBackend[b]) : p = <<"fromBackend", b, i>> /\ fromBackend[b][i].body = r
    <3>1. PICK i \in 1..Len(fromBackend[b]) : p = <<"fromBackend", b, i>> /\ fromBackend[b][i].body = r
      BY <2>3
    <3>2. \A j \in 1..Len(fromBackend[b]) : fromBackend[b][j].body = r => j = i
      BY <1>2, <1>4, <1>6, <3>1
    <3>3. \A n \in sending[b] : n.body # r
      BY <1>2, <1>4, <1>6, <3>1
    <3>4. \A n \in atBackend[b] : n.body # r
      BY <1>2, <1>4, <1>6, <3>1
    <3> QED BY <1>7, <3>1, <3>2, <3>3, <3>4
  <2> QED BY <1>7, <2>1, <2>2, <2>3
<1> QED BY <1>8, <1>9, <1>10

LEMMA OnePlace ==
  ASSUME IndInv, NEW r \in AllRequests
  PROVE  /\ Asked(r) <=> \E p : p \in AskedPlaces(r)
         /\ \A p, q \in AskedPlaces(r) : p = q
         /\ Answered(r) <=> \E p : p \in AnsweredPlaces(r)
         /\ \A p, q \in AnsweredPlaces(r) : p = q
         /\ \A b \in Backends :
              /\ Queued(b, r) <=> \E p : p \in QueuedPlaces(b, r)
              /\ \A p, q \in QueuedPlaces(b, r) : p = q
              /\ Mapped(b, r) <=> \E p : p \in MappedPlaces(b, r)
              /\ \A p, q \in MappedPlaces(b, r) : p = q
              /\ Held(b, r) <=> \E p : p \in HeldPlaces(b, r)
              /\ \A p, q \in HeldPlaces(b, r) : p = q
<1>1. Asked(r) <=> \E p : p \in AskedPlaces(r)
  BY DEF Asked, AskedPlaces
<1>2. \A p, q \in AskedPlaces(r) : p = q
  BY DEF IndInv, Staged, NoRepeats, AskedPlaces
<1>3. Answered(r) <=> \E p : p \in AnsweredPlaces(r)
  BY DEF Answered, AnsweredPlaces
<1>4. \A p, q \in AnsweredPlaces(r) : p = q
  <2>1. r[1] \in Clients
    BY RequestFacts
  <2>2. \A i, j \in 1..Len(output[r[1]]) : output[r[1]][i].body = output[r[1]][j].body => i = j
    BY <2>1 DEF IndInv, Staged, NoRepeats
  <2> QED BY <2>2 DEF AnsweredPlaces
<1>5. ASSUME NEW b \in Backends
      PROVE  /\ Queued(b, r) <=> \E p : p \in QueuedPlaces(b, r)
             /\ \A p, q \in QueuedPlaces(b, r) : p = q
  <2>1. \A i, j \in 1..Len(queue[b]) : queue[b][i] = queue[b][j] => i = j
    BY DEF IndInv, Staged, NoRepeats
  <2> QED BY <2>1 DEF Queued, QueuedPlaces
<1>6. ASSUME NEW b \in Backends
      PROVE  /\ Held(b, r) <=> \E p : p \in HeldPlaces(b, r)
             /\ \A p, q \in HeldPlaces(b, r) : p = q
  <2>1. \A g, h \in holding[b] : g = h
    BY DEF IndInv, Tables, HoldsOne
  <2> QED BY <2>1 DEF Held, HeldPlaces
<1> QED BY <1>1, <1>2, <1>3, <1>4, <1>5, <1>6, OnePlaceMapped

(* So a request is in one place while it is on its way, else in none. *)
Copies == \A r \in AllRequests : Cardinality(Places(r)) = IF Somewhere(r) THEN 1 ELSE 0

LEMMA CopiesCounted == IndInv => Copies
<1> SUFFICES ASSUME IndInv, NEW r \in AllRequests
             PROVE  Cardinality(Places(r)) = IF Somewhere(r) THEN 1 ELSE 0
  BY DEF Copies
<1>1. Somewhere(r) <=> \E p : p \in Places(r)
  BY OnePlace, PlacesOfStages DEF Somewhere, At
<1>2. OneStage(r)
  BY DEF IndInv, Staged
<1>3. ASSUME NEW p \in Places(r), NEW q \in Places(r) PROVE p = q
  <2>1. CASE Asked(r)
    <3>1. \A x \in Places(r) : x \in AskedPlaces(r)
      BY <1>2, <2>1, OnePlace, PlacesOfStages DEF OneStage, At
    <3> QED BY <3>1, OnePlace
  <2>2. CASE Answered(r)
    <3>1. \A x \in Places(r) : x \in AnsweredPlaces(r)
      BY <1>2, <2>2, OnePlace, PlacesOfStages DEF OneStage, At
    <3> QED BY <3>1, OnePlace
  <2>3. ASSUME NEW b \in Backends, Queued(b, r) PROVE p = q
    <3>1. \A x \in Places(r) : x \in QueuedPlaces(b, r)
      BY <1>2, <2>3, OnePlace, PlacesOfStages DEF OneStage, At
    <3> QED BY <3>1, OnePlace
  <2>4. ASSUME NEW b \in Backends, Mapped(b, r) PROVE p = q
    <3>1. \A x \in Places(r) : x \in MappedPlaces(b, r)
      BY <1>2, <2>4, OnePlace, PlacesOfStages DEF OneStage, At
    <3> QED BY <3>1, OnePlace
  <2>5. ASSUME NEW b \in Backends, Held(b, r) PROVE p = q
    <3>1. \A x \in Places(r) : x \in HeldPlaces(b, r)
      BY <1>2, <2>5, OnePlace, PlacesOfStages DEF OneStage, At
    <3> QED BY <3>1, OnePlace
  <2>6. Somewhere(r)
    BY <1>1
  <2> QED BY <2>1, <2>2, <2>3, <2>4, <2>5, <2>6 DEF Somewhere, At
<1>4. CASE Somewhere(r)
  <2>1. PICK p : p \in Places(r)
    BY <1>1, <1>4
  <2>2. Places(r) = {p}
    BY <1>3, <2>1
  <2>3. Cardinality({p}) = 1
    BY FS_Singleton
  <2> QED BY <1>4, <2>2, <2>3
<1>5. CASE ~Somewhere(r)
  <2>1. Places(r) = {}
    BY <1>1, <1>5
  <2>2. Cardinality({}) = 0
    BY FS_EmptySet
  <2> QED BY <1>5, <2>1, <2>2
<1> QED BY <1>4, <1>5

-----------------------------------------------------------------------------
(* What AbstractBalancer sees. *)
CopyCount == [r \in AllRequests |-> Cardinality(Places(r))]
Gone == {c \in Clients : sock[c] = "down"}

LEMMA CopyCountIs ==
  Copies => CopyCount = [r \in AllRequests |-> IF Somewhere(r) THEN 1 ELSE 0]
  BY DEF Copies, CopyCount

(* go/balancer/main.go does what AbstractBalancer promises: reading a      *)
(* request is Submit, writing a response Answer, or Drop when its client   *)
(* has gone, and no other step of the goroutines loses, copies or          *)
(* misdirects a request, whatever the capacities, clients and backends.    *)
THEOREM Refinement == Spec => ImplementsAbstractBalancer
<1>1. ASSUME Init, Copies, IndInv PROVE Abstract!Init
  <2>1. ASSUME NEW r \in AllRequests PROVE ~Somewhere(r)
    <3>1. r[1] \in Clients /\ r[2] \in Nat /\ r[2] \in 1..MaxRequests[r[1]]
      BY RequestFacts
    <3>2. sent[r[1]] = 0 /\ MaxRequests[r[1]] \in Nat
      BY <1>1, <3>1, BoundAssumption DEF Init
    <3>3. Somewhere(r) => r[2] <= sent[r[1]]
      BY <1>1 DEF IndInv, Staged, OneStage
    <3> QED BY <3>1, <3>2, <3>3
  <2>2. CopyCount = [r \in AllRequests |-> 0]
    BY <1>1, <2>1, CopyCountIs
  <2>3. Gone = {}
    BY <1>1 DEF Init, Gone
  <2> QED BY <1>1, <2>2, <2>3 DEF Init, Abstract!Init, Abstract!AllRequests, AllRequests, CopyCount, Gone
<1>2. ASSUME IndInv, Copies, Copies', [Next]_vars PROVE Abstract!Next \/ UNCHANGED Abstract!vars
  <2>1. /\ CopyCount = [r \in AllRequests |-> IF Somewhere(r) THEN 1 ELSE 0]
        /\ CopyCount' = [r \in AllRequests |-> IF Somewhere(r)' THEN 1 ELSE 0]
    BY <1>2 DEF Copies, CopyCount
  <2>2. sock \in [Clients -> {"up", "down"}]
    BY <1>2 DEF IndInv, Tables, TypeOK
  <2>3. ASSUME Elsewhere \/ UNCHANGED vars PROVE UNCHANGED <<sent, CopyCount, delivered>>
    <3>1. UNCHANGED <<sent, delivered>>
      BY <2>3, ZenonT(60) DEF Elsewhere, Dispatch, ReaderEnds, ClientLeaves, WriterEnds, Sender, RegisterRequest,
         SendToBackend, SendToBackendFails, Backend, BackendAnswers, BackendLost, Receiver,
         TakeResponse, PanicWhatsWrong, ForwardResponse, vars, clientVars
    <3>2. \A q \in AllRequests : Somewhere(q)' <=> Somewhere(q)
      <4>1. CASE Elsewhere
        BY <1>2, <4>1, StagedElsewhere
      <4>2. CASE UNCHANGED vars
        <5>1. UNCHANGED <<requests, queue, outstanding, holding, output, sent>> /\ Staged
          BY <1>2, <4>2 DEF vars, clientVars, backendVars, IndInv
        <5> QED BY <5>1, SameStages
      <4> QED BY <2>3, <4>1, <4>2
    <3> QED BY <2>1, <3>1, <3>2
  <2>4. ASSUME Elsewhere \/ UNCHANGED vars
        PROVE  Gone' = Gone \/ \E c \in Clients : Gone' = Gone \cup {c}
    <3>1. sock' = sock \/ \E c \in Clients : sock' = [sock EXCEPT ![c] = "down"]
      BY <2>4 DEF Elsewhere, Dispatch, ReaderEnds, ClientLeaves, WriterEnds, Sender, RegisterRequest,
         SendToBackend, SendToBackendFails, Backend, BackendAnswers, BackendLost, Receiver,
         TakeResponse, PanicWhatsWrong, ForwardResponse, vars, clientVars
    <3>2. ASSUME NEW c \in Clients, sock' = [sock EXCEPT ![c] = "down"] PROVE Gone' = Gone \cup {c}
      BY <2>2, <3>2 DEF Gone
    <3> QED BY <3>1, <3>2 DEF Gone
  <2>5. CASE Elsewhere \/ UNCHANGED vars
    BY <2>3, <2>4, <2>5 DEF Abstract!Next, Abstract!Leave, Abstract!vars, CopyCount, Gone
  <2>6. ASSUME NEW c \in Clients, ReadRequest(c) PROVE Abstract!Submit(c)
    <3>1. /\ sock[c] = "up" /\ sent[c] < MaxRequests[c] /\ sent' = [sent EXCEPT ![c] = sent[c] + 1]
          /\ UNCHANGED <<delivered, sock>>
      BY <2>6 DEF ReadRequest
    <3>2. \A q \in AllRequests : Somewhere(q)' <=> Somewhere(q) \/ q = <<c, sent[c] + 1>>
      BY <1>2, <2>6, StagedReadRequest
    <3>3. CopyCount' = [CopyCount EXCEPT ![<<c, sent[c] + 1>>] = 1]
      BY <2>1, <3>2
    <3>4. c \notin Gone /\ Gone' = Gone
      BY <3>1 DEF Gone
    <3> QED BY <3>1, <3>3, <3>4 DEF Abstract!Submit, CopyCount, Gone
  <2>7. ASSUME NEW c \in Clients, WriteResponse(c) \/ WriteFails(c)
        PROVE  \E r \in AllRequests : Abstract!Answer(r) \/ Abstract!Drop(r)
    <3> DEFINE m == Head(output[c])
               r == m.body
    <3>1. /\ m \in Messages /\ r = <<c, m.id>> /\ Somewhere(r)
          /\ \A q \in AllRequests : Somewhere(q)' <=> Somewhere(q) /\ q # r
      BY <1>2, <2>7, StagedWriting
    <3>2. r \in AllRequests /\ r[1] = c /\ r[2] = m.id /\ m = [id |-> r[2], body |-> r]
      BY <3>1 DEF Messages
    <3>3. UNCHANGED <<sent, sock>>
      BY <2>7 DEF WriteResponse, WriteFails
    <3>4. \/ sock[c] = "up" /\ delivered' = [delivered EXCEPT ![c] = Append(delivered[c], m)]
          \/ sock[c] = "down" /\ delivered' = delivered
      BY <2>2, <2>7 DEF WriteResponse, WriteFails
    <3> HIDE DEF m, r
    <3>5. CopyCount[r] = 1 /\ CopyCount' = [CopyCount EXCEPT ![r] = 0]
      BY <2>1, <3>1, <3>2
    <3>6. Gone' = Gone /\ (c \in Gone <=> sock[c] = "down")
      BY <3>3 DEF Gone
    <3>7. CASE sock[c] = "up" /\ delivered' = [delivered EXCEPT ![c] = Append(delivered[c], m)]
      <4>1. Abstract!Answer(r)
        BY <3>2, <3>3, <3>5, <3>6, <3>7 DEF Abstract!Answer, CopyCount, Gone
      <4> QED BY <3>2, <4>1
    <3>8. CASE sock[c] = "down" /\ delivered' = delivered
      <4>1. Abstract!Drop(r)
        BY <3>2, <3>3, <3>5, <3>6, <3>8 DEF Abstract!Drop, CopyCount, Gone
      <4> QED BY <3>2, <4>1
    <3> QED BY <3>4, <3>7, <3>8
  <2>8. Abstract!AllRequests = AllRequests
    BY DEF Abstract!AllRequests, AllRequests
  <2>9. CASE Next
    BY <2>5, <2>6, <2>7, <2>8, <2>9, NextCases DEF Abstract!Next
  <2> QED BY <1>2, <2>5, <2>9
<1> QED BY <1>1, <1>2, Invariance, CopiesCounted, PTL DEF Spec, ImplementsAbstractBalancer, Abstract!Spec
=============================================================================
