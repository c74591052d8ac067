------------------------------ MODULE Balancer ------------------------------
(***************************************************************************)
(* go/balancer/main.go: clients' requests go through one queue and a       *)
(* round-robin dispatcher to the queues of the backends; every backend     *)
(* connection renumbers them, and its reader gives a response its original *)
(* id back and puts it on the output channel of the client.                *)
(*                                                                         *)
(* Every goroutine is a few actions: one step lies between two operations  *)
(* on a channel, a map or a socket.  A request is <<c, i>>, the i-th of    *)
(* client c; clients number their requests independently, so their ids     *)
(* collide.  The body of a message is the request it comes from.           *)
(***************************************************************************)
EXTENDS Naturals, Sequences, SequencesExt, FiniteSets

CONSTANTS
  Clients,       \* connections accepted by the balancer
  NumBackends,   \* connections to backends, as given by -b
  MaxRequests,   \* bound: MaxRequests[c] requests are sent by client c
  RequestsCap,   \* capacity of balancer.requests (1024 in the code)
  BackendCap,    \* capacity of backendConn.requests (10)
  OutputCap,     \* capacity of a client's output channel (10)
  FirstId,       \* first id used towards a backend (100)
  MaxFaults      \* bound: clients that go away, backends that are lost

ASSUME BackendsAssumption == NumBackends \in Nat \ {0}
ASSUME CapsAssumption ==
  RequestsCap \in Nat \ {0} /\ BackendCap \in Nat \ {0} /\ OutputCap \in Nat \ {0}
ASSUME BoundAssumption ==
  MaxRequests \in [Clients -> Nat] /\ FirstId \in Nat /\ MaxFaults \in Nat

VARIABLES
  sent,         \* sent[c]: requests client c has sent and the reader decoded
  sock,         \* sock[c]: the connection of client c
  reader,       \* reader[c]: ServeConn, "ended" once it closed output
  writer,       \* writer[c]: the goroutine that drains output
  output,       \* output[c]: the channel of responses to c
  delivered,    \* delivered[c]: what c received
  requests,     \* the channel from the readers to the dispatcher
  idx,          \* the dispatcher's next backend
  dispatched,   \* dispatched[b]: requests given to backend b
  queue,        \* queue[b]: the channel backendConn.requests
  nextId,       \* nextId[b]: local variable of run
  outstanding,  \* outstanding[b]: new id -> request
  sending,      \* sending[b]: registered, not yet sent (at most one)
  atBackend,    \* atBackend[b]: requests the backend works on
  fromBackend,  \* fromBackend[b]: responses on their way
  holding,      \* holding[b]: taken by the reader, not yet in an output
  backendUp,    \* the backends whose connection works
  panic         \* why the process died, or "no"

clientVars == <<sent, sock, reader, writer, delivered>>
backendVars == <<nextId, outstanding, sending, atBackend, fromBackend, holding>>
vars == <<clientVars, output, requests, idx, dispatched, queue, backendVars,
          backendUp, panic>>

Backends == 0..(NumBackends - 1)
AllRequests == UNION {{c} \X (1..MaxRequests[c]) : c \in Clients}
Message(id, r) == [id |-> id, body |-> r]
Messages == [id : Nat, body : AllRequests]

TypeOK ==
  /\ sent \in [Clients -> Nat] /\ \A c \in Clients : sent[c] <= MaxRequests[c]
  /\ sock \in [Clients -> {"up", "down"}]
  /\ reader \in [Clients -> {"running", "ended"}]
  /\ writer \in [Clients -> {"running", "ended"}]
  /\ output \in [Clients -> Seq(Messages)] /\ \A c \in Clients : Len(output[c]) <= OutputCap
  /\ delivered \in [Clients -> Seq(Messages)]
  /\ requests \in Seq(AllRequests) /\ Len(requests) <= RequestsCap
  /\ idx \in Backends
  /\ dispatched \in [Backends -> Nat]
  /\ queue \in [Backends -> Seq(AllRequests)] /\ \A b \in Backends : Len(queue[b]) <= BackendCap
  /\ nextId \in [Backends -> Nat]
  /\ DOMAIN outstanding = Backends
  /\ \A b \in Backends :
       /\ DOMAIN outstanding[b] \subseteq Nat
       /\ \A i \in DOMAIN outstanding[b] : outstanding[b][i] \in AllRequests
  /\ sending \in [Backends -> SUBSET Messages]
  /\ atBackend \in [Backends -> SUBSET Messages]
  /\ fromBackend \in [Backends -> Seq(Messages)]
  /\ holding \in [Backends -> SUBSET (Clients \X Messages)]
  /\ backendUp \subseteq Backends
  /\ panic \in {"no", "closed channel", "what's wrong", "backend lost"}

Init ==
  /\ sent = [c \in Clients |-> 0]
  /\ sock = [c \in Clients |-> "up"]
  /\ reader = [c \in Clients |-> "running"]
  /\ writer = [c \in Clients |-> "running"]
  /\ output = [c \in Clients |-> <<>>]
  /\ delivered = [c \in Clients |-> <<>>]
  /\ requests = <<>>
  /\ idx = 0
  /\ dispatched = [b \in Backends |-> 0]
  /\ queue = [b \in Backends |-> <<>>]
  /\ nextId = [b \in Backends |-> FirstId]
  /\ outstanding = [b \in Backends |-> [i \in {} |-> {}]]
  /\ sending = [b \in Backends |-> {}]
  /\ atBackend = [b \in Backends |-> {}]
  /\ fromBackend = [b \in Backends |-> <<>>]
  /\ holding = [b \in Backends |-> {}]
  /\ backendUp = Backends
  /\ panic = "no"

-----------------------------------------------------------------------------
(* The bound on faults: a client goes away by closing its connection or by *)
(* what it sends, a backend's connection is lost.                          *)
Leaving == {c \in Clients : sock[c] = "down" \/ reader[c] = "ended"}
MoreFaults == Cardinality(Leaving) + Cardinality(Backends \ backendUp) < MaxFaults

(* ServeConn: the reader of a client. *)

(* Decode a REQUEST and put it on b.requests, which blocks when full. *)
ReadRequest(c) ==
  /\ reader[c] = "running"
  /\ sock[c] = "up"
  /\ sent[c] < MaxRequests[c]
  /\ Len(requests) < RequestsCap
  /\ sent' = [sent EXCEPT ![c] = @ + 1]
  /\ requests' = Append(requests, <<c, sent[c] + 1>>)
  /\ UNCHANGED <<sock, reader, writer, delivered, output, idx, dispatched, queue,
                 backendVars, backendUp, panic>>

(* A decoding error or a message that is no REQUEST ends the loop; the     *)
(* deferred close(output) follows.                                         *)
ReaderEnds(c) ==
  /\ reader[c] = "running"
  /\ c \in Leaving \/ MoreFaults
  /\ reader' = [reader EXCEPT ![c] = "ended"]
  /\ UNCHANGED <<sent, sock, writer, delivered, output, requests, idx, dispatched,
                 queue, backendVars, backendUp, panic>>

(* The client closes its connection (external). *)
ClientLeaves(c) ==
  /\ sock[c] = "up"
  /\ c \in Leaving \/ MoreFaults
  /\ sock' = [sock EXCEPT ![c] = "down"]
  /\ UNCHANGED <<sent, reader, writer, delivered, output, requests, idx, dispatched,
                 queue, backendVars, backendUp, panic>>

-----------------------------------------------------------------------------
(* ServeConn: the writer of a client. *)

(* muduorpc.Send succeeds; on a connection that is going down the bytes    *)
(* may still vanish.                                                       *)
WriteResponse(c) ==
  /\ writer[c] = "running"
  /\ output[c] # <<>>
  /\ output' = [output EXCEPT ![c] = Tail(@)]
  /\ delivered' = IF sock[c] = "up"
                    THEN [delivered EXCEPT ![c] = Append(@, Head(output[c]))]
                    ELSE delivered
  /\ UNCHANGED <<sent, sock, reader, writer, requests, idx, dispatched, queue,
                 backendVars, backendUp, panic>>

(* muduorpc.Send fails: break, c.Close(); nobody drains output any more. *)
WriteFails(c) ==
  /\ writer[c] = "running"
  /\ output[c] # <<>>
  /\ sock[c] = "down"
  /\ output' = [output EXCEPT ![c] = Tail(@)]
  /\ writer' = [writer EXCEPT ![c] = "ended"]
  /\ UNCHANGED <<sent, sock, reader, delivered, requests, idx, dispatched, queue,
                 backendVars, backendUp, panic>>

(* output is closed and drained: the loop ends, c.Close(). *)
WriterEnds(c) ==
  /\ writer[c] = "running"
  /\ reader[c] = "ended"
  /\ output[c] = <<>>
  /\ writer' = [writer EXCEPT ![c] = "ended"]
  /\ sock' = [sock EXCEPT ![c] = "down"]
  /\ UNCHANGED <<sent, reader, delivered, output, requests, idx, dispatched, queue,
                 backendVars, backendUp, panic>>

-----------------------------------------------------------------------------
(* dispatch. *)

(* Take a request and put it on the queue of the next backend, blocking    *)
(* everything behind it while that queue is full.                          *)
Dispatch ==
  /\ requests # <<>>
  /\ Len(queue[idx]) < BackendCap
  /\ queue' = [queue EXCEPT ![idx] = Append(@, Head(requests))]
  /\ dispatched' = [dispatched EXCEPT ![idx] = @ + 1]
  /\ requests' = Tail(requests)
  /\ idx' = IF idx + 1 >= NumBackends THEN 0 ELSE idx + 1
  /\ UNCHANGED <<clientVars, output, backendVars, backendUp, panic>>

-----------------------------------------------------------------------------
(* run: the sender of a backend connection. *)

WithEntry(m, i, r) == [j \in DOMAIN m \cup {i} |-> IF j = i THEN r ELSE m[j]]
WithoutEntry(m, i) == [j \in DOMAIN m \ {i} |-> m[j]]

(* Mutant: nextId is not incremented. *)
SameId(id) == id

(* nextId++ *)
FollowingId(id) == id + 1

(* Take a request, remember its id and its output under a new id. *)
RegisterRequest(b) ==
  /\ sending[b] = {}
  /\ queue[b] # <<>>
  /\ queue' = [queue EXCEPT ![b] = Tail(@)]
  /\ nextId' = [nextId EXCEPT ![b] = FollowingId(@)]
  /\ outstanding' = [outstanding EXCEPT ![b] = WithEntry(@, nextId[b], Head(queue[b]))]
  /\ sending' = [sending EXCEPT ![b] = {Message(nextId[b], Head(queue[b]))}]
  /\ UNCHANGED <<clientVars, output, requests, idx, dispatched, atBackend,
                 fromBackend, holding, backendUp, panic>>

(* muduorpc.Send to the backend. *)
SendToBackend(b) ==
  /\ sending[b] # {}
  /\ b \in backendUp
  /\ sending' = [sending EXCEPT ![b] = {}]
  /\ atBackend' = [atBackend EXCEPT ![b] = @ \cup sending[b]]
  /\ UNCHANGED <<clientVars, output, requests, idx, dispatched, queue, nextId,
                 outstanding, fromBackend, holding, backendUp, panic>>

(* ... fails: PanicOnError. *)
SendToBackendFails(b) ==
  /\ sending[b] # {}
  /\ b \notin backendUp
  /\ panic' = "backend lost"
  /\ UNCHANGED <<clientVars, output, requests, idx, dispatched, queue, backendVars,
                 backendUp>>

-----------------------------------------------------------------------------
(* The backend (external): it answers what it was sent, in any order, until *)
(* its connection is lost.                                                 *)

BackendAnswers(b, m) ==
  /\ b \in backendUp
  /\ atBackend' = [atBackend EXCEPT ![b] = @ \ {m}]
  /\ fromBackend' = [fromBackend EXCEPT ![b] = Append(@, m)]
  /\ UNCHANGED <<clientVars, output, requests, idx, dispatched, queue, nextId,
                 outstanding, sending, holding, backendUp, panic>>

BackendLost(b) ==
  /\ b \in backendUp
  /\ MoreFaults
  /\ backendUp' = backendUp \ {b}
  /\ UNCHANGED <<clientVars, output, requests, idx, dispatched, queue, backendVars, panic>>

-----------------------------------------------------------------------------
(* run: the reader of a backend connection. *)

(* Mutant: the original id is not restored. *)
KeepId(r, m) == m

(* resp.Id = &r.origId *)
RestoreId(r, m) == Message(r[2], m.body)

(* Decode a response whose id is in outstanding: delete the entry, restore *)
(* the original id.                                                        *)
TakeResponse(b) ==
  /\ holding[b] = {}
  /\ fromBackend[b] # <<>>
  /\ LET m == Head(fromBackend[b]) IN
       /\ m.id \in DOMAIN outstanding[b]
       /\ outstanding' = [outstanding EXCEPT ![b] = WithoutEntry(@, m.id)]
       /\ LET r == outstanding[b][m.id] IN
            holding' = [holding EXCEPT ![b] = {<<r[1], RestoreId(r, m)>>}]
  /\ fromBackend' = [fromBackend EXCEPT ![b] = Tail(@)]
  /\ UNCHANGED <<clientVars, output, requests, idx, dispatched, queue, nextId,
                 sending, atBackend, backendUp, panic>>

(* ... whose id is not: panic("What's wrong?").  The same panic follows a  *)
(* decoding error, after close(b.requests), since a nil response has id 0. *)
PanicWhatsWrong(b) ==
  /\ holding[b] = {}
  /\ \/ /\ fromBackend[b] # <<>>
        /\ Head(fromBackend[b]).id \notin DOMAIN outstanding[b]
        /\ panic' = "what's wrong"
     \/ /\ b \notin backendUp
        /\ panic' = "backend lost"
  /\ UNCHANGED <<clientVars, output, requests, idx, dispatched, queue, backendVars,
                 backendUp>>

(* Mutant: a full output channel makes the reader drop the response. *)
ForwardResponseDrops(b) ==
  \E h \in holding[b] :
    /\ output' = IF Len(output[h[1]]) < OutputCap
                   THEN [output EXCEPT ![h[1]] = Append(@, h[2])]
                   ELSE output
    /\ holding' = [holding EXCEPT ![b] = {}]
    /\ UNCHANGED <<clientVars, requests, idx, dispatched, queue, nextId, outstanding,
                   sending, atBackend, fromBackend, backendUp, panic>>

(* r.output <- resp, which blocks when the channel is full and panics when *)
(* ServeConn has closed it.                                                *)
ForwardResponse(b) ==
  \E h \in holding[b] :
    /\ \/ /\ reader[h[1]] = "ended"
          /\ panic' = "closed channel"
          /\ UNCHANGED <<output, holding>>
       \/ /\ reader[h[1]] = "running"
          /\ Len(output[h[1]]) < OutputCap
          /\ output' = [output EXCEPT ![h[1]] = Append(@, h[2])]
          /\ holding' = [holding EXCEPT ![b] = {}]
          /\ UNCHANGED panic
    /\ UNCHANGED <<clientVars, requests, idx, dispatched, queue, nextId, outstanding,
                   sending, atBackend, fromBackend, backendUp>>

-----------------------------------------------------------------------------
Sender(b) == RegisterRequest(b) \/ SendToBackend(b) \/ SendToBackendFails(b)
Receiver(b) == TakeResponse(b) \/ PanicWhatsWrong(b) \/ ForwardResponse(b)
Writer(c) == WriteResponse(c) \/ WriteFails(c) \/ WriterEnds(c)
Backend(b) == \E m \in atBackend[b] : BackendAnswers(b, m)

Next ==
  /\ panic = "no"
  /\ \/ \E c \in Clients : ReadRequest(c) \/ ReaderEnds(c) \/ ClientLeaves(c) \/ Writer(c)
     \/ Dispatch
     \/ \E b \in Backends : Sender(b) \/ Backend(b) \/ BackendLost(b) \/ Receiver(b)

Spec == Init /\ [][Next]_vars

(* Goroutines that can run do, backends answer; a writer that may deliver  *)
(* does, and once a connection is closed Decode fails, unless the reader   *)
(* still waits for room for a request that it has decoded.  What clients   *)
(* and connections do otherwise, they do as they please.                   *)
Fairness ==
  /\ \A c \in Clients :
       /\ WF_vars(panic = "no" /\ Writer(c))
       /\ WF_vars(panic = "no" /\ sock[c] = "down" /\ Len(requests) < RequestsCap
                    /\ ReaderEnds(c))
  /\ WF_vars(panic = "no" /\ Dispatch)
  /\ \A b \in Backends :
       /\ WF_vars(panic = "no" /\ Sender(b))
       /\ WF_vars(panic = "no" /\ Backend(b))
       /\ WF_vars(panic = "no" /\ Receiver(b))

FairSpec == Spec /\ Fairness

-----------------------------------------------------------------------------
(* Properties. *)

(* What a client receives carries the id of one of its own requests and    *)
(* the answer to that request, although ids of clients collide and the     *)
(* backend saw other ids.                                                  *)
RightAnswer ==
  \A c \in Clients : \A i \in 1..Len(delivered[c]) :
    delivered[c][i].body = <<c, delivered[c][i].id>>

(* Where request r is now: on the queue of the dispatcher, on that of a    *)
(* backend, at the backend, on its way back, or on the output channel.     *)
AskedPlaces(r) == {<<"requests", i>> : i \in {j \in 1..Len(requests) : requests[j] = r}}
QueuedPlaces(b, r) == {<<"queue", b, i>> : i \in {j \in 1..Len(queue[b]) : queue[b][j] = r}}
MappedPlaces(b, r) ==
  {<<"sending", b, m>> : m \in {n \in sending[b] : n.body = r}}
    \cup {<<"atBackend", b, m>> : m \in {n \in atBackend[b] : n.body = r}}
    \cup {<<"fromBackend", b, i>> :
            i \in {j \in 1..Len(fromBackend[b]) : fromBackend[b][j].body = r}}
HeldPlaces(b, r) == {<<"holding", b, h>> : h \in {g \in holding[b] : g[2].body = r}}
AnsweredPlaces(r) ==
  {<<"output", i>> : i \in {j \in 1..Len(output[r[1]]) : output[r[1]][j].body = r}}

Places(r) ==
  AskedPlaces(r) \cup AnsweredPlaces(r)
    \cup UNION {QueuedPlaces(b, r) \cup MappedPlaces(b, r) \cup HeldPlaces(b, r) : b \in Backends}

(* No hand-over between goroutines loses, copies or misdirects a request:  *)
(* the balancer does what AbstractBalancer promises.                       *)
Abstract == INSTANCE AbstractBalancer WITH
  copies <- [r \in AllRequests |-> Cardinality(Places(r))],
  gone <- {c \in Clients : sock[c] = "down"}
ImplementsAbstractBalancer == Abstract!Spec

(* A backend's map holds exactly the requests that it has not answered to  *)
(* the reader, under the ids it knows them by.                             *)
MapMatchesBackend ==
  \A b \in Backends :
    {Message(i, outstanding[b][i]) : i \in DOMAIN outstanding[b]}
      = sending[b] \cup atBackend[b] \cup ToSet(fromBackend[b])

(* The dispatcher spreads the load: no backend is given two requests more  *)
(* than another.                                                           *)
RoundRobin == \A a, b \in Backends : dispatched[a] <= dispatched[b] + 1

(* panic("What's wrong?") is never reached while the backends answer each  *)
(* request once.                                                           *)
NothingWrong == panic # "what's wrong"

(* A request that was read is answered, unless its client goes away or the *)
(* process dies: no cycle of full channels stops the goroutines for good,  *)
(* nor does the full output of another client that nobody drains.          *)
RequestsAnswered ==
  \A c \in Clients : \A i \in 1..MaxRequests[c] :
    (sent[c] >= i) ~> (\/ \E j \in 1..Len(delivered[c]) : delivered[c][j].id = i
                       \/ reader[c] = "ended" \/ sock[c] = "down" \/ panic # "no")

(* The tables of the goroutines fit together: each backend's map and what  *)
(* it was sent, the dispatcher's counts, and so no response is unknown and *)
(* none is given to the wrong request.                                     *)
TablesConsistent ==
  TypeOK /\ MapMatchesBackend /\ RoundRobin /\ NothingWrong /\ RightAnswer
=============================================================================
