------------------------------- MODULE GoRpc -------------------------------
(***************************************************************************)
(* go/muduorpc: the codecs that put Go's net/rpc on muduo's wire format.   *)
(* One connection: a net/rpc client with ClientCodec, and a server that is *)
(* net/rpc with ServerCodec or the C++ one.  net/rpc itself is external    *)
(* and modelled from the contract the codecs are written to: it reads a    *)
(* header and then its body (nil to discard it), one message at a time,    *)
(* runs methods in goroutines, serialises writers, and fails every pending *)
(* call when reading ends.                                                 *)
(*                                                                         *)
(* A codec keeps the bytes of a body in payload between header and body;   *)
(* it panics, which ends its process, if payload is not as it expects.     *)
(* Calls stand for their sequence numbers, which net/rpc never reuses.     *)
(***************************************************************************)
EXTENDS Naturals, Sequences, SequencesExt

CONSTANTS
  Calls,     \* calls of the client
  Kinds,     \* what may be special about a call, see below
  Servers,   \* a subset of {"go", "cpp"}
  None

(* "good"     nothing                                                      *)
(* "unset"    its argument lacks a required field, Marshal fails           *)
(* "unknown"  the server has no such method                                *)
(* "garbled"  the server cannot parse the argument                         *)
(* "fails"    the method returns an error or an unsendable reply (Go)      *)
(* "twice"    the method runs done twice (C++)                             *)
(* "odd"      the client cannot parse the reply                            *)
AllKinds == {"good", "unset", "unknown", "garbled", "fails", "twice", "odd"}

ASSUME KindsAssumption == Kinds \subseteq AllKinds
ASSUME ServerAssumption == Servers \subseteq {"go", "cpp"}
ASSUME NoneAssumption == None \notin Calls

VARIABLES
  peer,       \* the server at the other end, one of Servers
  kind,       \* kind[c]
  state,      \* state[c]: "idle", "pending", "ok" or "failed"
  reply,      \* reply[c]: the call whose response was parsed into c's reply
  link,       \* "up" or "down"
  requests,   \* frames on their way to the server
  responses,  \* frames on their way back: a call and whose response it is
  cPhase,     \* client reader: "header", "body", "over" or "panic"
  cSeq,       \* Seq of the header last read
  cPayload,   \* ClientCodec.payload
  sPhase,     \* server reader, likewise
  sSeq,       \* Seq of the request header last read
  sPayload,   \* ServerCodec.payload
  serving     \* calls whose method runs, in its goroutine

client == <<state, reply, cPhase, cSeq, cPayload>>
server == <<sPhase, sSeq, sPayload, serving>>
vars == <<peer, kind, client, link, requests, responses, server>>

Frames == [id : Calls, response : Calls]
Phases == {"header", "body", "over", "panic"}

TypeOK ==
  /\ peer \in Servers /\ kind \in [Calls -> Kinds]
  /\ state \in [Calls -> {"idle", "pending", "ok", "failed"}]
  /\ reply \in [Calls -> Calls \cup {None}]
  /\ link \in {"up", "down"}
  /\ requests \in Seq(Calls)
  /\ responses \in Seq(Frames)
  /\ cPhase \in Phases /\ sPhase \in Phases
  /\ {cSeq, cPayload, sSeq, sPayload} \subseteq Calls \cup {None}
  /\ serving \subseteq Calls

Init ==
  /\ peer \in Servers
  /\ kind \in [Calls -> Kinds \ (IF peer = "go" THEN {"twice"} ELSE {"fails"})]
  /\ state = [c \in Calls |-> "idle"]
  /\ reply = [c \in Calls |-> None]
  /\ link = "up"
  /\ requests = <<>> /\ responses = <<>>
  /\ cPhase = "header" /\ cSeq = None /\ cPayload = None
  /\ sPhase = "header" /\ sSeq = None /\ sPayload = None
  /\ serving = {}

-----------------------------------------------------------------------------
(* Frames.  Send writes a whole frame or fails with the connection.        *)

Send(queue, frame) == IF link = "up" THEN Append(queue, frame) ELSE queue

(* The connection breaks, by itself or because an end closes it.  What is  *)
(* on its way may be cut anywhere: Decode fails at the cut.                *)
Break ==
  /\ link = "up"
  /\ link' = "down"
  /\ \E i \in 0..Len(requests) : requests' = SubSeq(requests, 1, i)
  /\ \E i \in 0..Len(responses) : responses' = SubSeq(responses, 1, i)
  /\ UNCHANGED <<peer, kind, client, server>>

(* An end that is gone has closed its connection. *)
Closed == link' = "down"

-----------------------------------------------------------------------------
(* The client. *)

(* WriteRequest in net/rpc's send: refused after the reader has ended, by  *)
(* Marshal, or by the connection; a write into a broken one may also       *)
(* seem to succeed.                                                        *)
WriteRequest(c) ==
  /\ cPhase # "panic"
  /\ state[c] = "idle"
  /\ \/ /\ cPhase = "over" \/ kind[c] = "unset" \/ link = "down"
        /\ state' = [state EXCEPT ![c] = "failed"]
        /\ UNCHANGED requests
     \/ /\ cPhase # "over" /\ kind[c] # "unset"
        /\ state' = [state EXCEPT ![c] = "pending"]
        /\ requests' = Send(requests, c)
  /\ UNCHANGED <<peer, kind, reply, cPhase, cSeq, cPayload, link, responses, server>>

(* Mutant: a reader of its own for each header drops what it had buffered. *)
NothingLeft == <<>>

(* What is left to read behind a frame. *)
BehindFrame == Tail(responses)

(* ReadResponseHeader, with a frame (C++ and Go send only RESPONSEs that   *)
(* have a response).                                                       *)
ReadResponseHeader ==
  /\ cPhase = "header"
  /\ cPayload # None \/ responses # <<>>
  /\ IF cPayload # None
       THEN /\ cPhase' = "panic" /\ Closed
            /\ UNCHANGED <<cSeq, cPayload, responses>>
       ELSE /\ cPhase' = "body"
            /\ cSeq' = Head(responses).id
            /\ cPayload' = Head(responses).response
            /\ responses' = BehindFrame
            /\ UNCHANGED link
  /\ UNCHANGED <<peer, kind, state, reply, requests, server>>

(* The end of net/rpc's reader: what is still pending fails.  The          *)
(* connection is the caller's to close.                                    *)
Terminate ==
  /\ cPhase' = "over"
  /\ state' = [c \in Calls |-> IF state[c] = "pending" THEN "failed" ELSE state[c]]
  /\ UNCHANGED link

(* ReadResponseHeader, at the end of a broken connection. *)
ReadResponseHeaderError ==
  /\ cPhase = "header"
  /\ cPayload = None
  /\ link = "down" /\ responses = <<>>
  /\ Terminate
  /\ UNCHANGED <<peer, kind, reply, requests, responses, cSeq, cPayload, server>>

(* Mutant: payload is not reset. *)
PayloadKept == cPayload

(* c.payload = nil *)
PayloadReset == None

(* ReadResponseBody into the reply of the call the header named, or nil if *)
(* that is not pending (any more), which is an error for a codec.  Every   *)
(* error ends the reader.                                                  *)
ReadResponseBody ==
  /\ cPhase = "body"
  /\ IF cPayload = None
       THEN /\ cPhase' = "panic" /\ Closed
            /\ UNCHANGED <<state, reply, cPayload>>
       ELSE \/ /\ state[cSeq] # "pending" \/ kind[cSeq] = "odd"
               /\ Terminate
               /\ UNCHANGED <<reply, cPayload>>
            \/ /\ state[cSeq] = "pending" /\ kind[cSeq] # "odd"
               /\ state' = [state EXCEPT ![cSeq] = "ok"]
               /\ reply' = [reply EXCEPT ![cSeq] = cPayload]
               /\ cPayload' = PayloadReset
               /\ cPhase' = "header"
               /\ UNCHANGED link
  /\ UNCHANGED <<peer, kind, requests, responses, cSeq, server>>

-----------------------------------------------------------------------------
(* The Go server. *)

(* ReadRequestHeader: the check, a frame, or the end of the connection.    *)
ReadRequestHeader ==
  /\ peer = "go"
  /\ sPhase = "header"
  /\ \/ /\ sPayload # None
        /\ sPhase' = "panic" /\ Closed
        /\ UNCHANGED <<sSeq, sPayload, requests>>
     \/ /\ sPayload = None /\ requests # <<>>
        /\ sPhase' = "body"
        /\ sSeq' = Head(requests) /\ sPayload' = Head(requests)
        /\ requests' = Tail(requests)
        /\ UNCHANGED link
     \/ /\ sPayload = None /\ requests = <<>> /\ link = "down"
        /\ sPhase' = "over"
        /\ UNCHANGED <<sSeq, sPayload, requests, link>>
  /\ UNCHANGED <<peer, kind, client, responses, serving>>

(* ReadRequestBody into the method's argument; nil for a method that is    *)
(* unknown.  After an error net/rpc writes a response whose body is no     *)
(* protobuf message, which WriteResponse refuses.                          *)
ReadRequestBody ==
  /\ sPhase = "body"
  /\ sPhase' = "header"
  /\ IF kind[sSeq] \in {"unknown", "garbled"}
       THEN UNCHANGED <<sPayload, serving>>
       ELSE /\ sPayload' = None
            /\ serving' = serving \cup {sSeq}
  /\ UNCHANGED <<peer, kind, client, link, requests, responses, sSeq>>

(* Mutant: the Seq of the request last read. *)
SeqLastRead(c) == sSeq

(* The id of the response is the Seq of its own request. *)
ResponseId(c) == c

(* WriteResponse when a method has returned: an error is net/rpc's         *)
(* response without a protobuf message again, and is not sent.             *)
WriteResponse(c) ==
  /\ peer = "go"
  /\ c \in serving
  /\ serving' = serving \ {c}
  /\ responses' = IF kind[c] = "fails" THEN responses
                                       ELSE Send(responses, [id |-> ResponseId(c), response |-> c])
  /\ UNCHANGED <<peer, kind, client, link, requests, sPhase, sSeq, sPayload>>

-----------------------------------------------------------------------------
(* The C++ server: a method it does not have is not answered (a FIXME);    *)
(* whether the argument parses is not looked at.                           *)
CppRequest ==
  /\ peer = "cpp"
  /\ requests # <<>>
  /\ requests' = Tail(requests)
  /\ serving' = IF kind[Head(requests)] = "unknown" THEN serving
                                                    ELSE serving \cup {Head(requests)}
  /\ UNCHANGED <<peer, kind, client, link, responses, sPhase, sSeq, sPayload>>

(* done; a method that runs it twice answers twice. *)
CppDone(c) ==
  /\ peer = "cpp"
  /\ c \in serving
  /\ serving' = serving \ {c}
  /\ LET once == Send(responses, [id |-> c, response |-> c]) IN
       responses' = IF kind[c] = "twice" /\ link = "up"
                      THEN Append(once, [id |-> c, response |-> c])
                      ELSE once
  /\ UNCHANGED <<peer, kind, client, link, requests, sPhase, sSeq, sPayload>>

-----------------------------------------------------------------------------
Next ==
  \/ Break
  \/ \E c \in Calls : WriteRequest(c)
  \/ ReadResponseHeader \/ ReadResponseHeaderError \/ ReadResponseBody
  \/ ReadRequestHeader \/ ReadRequestBody
  \/ \E c \in Calls : WriteResponse(c)
  \/ CppRequest \/ \E c \in Calls : CppDone(c)

Spec == Init /\ [][Next]_vars

(* Readers and servers run, and methods return. *)
Fairness ==
  /\ WF_vars(ReadResponseHeader \/ ReadResponseHeaderError \/ ReadResponseBody)
  /\ WF_vars(ReadRequestHeader \/ ReadRequestBody)
  /\ \A c \in Calls : WF_vars(WriteResponse(c) \/ CppDone(c))
  /\ WF_vars(CppRequest)

FairSpec == Spec /\ Fairness

-----------------------------------------------------------------------------
(* Properties. *)

(* A reply is parsed from the payload of its own response, though headers, *)
(* bodies and methods that return out of order interleave.                 *)
OwnReply == \A c \in Calls : state[c] = "ok" => reply[c] = c

(* Where the server may have a call. *)
Places(c) ==
  {<<"request", i>> : i \in {j \in 1..Len(requests) : requests[j] = c}}
    \cup {<<"body">> : x \in {y \in {c} : sPhase = "body" /\ sSeq = c}}
    \cup {<<"serving">> : x \in {c} \cap serving}
    \cup {<<"response", i>> : i \in {j \in 1..Len(responses) : responses[j].id = c}}
    \cup {<<"reply">> : x \in {y \in {c} : cPhase = "body" /\ cSeq = c}}

(* Calls that no server, or only the C++ one, answers. *)
Unanswered(c) == kind[c] \in (IF peer = "go" THEN {"unknown", "garbled", "fails"} ELSE {"unknown"})

(* While the connection is up, a pending call is at one place (two answers *)
(* if its method runs done twice), unless it is one that is not answered.  *)
NoneDropped ==
  link = "up" =>
    \A c \in Calls :
      state[c] = "pending" =>
        \/ \E x, y \in Places(c) : Places(c) = {x, y} /\ (x = y \/ kind[c] = "twice")
        \/ Unanswered(c)

(* The codecs' panics need a request that the Go server refuses: other     *)
(* calls, second answers and a breaking connection never leave a payload   *)
(* behind or a header without one.                                         *)
PanicsNeedRefusals ==
  /\ sPhase = "panic" => \E c \in Calls : kind[c] \in {"unknown", "garbled"}
  /\ cPhase # "panic"

(* A call returns, be it with an error, unless it is not answered and the  *)
(* connection stays up.                                                    *)
CallsReturn ==
  \A c \in Calls :
    (state[c] = "pending" /\ (link = "down" \/ ~Unanswered(c))) ~> (state[c] # "pending")

(* Replies are neither confused nor dropped between header and body.       *)
RepliesMatched == TypeOK /\ OwnReply /\ NoneDropped
=============================================================================
