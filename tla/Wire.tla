-------------------------------- MODULE Wire --------------------------------
(***************************************************************************)
(* The format of messages on a connection and the code that reads and      *)
(* writes it in Go (muduorpc/codec.go), Java (RpcEncoder, RpcDecoder and   *)
(* Netty's frame codecs) and Python (zurg/client/rpc.py): a length, the    *)
(* tag "RPC0", the payload and a checksum.  Every sender may talk to every *)
(* receiver.  TCP hands over the bytes in pieces of any size and may stop  *)
(* anywhere.                                                               *)
(*                                                                         *)
(* A unit stands for a byte of the payload, for all four of the tag or the *)
(* checksum, and for two of the length, which can be torn apart.  A unit   *)
(* of the checksum knows the units it was computed from.  A message is its *)
(* number and the size of its payload, which is never empty: RpcMessage    *)
(* has required fields.                                                    *)
(***************************************************************************)
EXTENDS Naturals, Sequences, SequencesExt

CONSTANTS
  Sizes,         \* bound: sizes of payloads
  MaxMessages,   \* bound: messages
  GoMax,         \* the longest frame of Decode, 64 MB
  JavaMax        \* the longest frame of the pipeline, 16 MB, length included

VARIABLES
  sender,        \* language of the sender
  receiver,      \* and of the receiver
  sent,          \* messages sent
  bytes,         \* units on their way
  buffer,        \* units that have arrived
  link,          \* "up" or "down"
  phase,         \* what the receiver reads: "length", "body", "discard", or its end
  length,        \* the length it has read, or what is left to discard
  received,      \* messages it has decoded
  taken          \* how many messages it has decoded or discarded

vars == <<sender, receiver, sent, bytes, buffer, link, phase, length, received, taken>>

Languages == {"go", "java", "python"}
MinLength == 2     \* the tag and the checksum, 8 bytes
LengthField == 2   \* the units of the length

Init ==
  /\ sender \in Languages /\ receiver \in Languages
  /\ sent = <<>> /\ bytes = <<>> /\ buffer = <<>>
  /\ link = "up"
  /\ phase = "length" /\ length = 0
  /\ received = <<>> /\ taken = 0

-----------------------------------------------------------------------------
(* The senders. *)

Unit(part, msg, size, covers) == [part |-> part, msg |-> msg, size |-> size, covers |-> covers]
Int32(n) == [i \in 1..LengthField |-> Unit("length", 0, n, <<>>)]
Tag == <<Unit("tag", 0, 0, <<>>)>>
Payload(m) == [i \in 1..m.size |-> Unit("payload", m, 0, <<>>)]
Adler32(units) == <<Unit("checksum", 0, 0, units)>>

(* encode of Go: the length is that of payload, tag and checksum. *)
GoEncode(m) ==
  Int32(MinLength + m.size) \o Tag \o Payload(m) \o Adler32(Tag \o Payload(m))

(* Mutant: the length is that of the body alone. *)
PythonEncodeShort(m) ==
  LET body == Tag \o Payload(m) IN Int32(Len(body)) \o body \o Adler32(body)

(* encode of Python. *)
PythonEncode(m) ==
  LET body == Tag \o Payload(m) IN Int32(Len(body) + 1) \o body \o Adler32(body)

(* RpcEncoder, *)
RpcEncoder(m) == Tag \o Payload(m) \o Adler32(Tag \o Payload(m))

(* and LengthFieldPrepender behind it (external). *)
LengthFieldPrepender(frame) == Int32(Len(frame)) \o frame

Encode(m) ==
  CASE sender = "go" -> GoEncode(m)
    [] sender = "java" -> LengthFieldPrepender(RpcEncoder(m))
    [] sender = "python" -> PythonEncode(m)

Messages == [number : 1..MaxMessages, size : Sizes]

Send ==
  /\ link = "up"
  /\ Len(sent) < MaxMessages
  /\ \E size \in Sizes :
       LET m == [number |-> Len(sent) + 1, size |-> size] IN
         /\ sent' = Append(sent, m)
         /\ bytes' = bytes \o Encode(m)
  /\ UNCHANGED <<sender, receiver, buffer, link, phase, length, received, taken>>

-----------------------------------------------------------------------------
(* TCP (external). *)

Arrive ==
  /\ bytes # <<>>
  /\ buffer' = Append(buffer, Head(bytes))
  /\ bytes' = Tail(bytes)
  /\ UNCHANGED <<sender, receiver, sent, link, phase, length, received, taken>>

(* The connection ends; what is on its way may get lost anywhere. *)
Break ==
  /\ link = "up"
  /\ link' = "down"
  /\ bytes' = <<>>
  /\ UNCHANGED <<sender, receiver, sent, buffer, phase, length, received, taken>>

-----------------------------------------------------------------------------
(* The receivers. *)

Skip(n) == buffer' = SubSeq(buffer, n + 1, Len(buffer))

(* ReadFull and MSG_WAITALL return early at the end of the connection. *)
AtEnd(n) == link = "down" /\ Len(buffer) < n

(* The checksum is that of what comes before it. *)
ChecksumRight(frame) == Last(frame).covers = Front(frame)

TagRight(frame) == frame[1].part = "tag"

(* Of a frame: the tag, the checksum, then the payload is parsed. *)
Decodes(frame) == TagRight(frame) /\ ChecksumRight(frame) /\ frame[2].part = "payload"

Deliver(frame) ==
  /\ received' = Append(received, frame[2].msg)
  /\ taken' = taken + 1

(* The lengths that DecodeGeneral reads on after, and decode of Python,    *)
(* which has an assertion.                                                 *)
LengthAccepted(n) ==
  IF receiver = "go" THEN n <= GoMax /\ n >= MinLength ELSE n > MinLength

(* Go and Python: the length.  An error ends the reader of net/rpc; in     *)
(* Python it is a failed assertion, but for an end between two messages.   *)
ReadLength ==
  /\ receiver # "java"
  /\ phase = "length"
  /\ \/ /\ Len(buffer) >= LengthField
        /\ length' = buffer[1].size
        /\ phase' = IF LengthAccepted(length') THEN "body" ELSE "refused"
        /\ Skip(LengthField)
     \/ /\ AtEnd(LengthField)
        /\ phase' = IF receiver = "python" /\ buffer # <<>> THEN "assert" ELSE "end"
        /\ UNCHANGED <<length, buffer>>
  /\ UNCHANGED <<sender, receiver, sent, bytes, link, received, taken>>

(* ... and the rest. *)
ReadBody ==
  /\ receiver # "java"
  /\ phase = "body"
  /\ \/ /\ Len(buffer) >= length
        /\ Skip(length)
        /\ LET frame == SubSeq(buffer, 1, length) IN
             IF Decodes(frame)
               THEN phase' = "length" /\ Deliver(frame)
               ELSE phase' = "refused" /\ UNCHANGED <<received, taken>>
     \/ /\ AtEnd(length)
        /\ phase' = IF receiver = "python" THEN "assert" ELSE "end"
        /\ UNCHANGED <<buffer, received, taken>>
  /\ UNCHANGED <<sender, receiver, sent, bytes, link, length>>

(* Mutant: a frame as long as the limit is too long. *)
FrameAtLimit(n) == n + LengthField >= JavaMax

(* maxFrameLength of the pipeline. *)
FrameTooLong(n) == n + LengthField > JavaMax

(* Java: LengthFieldBasedFrameDecoder (external) waits for a frame, and    *)
(* discards one that is too long; *)
FrameDecoder ==
  /\ receiver = "java"
  /\ phase = "length"
  /\ Len(buffer) >= LengthField
  /\ LET n == buffer[1].size IN
     \/ /\ FrameTooLong(n)
        /\ phase' = "discard" /\ length' = n + LengthField
        /\ UNCHANGED buffer
     \/ /\ ~FrameTooLong(n)
        /\ Len(buffer) >= n + LengthField
        /\ phase' = "body" /\ length' = n
        /\ Skip(LengthField)
  /\ UNCHANGED <<sender, receiver, sent, bytes, link, received, taken>>

DiscardFrame ==
  /\ phase = "discard"
  /\ buffer # <<>>
  /\ buffer' = Tail(buffer)
  /\ length' = length - 1
  /\ phase' = IF length = 1 THEN "length" ELSE "discard"
  /\ taken' = IF length = 1 THEN taken + 1 ELSE taken
  /\ UNCHANGED <<sender, receiver, sent, bytes, link, received>>

(* RpcDecoder: a frame that it does not decode goes on as a buffer, which  *)
(* messageReceived cannot cast.                                            *)
RpcDecoder ==
  /\ receiver = "java"
  /\ phase = "body"
  /\ Skip(length)
  /\ LET frame == SubSeq(buffer, 1, length) IN
       IF length > MinLength /\ Decodes(frame)
         THEN phase' = "length" /\ Deliver(frame)
         ELSE phase' = "refused" /\ UNCHANGED <<received, taken>>
  /\ UNCHANGED <<sender, receiver, sent, bytes, link, length>>

Receiver == ReadLength \/ ReadBody \/ FrameDecoder \/ DiscardFrame \/ RpcDecoder

Next == Send \/ Arrive \/ Break \/ Receiver

Spec == Init /\ [][Next]_vars

(* Bytes arrive as long as the connection is there, and receivers read. *)
Fairness == WF_vars(Arrive) /\ WF_vars(Receiver)

-----------------------------------------------------------------------------
(* Properties. *)

(* The longest payload that the receiver takes; there is no limit in       *)
(* Python.                                                                 *)
Limit ==
  CASE receiver = "go" -> GoMax - MinLength
    [] receiver = "java" -> JavaMax - MinLength - LengthField
    [] receiver = "python" -> Max(Sizes)

(* Whatever the languages and however the bytes are cut, the connection is *)
(* the link of whole messages that the models of the channels rely on.     *)
Link == INSTANCE AbstractLink WITH limit <- Limit
ImplementsLink == Link!Spec

(* A receiver stops before the end of the connection only at a message     *)
(* that is too long for it; in Python an assertion fails when the          *)
(* connection ends within a message, and in no other case.                 *)
StopsForAReason ==
  /\ phase = "refused" => taken < Len(sent) /\ sent[taken + 1].size > Limit
  /\ phase \in {"assert", "end"} => link = "down"
  /\ phase = "assert" => taken < Len(sent)

(* What was sent is taken, unless the connection or the receiver ends. *)
SentIsTaken ==
  \A i \in 1..MaxMessages :
    Len(sent) >= i ~> taken >= i \/ link = "down" \/ phase = "refused"
=============================================================================
