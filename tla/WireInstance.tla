---------------------------- MODULE WireInstance ----------------------------
(* Wire as its run and its proof use it, which stand beside those of other *)
(* programs and of GoRpc: socket is its link.                              *)
EXTENDS Integers

CONSTANTS Sizes, MaxMessages, GoMax, JavaMax

VARIABLES sender, receiver, sent, bytes, buffer, socket, phase, length, received, taken

Format == INSTANCE Wire WITH link <- socket

(* A payload is not empty, and the limits leave room for a frame. *)
FormatAssumed ==
  /\ MaxMessages \in Nat /\ Sizes # {} /\ \E b \in Sizes : b \in Nat /\ Sizes \subseteq 1..b
  /\ GoMax \in Nat /\ GoMax >= Format!MinLength
  /\ JavaMax \in Nat /\ JavaMax >= Format!MinLength + Format!LengthField

(* The wire: a receiver stops only at a message that is too long for it or *)
(* at the end of the connection.                                           *)
StopsForAReason == Format!StopsForAReason

(* The wire implements AbstractLink between any two languages.             *)
ImplementsLink == Format!ImplementsLink
=============================================================================
