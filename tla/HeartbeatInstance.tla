------------------------- MODULE HeartbeatInstance --------------------------
(* Heartbeat as its run and its proof use it, which stand beside those of  *)
(* other programs and of ZurgSlave.                                        *)
EXTENDS Sequences

CONSTANTS IntrLines, DiskLines, MaxWire

VARIABLES link, conn, beating, wire, file, known, crashed

Pulse == INSTANCE Heartbeat

(* A number of the intr line is zero or not, a disk idle or busy. *)
BeatAssumed ==
  /\ IntrLines \subseteq Seq({"0", "n"})
  /\ DiskLines \subseteq Seq({"idle", "busy"})

(* Zurg's heartbeat: the first beat of a connection is the full one, and   *)
(* only zeros are stripped from what the kernel shows.                     *)
BeatsRight == Pulse!BeatsRight
=============================================================================
