------------------------ MODULE WordControlInstance -------------------------
(* WordControl as its run and its proof use it, the latter beside that of  *)
(* Wordfreq: what the two modules call alike has another name here.        *)

CONSTANTS
  Addresses,  \* WordControl's Workers
  HeadWorker, Lists,
  Totals      \* its Counts

VARIABLES
  peers, shard, linked, lost,
  stage,      \* its phase
  latch,
  client,     \* its next
  clients, open, asked,
  infos,      \* its answers
  workers, keyCount, maxKey

Control == INSTANCE WordControl WITH
  Workers <- Addresses, Counts <- Totals, phase <- stage, next <- client, answers <- infos

ControlAssumed == Control!ListsAssumption /\ Control!HeadAssumption /\ Control!CountsAssumption

(* control.cc: a client is asked only when it is connected, and when the   *)
(* controller is ready the totals are those of all workers, which have one *)
(* list and have had their connections.                                    *)
PreparedRight == Control!PreparedRight
=============================================================================
