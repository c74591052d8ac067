----------------------------- MODULE Heartbeat -----------------------------
(***************************************************************************)
(* examples/zurg/slave/Heartbeat.cc and RpcClient.cc: the slave tells the  *)
(* master of itself, in full when a connection comes up and the changing   *)
(* figures whenever the timer fires.  The timer runs from the constructor  *)
(* on, before there is a connection; the client connects again after a     *)
(* loss, of which the slave learns late.                                   *)
(*                                                                         *)
(* Of what a beat holds the model keeps /proc/stat and /proc/diskstats,    *)
(* which are stripped: the numbers of the intr line ("0" or "n"), whether  *)
(* the lines behind it are there, and the disks that are idle or busy.     *)
(***************************************************************************)
EXTENDS Naturals, Sequences, SequencesExt, FiniteSets

CONSTANTS
  IntrLines,   \* bound: intr lines of /proc/stat, <<>> if there is none
  DiskLines,   \* bound: contents of /proc/diskstats
  MaxWire      \* bound: beats on their way to the master

VARIABLES
  link,        \* "none", "up", or "broken" when the slave has not noticed
  conn,        \* conn_ of the channel: "null", or "set" for good
  beating,     \* beating_
  wire,        \* beats on their way
  file,        \* files_ of ProcFs for /proc/diskstats
  known,       \* what the master was told on this connection
  crashed      \* a beat was sent through a channel without a connection

vars == <<link, conn, beating, wire, file, known, crashed>>

Init ==
  /\ link = "none"
  /\ conn = "null"
  /\ beating = FALSE
  /\ wire = <<>>
  /\ file = "unopened"
  /\ known = "nothing"
  /\ crashed = FALSE

-----------------------------------------------------------------------------
(* The numbers up to the last one that is not "0". *)
ZerosOff(l) == SubSeq(l, 1, SelectLastInSubSeq(l, 1, Len(l), LAMBDA x : x # "0"))

(* strip_stat: the zeros at the end are erased.  If there are none the     *)
(* length nl - p is -1, which erases all that follows the line.            *)
StripStat(l) ==
  [intr |-> ZerosOff(l), rest |-> l = <<>> \/ l[Len(l)] = "0"]

(* strip_diskstats: the lines that end in eleven zeros are left out. *)
StripDiskstats(d) ==
  LET result[j \in 0..Len(d)] ==
        IF j = 0 THEN <<>>
        ELSE IF d[j] = "idle" THEN result[j - 1] ELSE Append(result[j - 1], d[j])
  IN  result[Len(d)]

(* readTo opens a file once: one that could not be opened stays so, and    *)
(* its field is empty in every beat.                                       *)
ReadTo == file' \in IF file = "unopened" THEN {"open", "failed"} ELSE {file}

(* beat: read, strip and send.  On a broken connection nothing arrives. *)
Beat(showStatic) ==
  \E l \in IntrLines, d \in DiskLines :
    /\ ReadTo
    /\ wire' = IF link' = "up"
                 THEN Append(wire, [full |-> showStatic, intr |-> l, disks |-> d,
                                    stat |-> StripStat(l),
                                    diskstats |-> IF file' = "open" THEN StripDiskstats(d)
                                                                    ELSE <<>>])
                 ELSE wire
    /\ crashed' = (conn' = "null")

Start == beating' = TRUE /\ Beat(TRUE)

Stop == beating' = FALSE

-----------------------------------------------------------------------------
(* RpcClient::onConnection, up: setConnection, then start. *)
OnConnected ==
  /\ link = "none"
  /\ link' = "up"
  /\ conn' = "set"
  /\ Start
  /\ UNCHANGED known

(* ... down: stop, and onDisconnect, which does nothing. *)
OnDisconnected ==
  /\ link = "broken"
  /\ link' = "none"
  /\ Stop
  /\ UNCHANGED <<conn, wire, file, known, crashed>>

(* Mutant: the timer does not look at beating_. *)
BeatsNow == TRUE

(* if (beating_) *)
Beats == beating

OnTimer ==
  /\ Beats
  /\ Len(wire) < MaxWire
  /\ UNCHANGED <<link, conn, beating, known>>
  /\ Beat(FALSE)

(* The connection fails (external); the master forgets it. *)
Break ==
  /\ link = "up"
  /\ link' = "broken"
  /\ wire' = <<>>
  /\ known' = "nothing"
  /\ UNCHANGED <<conn, beating, file, crashed>>

(* slaveHeartbeat at the master (external). *)
Receive ==
  /\ wire # <<>>
  /\ wire' = Tail(wire)
  /\ known' = IF Head(wire).full THEN "all" ELSE known
  /\ UNCHANGED <<link, conn, beating, file, crashed>>

Next == ~crashed /\ (OnConnected \/ OnDisconnected \/ OnTimer \/ Break \/ Receive)

Spec == Init /\ [][Next]_vars

(* The connector retries, the timer fires, the master reads. *)
Fairness ==
  WF_vars(OnConnected) /\ WF_vars(OnDisconnected) /\ WF_vars(OnTimer) /\ WF_vars(Receive)

-----------------------------------------------------------------------------
(* Properties. *)

(* The first beat of every connection, and no other, has the static part,  *)
(* whatever the timer does while the connection changes.                   *)
FirstIsFull ==
  /\ ~crashed
  /\ \A i \in 1..Len(wire) : wire[i].full <=> (i = 1 /\ known = "nothing")

(* A beat has every disk that is busy, every interrupt that occurred and   *)
(* the lines behind them: only zeros are stripped.  (A line of interrupts  *)
(* that ends with another number is the exception, see StripStat.)         *)
OnlyZerosStripped ==
  \A i \in 1..Len(wire) :
    LET b == wire[i] IN
      /\ b.intr # <<>> /\ b.intr[Len(b.intr)] = "0" =>
           /\ b.stat.rest
           /\ IsPrefix(b.stat.intr, b.intr)
           /\ \A j \in 1..Len(b.intr) : b.intr[j] # "0" => j <= Len(b.stat.intr)
      /\ b.intr = <<>> => b.stat.rest
      /\ file = "open" =>
           Len(b.diskstats) = Cardinality({j \in 1..Len(b.disks) : b.disks[j] = "busy"})

BeatsRight == FirstIsFull /\ OnlyZerosStripped

(* Over and over, the connection is broken or the master knows everything: *)
(* a slave that stays connected is known and beats on.                     *)
MasterInformed ==
  /\ []<>(link # "up" \/ known = "all")
  /\ []<>(link # "up" \/ wire # <<>>)
=============================================================================
