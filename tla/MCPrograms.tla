---------------------------- MODULE MCPrograms ----------------------------
(* Instances for TLC of the programs that call stubs in a loop, and of the  *)
(* format on the wire.  They share nothing: each behaviour runs one of      *)
(* them, the others have ended or never started.                            *)
EXTENDS EchoBenchInstance, HeartbeatInstance, WireInstance, Integers, Sequences

CONSTANTS Boards, Threads, Thresholds, MaxSpread

VARIABLES client, n, threshold, part, qlink, results, total, outcome

Queens == INSTANCE NQueens WITH link <- qlink

ASSUME BenchAssumption == BenchAssumed
ASSUME BeatAssumption == BeatAssumed
ASSUME FormatAssumption == FormatAssumed

queensVars == <<client, n, threshold, part, qlink, results, total, outcome>>
benchVars == <<prog, stage, nth, sends, latch, allFinished, connection, flight, replies, ended,
               stopping, counts, lastTotal>>
beatVars == <<link, conn, beating, wire, file, known, crashed>>
wireVars == <<sender, receiver, sent, bytes, buffer, socket, phase, length, received, taken>>

\* None; zeros at the end; no zeros at the end; zeros in between.
Interrupts == {<<>>, <<"n", "0", "0">>, <<"n", "0", "n">>, <<"n", "0", "n", "0">>}
Disks == {<<"idle", "busy">>, <<"busy", "idle", "idle", "busy">>}

QueensEnded ==
  /\ client = "cpp" /\ n = 2 /\ threshold = 14 /\ part = [s \in {<<0, -1>>} |-> "new"]
  /\ qlink = "down" /\ results = <<>> /\ total = 0 /\ outcome = "quit"

BenchEnded ==
  /\ prog = "client" /\ stage = "done" /\ nth = 1 /\ sends = 0 /\ latch = 0 /\ allFinished = 0
  /\ connection = [c \in 1..NumClients |-> "lost"] /\ stopping = {}
  /\ flight = [c \in 1..NumClients |-> 0] /\ replies = [c \in 1..NumClients |-> KRequests]
  /\ ended = [c \in 1..NumClients |-> TRUE]
  /\ counts = [t \in 0..(NumThreads - 1) |-> <<>>] /\ lastTotal = [t \in 0..(NumThreads - 1) |-> 0]

SlaveNotStarted ==
  /\ link = "off" /\ conn = "null" /\ beating = FALSE /\ wire = <<>>
  /\ file = "unopened" /\ known = "nothing" /\ crashed = FALSE

NoConnection ==
  /\ sender = "go" /\ receiver = "go" /\ sent = <<>> /\ bytes = <<>> /\ buffer = <<>>
  /\ socket = "down" /\ phase = "end" /\ length = 0 /\ received = <<>> /\ taken = 0

Init ==
  \/ Queens!Init /\ BenchEnded /\ SlaveNotStarted /\ NoConnection
  \/ QueensEnded /\ Bench!Init /\ SlaveNotStarted /\ NoConnection
  \/ QueensEnded /\ BenchEnded /\ Pulse!Init /\ NoConnection
  \/ QueensEnded /\ BenchEnded /\ SlaveNotStarted /\ Format!Init

Next ==
  \/ Queens!Next /\ UNCHANGED <<benchVars, beatVars, wireVars>>
  \/ Bench!Next /\ UNCHANGED <<queensVars, beatVars, wireVars>>
  \/ link # "off" /\ Pulse!Next /\ UNCHANGED <<queensVars, benchVars, wireVars>>
  \/ Format!Next /\ UNCHANGED <<queensVars, benchVars, beatVars>>

FairSpec ==
  /\ Init /\ [][Next]_<<queensVars, benchVars, beatVars, wireVars>>
  /\ Queens!Fairness /\ Bench!Fairness /\ Pulse!Fairness /\ Format!Fairness

(* nqueens: the total printed is the number of solutions. *)
TotalRight == Queens!TotalRight

(* The n-queens client and the benchmarks come to an end, unless their     *)
(* connection is lost, a slave that stays connected is known, and what is  *)
(* sent is received.                                                       *)
ProgramsEnd ==
  Queens!SolveEnds /\ Bench!BenchEnds /\ Pulse!MasterInformed /\ Format!SentIsTaken
=============================================================================
