---------------------------- MODULE ZurgHardware ----------------------------
(***************************************************************************)
(* examples/zurg/slave: getHardware.  A GetHardwareTask runs some commands *)
(* through runCommand and answers when all of them have; the output of a   *)
(* command comes through a pipe into a Sink on the event loop.  ZurgSlave  *)
(* models how exits are found; here a child that has ended has its exit    *)
(* callback queued some time later.                                        *)
(*                                                                         *)
(* Handlers of the loop are atomic (one thread); between them children     *)
(* write and end.  A Sink is modelled for stdout; the one for stderr is    *)
(* alike and independent.  Output is measured in units.                    *)
(***************************************************************************)
EXTENDS Naturals, Sequences, FiniteSets

CONSTANTS
  Commands,    \* commands of the task
  Lshw,        \* the one that is run only on request
  MaxLength,   \* maxLength_ of a Sink
  PipeSize     \* bound: what a pipe holds

\* There are always others.
ASSUME LshwAssumption == Lshw \in Commands /\ Commands # {Lshw}
ASSUME SizesAssumption == MaxLength \in Nat /\ PipeSize \in Nat \ {0}

VARIABLES
  wanted,      \* commands that are run: all, or all but Lshw
  started,     \* "yes" after start()
  child,       \* child[c]: "none", "alive", "ended" or "reaped"
  pipe,        \* pipe[c]: units in the pipe
  events,      \* events[c]: "on", or "off" for isNoneEvent
  fd,          \* fd[c]: "none", "open" or "closed": fd_ of the Sink
  closes,      \* closes[c]: how often the descriptor was closed
  buf,         \* buf[c]: units in the Sink's buffer
  functors,    \* queueInLoop: <<"exit" or "close", c>>
  finished,    \* commands whose KEYDone_ is set
  dones        \* how often done_ ran

vars == <<wanted, started, child, pipe, events, fd, closes, buf, functors, finished, dones>>

TypeOK ==
  /\ wanted \in {Commands, Commands \ {Lshw}}
  /\ started \in {"no", "yes"}
  /\ child \in [Commands -> {"none", "alive", "ended", "reaped"}]
  /\ pipe \in [Commands -> 0..PipeSize]
  /\ events \in [Commands -> {"on", "off"}]
  /\ fd \in [Commands -> {"none", "open", "closed"}]
  /\ closes \in [Commands -> Nat]
  /\ buf \in [Commands -> Nat]
  /\ functors \in Seq({"exit", "close"} \X Commands)
  /\ finished \subseteq wanted
  /\ dones \in Nat

Init ==
  /\ wanted \in {Commands, Commands \ {Lshw}}
  /\ started = "no"
  /\ child = [c \in Commands |-> "none"]
  /\ pipe = [c \in Commands |-> 0]
  /\ events = [c \in Commands |-> "off"]
  /\ fd = [c \in Commands |-> "none"]
  /\ closes = [c \in Commands |-> 0]
  /\ buf = [c \in Commands |-> 0]
  /\ functors = <<>>
  /\ finished = {}
  /\ dones = 0

-----------------------------------------------------------------------------
(* GetHardwareTask. *)

(* Mutant: any of the three others is enough. *)
AllDoneAny(done) == done # {} /\ (Lshw \in wanted => Lshw \in done)

(* checkAllDone. *)
AllDone(done) == wanted \subseteq done

(* KEYDone, which is run with an error at once or at the exit. *)
CommandDone(cs) ==
  /\ finished' = finished \cup cs
  /\ dones' = IF cs # {} /\ AllDone(finished') THEN dones + 1 ELSE dones

(* start: every command is started, some fail and are done at once, the    *)
(* others have a child and a Sink that listens.                            *)
Start(fails) ==
  /\ started = "no"
  /\ started' = "yes"
  /\ child' = [c \in Commands |-> IF c \in wanted \ fails THEN "alive" ELSE "none"]
  /\ events' = [c \in Commands |-> IF c \in wanted \ fails THEN "on" ELSE "off"]
  /\ fd' = [c \in Commands |-> IF c \in wanted \ fails THEN "open" ELSE "none"]
  /\ CommandDone(fails)
  /\ UNCHANGED <<wanted, pipe, closes, buf, functors>>

-----------------------------------------------------------------------------
(* The children (external). *)

Write(c) ==
  /\ child[c] = "alive" /\ fd[c] = "open"
  /\ pipe[c] < PipeSize
  /\ pipe' = [pipe EXCEPT ![c] = @ + 1]
  /\ UNCHANGED <<wanted, started, child, events, fd, closes, buf, functors, finished, dones>>

(* It exits, or writes into a pipe whose reader is gone. *)
End(c) ==
  /\ child[c] = "alive"
  /\ child' = [child EXCEPT ![c] = "ended"]
  /\ UNCHANGED <<wanted, started, pipe, events, fd, closes, buf, functors, finished, dones>>

(* ChildManager has waited for it and queues onCommandExit. *)
Reap(c) ==
  /\ child[c] = "ended"
  /\ child' = [child EXCEPT ![c] = "reaped"]
  /\ functors' = Append(functors, <<"exit", c>>)
  /\ UNCHANGED <<wanted, started, pipe, events, fd, closes, buf, finished, dones>>

-----------------------------------------------------------------------------
(* Sink. *)

(* Mutant: the channel is disabled at the limit, but the pipe not closed. *)
OnReadNoClose(c, n) ==
  /\ events[c] = "on"
  /\ pipe' = [pipe EXCEPT ![c] = @ - n]
  /\ buf' = [buf EXCEPT ![c] = @ + n]
  /\ events' = [events EXCEPT ![c] = IF buf'[c] > MaxLength THEN "off" ELSE "on"]
  /\ UNCHANGED <<wanted, started, child, fd, closes, functors, finished, dones>>

(* onRead of n units; over the limit nothing more is read and the pipe is  *)
(* closed in a functor, so that the child cannot write any more.           *)
OnRead(c, n) ==
  /\ events[c] = "on"
  /\ pipe' = [pipe EXCEPT ![c] = @ - n]
  /\ buf' = [buf EXCEPT ![c] = @ + n]
  /\ IF buf'[c] > MaxLength
       THEN /\ events' = [events EXCEPT ![c] = "off"]
            /\ functors' = Append(functors, <<"close", c>>)
       ELSE UNCHANGED <<events, functors>>
  /\ UNCHANGED <<wanted, started, child, fd, closes, finished, dones>>

(* onRead of the end, or onClose. *)
OnClose(c) ==
  /\ events[c] = "on"
  /\ pipe[c] = 0 /\ child[c] \in {"ended", "reaped"}
  /\ events' = [events EXCEPT ![c] = "off"]
  /\ UNCHANGED <<wanted, started, child, pipe, fd, closes, buf, functors, finished, dones>>

(* Mutant: fd_ is not reset. *)
DelayedCloseKeepsFd(c) ==
  /\ closes' = [closes EXCEPT ![c] = @ + 1]
  /\ pipe' = [pipe EXCEPT ![c] = 0]
  /\ UNCHANGED <<events, fd, finished, dones>>

(* The descriptor is closed once and for all, what is in the pipe is lost. *)
Close(c) ==
  /\ fd' = [fd EXCEPT ![c] = "closed"]
  /\ closes' = [closes EXCEPT ![c] = @ + 1]
  /\ pipe' = [pipe EXCEPT ![c] = 0]

(* delayedClose. *)
DelayedClose(c) ==
  /\ Close(c)
  /\ UNCHANGED <<events, finished, dones>>

(* onCommandExit: stop() the Sink, answer with what it has read, and let   *)
(* go of the Process and so of the Sink, unless delayedClose holds it: the *)
(* destructor closes what is still open.                                   *)
OnCommandExit(c) ==
  /\ events' = [events EXCEPT ![c] = "off"]
  /\ CommandDone({c})
  /\ IF fd[c] = "open" /\ \A i \in 2..Len(functors) : functors[i] # <<"close", c>>
       THEN Close(c)
       ELSE UNCHANGED <<fd, closes, pipe>>

(* doPendingFunctors. *)
RunFunctor ==
  /\ functors # <<>>
  /\ functors' = Tail(functors)
  /\ LET c == Head(functors)[2] IN
       \/ Head(functors)[1] = "close" /\ DelayedClose(c)
       \/ Head(functors)[1] = "exit" /\ OnCommandExit(c)
  /\ UNCHANGED <<wanted, started, child, buf>>

-----------------------------------------------------------------------------
Next ==
  \/ \E fails \in SUBSET wanted : Start(fails)
  \/ \E c \in Commands :
       \/ Write(c) \/ End(c) \/ Reap(c) \/ OnClose(c)
       \/ \E n \in 1..pipe[c] : OnRead(c, n)
  \/ RunFunctor

Spec == Init /\ [][Next]_vars

(* The loop runs; a child that has not ended writes on, or ends if it is   *)
(* stopped from writing.                                                   *)
Fairness ==
  /\ \A c \in Commands :
       /\ WF_vars(Reap(c))
       /\ WF_vars(\E n \in 1..pipe[c] : OnRead(c, n))
       /\ WF_vars(Write(c))
       /\ WF_vars(fd[c] = "closed" /\ End(c))
  /\ WF_vars(RunFunctor)

FairSpec == Spec /\ Fairness

-----------------------------------------------------------------------------
(* Properties. *)

(* done_ runs once, when the last command is done, though commands that    *)
(* cannot be started are done while others are still to be started and     *)
(* lshw may not be wanted.                                                 *)
AnsweredOnceAtTheEnd ==
  /\ dones <= 1
  /\ dones = 1 <=> (started = "yes" /\ finished = wanted)

(* Assertions of Sink: the channel is disabled when it is removed, by      *)
(* delayedClose or by the destructor, and delayedClose finds it open.      *)
RemovedDisabled ==
  \A c \in Commands :
    /\ fd[c] = "closed" => events[c] = "off"
    /\ \A i \in 1..Len(functors) :
         functors[i] = <<"close", c>> => events[c] = "off" /\ fd[c] = "open"

(* The pipe of a command is closed once, be it by the limit, by the exit   *)
(* or by both: a second close would hit a descriptor that was reused.      *)
ClosedOnce ==
  \A c \in Commands :
    /\ closes[c] <= 1
    /\ c \in finished /\ fd[c] # "none" /\ functors = <<>> => closes[c] = 1

(* A Sink holds no more than its limit and one read. *)
BoundedOutput == \A c \in Commands : buf[c] <= MaxLength + PipeSize

(* The task answers even if a command would never stop to write. *)
TaskAnswers == (started = "yes") ~> (dones = 1)

(* Channels and descriptors of the Sinks are removed and closed in order,  *)
(* once, and their memory is bounded.                                      *)
SinksSafe == TypeOK /\ RemovedDisabled /\ ClosedOnce /\ BoundedOutput
=============================================================================
