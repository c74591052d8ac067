----------------------------- MODULE ZurgSlave -----------------------------
(***************************************************************************)
(* examples/zurg/slave: SlaveServiceImpl without getHardware, Process,     *)
(* ChildManager and AppManager, on one event loop, with the kernel's       *)
(* process table, its pid reuse and its single pending SIGCHLD.            *)
(*                                                                         *)
(* Handlers of the loop are atomic: the slave has one thread (Process.cc   *)
(* asserts it).  Between two of them children exit, in any number, and the *)
(* kernel keeps one pending SIGCHLD for all of them.  A child is known by  *)
(* its owner, a command or an application, and by its start time, here the *)
(* number of the fork.                                                     *)
(***************************************************************************)
EXTENDS Naturals, Sequences, FiniteSets

CONSTANTS
  Commands,   \* requests of SlaveService other than those for applications
  Apps,       \* names of applications
  Pids,       \* bound: the pids of the system
  MaxForks    \* bound: forks in the life of the slave

ASSUME PidsAssumption == Pids \subseteq Nat \ {0} /\ IsFiniteSet(Pids)
ASSUME ForksAssumption == MaxForks \in Nat
ASSUME OwnersAssumption == Commands \cap Apps = {} /\ "no one" \notin Commands \cup Apps

VARIABLES
  command,    \* command[c]: "new", "running", "answered" or "dropped"
  dones,      \* dones[c]: how often the done of c ran
  app,        \* app[a]: "absent", or the state of its ApplicationStatus
  process,    \* process[o]: pid_ and startTimeInJiffies_ of o's Process
  proc,       \* proc[p]: the kernel's entry of pid p
  forks,      \* forks so far
  pending,    \* ssi_pid of the pending SIGCHLD, 0 if none
  callbacks,  \* ChildManager::callbacks_, pid -> owner
  functors,   \* queueInLoop: owners whose exit callbacks are to run
  killed      \* <<c, o, s>>: a timeout of c killed child s of o

vars == <<command, dones, app, process, proc, forks, pending, callbacks, functors, killed>>

Owners == Commands \cup Apps
NoOne == "no one"
Free == [state |-> "free", owner |-> NoOne, start |-> 0, exec |-> "no"]
NewProcess == [pid |-> 0, start |-> 0]
Entries == [state : {"free", "alive", "zombie"}, owner : Owners \cup {NoOne},
            start : 0..MaxForks, exec : {"yes", "no"}]

TypeOK ==
  /\ command \in [Commands -> {"new", "running", "answered", "dropped"}]
  /\ dones \in [Commands -> Nat]
  /\ app \in [Apps -> {"absent", "new", "running", "exited", "error"}]
  /\ process \in [Owners -> [pid : Pids \cup {0}, start : 0..MaxForks]]
  /\ proc \in [Pids -> Entries]
  /\ forks \in 0..MaxForks
  /\ pending \in Pids \cup {0}
  /\ DOMAIN callbacks \subseteq Pids
  /\ \A p \in DOMAIN callbacks : callbacks[p] \in Owners
  /\ functors \in Seq(Owners)
  /\ killed \subseteq (Commands \X (Owners \cup {NoOne}) \X (0..MaxForks))

Init ==
  /\ command = [c \in Commands |-> "new"]
  /\ dones = [c \in Commands |-> 0]
  /\ app = [a \in Apps |-> "absent"]
  /\ process = [o \in Owners |-> NewProcess]
  /\ proc = [p \in Pids |-> Free]
  /\ forks = 0
  /\ pending = 0
  /\ callbacks = [p \in {} |-> NoOne]
  /\ functors = <<>>
  /\ killed = {}

-----------------------------------------------------------------------------
(* Process::start: the ways it ends.                                       *)

(* fork() for owner o gives a free pid; the child goes on to exec or not. *)
Fork(o, p, exec) ==
  /\ forks < MaxForks
  /\ proc[p].state = "free"
  /\ forks' = forks + 1
  /\ proc' = [proc EXCEPT ![p] =
       [state |-> "alive", owner |-> o, start |-> forks + 1, exec |-> exec]]

(* ChildManager::runAtExit. *)
RunAtExit(p, o) ==
  callbacks' = [q \in DOMAIN callbacks \cup {p} |-> IF q = p THEN o ELSE callbacks[q]]

(* No fork: too few descriptors, a pipe or fork() itself fails. *)
StartFails == UNCHANGED <<process, proc, forks, callbacks>>

(* execChild: whether the child execs, and what it writes to the execError *)
(* pipe, which exec and exit close.  It writes its start time and, if a    *)
(* call fails, the errno; if it cannot read its own stat file, the errno   *)
(* alone.                                                                  *)
ExecChild == {[exec |-> "yes", writes |-> <<"startTime">>],
              [exec |-> "no", writes |-> <<"startTime", "errno">>],
              [exec |-> "no", writes |-> <<"errno">>]}

(* The i-th read of the pipe by the parent, which has closed its write end. *)
ReadPipe(child, i) == IF i <= Len(child.writes) THEN child.writes[i] ELSE "end"

(* afterFork takes the first value for the start time, whichever it is,    *)
(* and the end after it for success.                                       *)
StartTime(child) == IF ReadPipe(child, 1) = "startTime" THEN forks + 1 ELSE 0

Started(child) == ReadPipe(child, 2) = "end"

(* Process::start with a child. *)
Start(o, child) ==
  \E p \in Pids :
    /\ Fork(o, p, child.exec)
    /\ process' = [process EXCEPT ![o] = [pid |-> p, start |-> StartTime(child)]]

-----------------------------------------------------------------------------
(* SlaveServiceImpl. *)

Answer(c) ==
  /\ dones' = [dones EXCEPT ![c] = @ + 1]
  /\ command' = [command EXCEPT ![c] = "answered"]

(* runCommand with an error from start(): done with the error code.  A     *)
(* child that failed is left to the zombie timer; one that was started is  *)
(* left unwatched if dup() of the pipes of its output fails.               *)
RunCommandFails(c) ==
  /\ command[c] = "new"
  /\ \/ StartFails
     \/ \E child \in ExecChild : Start(c, child) /\ UNCHANGED callbacks
  /\ Answer(c)
  /\ UNCHANGED <<app, pending, functors, killed>>

(* runCommand without: the exit callback and the timer are set. *)
RunCommand(c) ==
  /\ command[c] = "new"
  /\ \E child \in ExecChild : Started(child) /\ Start(c, child)
  /\ RunAtExit(process'[c].pid, c)
  /\ command' = [command EXCEPT ![c] = "running"]
  /\ UNCHANGED <<dones, app, pending, functors, killed>>

(* runScript cannot write its file: "FIXME: done". *)
RunScriptFails(c) ==
  /\ command[c] = "new"
  /\ command' = [command EXCEPT ![c] = "dropped"]
  /\ UNCHANGED <<dones, app, process, proc, forks, pending, callbacks, functors, killed>>

(* getFileContent, listProcesses, and getFileChecksum of no files: done    *)
(* runs in the handler.  getFileChecksum of some files is a runCommand of  *)
(* md5sum whose done sends the sums.                                       *)
AnswerAtOnce(c) ==
  /\ command[c] = "new"
  /\ Answer(c)
  /\ UNCHANGED <<app, process, proc, forks, pending, callbacks, functors, killed>>

(* stopApplication, getApplications, listApplications and                  *)
(* removeApplications have empty bodies: no done.                          *)
NotImplemented(c) ==
  /\ command[c] = "new"
  /\ command' = [command EXCEPT ![c] = "dropped"]
  /\ UNCHANGED <<dones, app, process, proc, forks, pending, callbacks, functors, killed>>

(* A Process lives as long as its exit callback, registered or queued.     *)
ProcessAlive(o) ==
  \/ \E p \in DOMAIN callbacks : callbacks[p] = o
  \/ \E i \in 1..Len(functors) : functors[i] = o

(* Mutant: the start time is not compared. *)
AnyStart(c) == TRUE

(* The process of the pid started when the child did. *)
SameStart(c) == proc[process[c].pid].start = process[c].start

(* onTimeoutWeak: if the Process is still there and the process of its pid *)
(* is a child with its start time, SIGINT.                                 *)
OnTimeout(c) ==
  /\ command[c] = "running"
  /\ ProcessAlive(c)
  /\ LET p == process[c].pid IN
       /\ proc[p].state # "free"
       /\ SameStart(c)
       /\ killed' = killed \cup {<<c, proc[p].owner, proc[p].start>>}
  /\ UNCHANGED <<command, dones, app, process, proc, forks, pending, callbacks, functors>>

-----------------------------------------------------------------------------
(* AppManager. *)

(* add: a new application, or a new request for an old one. *)
AddApplication(a) ==
  /\ app[a] = "absent"
  /\ app' = [app EXCEPT ![a] = "new"]
  /\ UNCHANGED <<command, dones, process, proc, forks, pending, callbacks, functors, killed>>

(* startApp of one that is not running: kRunning and an exit callback, or  *)
(* kError.                                                                 *)
StartApp(a) ==
  /\ app[a] \notin {"absent", "running"}
  /\ \/ /\ \E child \in ExecChild : Started(child) /\ Start(a, child)
        /\ RunAtExit(process'[a].pid, a)
        /\ app' = [app EXCEPT ![a] = "running"]
     \/ /\ \/ StartFails
           \/ \E child \in ExecChild : ~Started(child) /\ Start(a, child) /\ UNCHANGED callbacks
        /\ app' = [app EXCEPT ![a] = "error"]
  /\ UNCHANGED <<command, dones, pending, functors, killed>>

-----------------------------------------------------------------------------
(* ChildManager and the kernel. *)

(* A child ends (external): SIGCHLD, unless one is pending already. *)
ChildExits(p) ==
  /\ proc[p].state = "alive"
  /\ proc' = [proc EXCEPT ![p].state = "zombie"]
  /\ pending' = IF pending = 0 THEN p ELSE pending
  /\ UNCHANGED <<command, dones, app, process, forks, callbacks, functors, killed>>

(* Mutant: the callback is queued but stays registered. *)
StillRegistered(ps) == callbacks

(* callbacks_.erase *)
Unregistered(ps) == [p \in DOMAIN callbacks \ ps |-> callbacks[p]]

(* onExit for the pids ps, in some order: queue the callback and forget it. *)
OnExit(ps) ==
  /\ \E order \in [1..Cardinality(ps \cap DOMAIN callbacks) -> ps \cap DOMAIN callbacks] :
       /\ \A i, j \in DOMAIN order : i # j => order[i] # order[j]
       /\ functors' = functors \o [i \in DOMAIN order |-> callbacks[order[i]]]
  /\ callbacks' = Unregistered(ps)

Reap(ps) == proc' = [p \in Pids |-> IF p \in ps THEN Free ELSE proc[p]]

(* onRead: one siginfo, one wait4 of the pid it names, which the timer may *)
(* have reaped before and which may belong to a new child by now.          *)
OnRead ==
  /\ pending # 0
  /\ pending' = 0
  /\ LET ps == {p \in {pending} : proc[p].state = "zombie"} IN OnExit(ps) /\ Reap(ps)
  /\ UNCHANGED <<command, dones, app, process, forks, killed>>

(* Mutant: the timer reaps the zombies but tells nobody. *)
OnTimerSilent ==
  /\ \E p \in Pids : proc[p].state = "zombie"
  /\ Reap({p \in Pids : proc[p].state = "zombie"})
  /\ UNCHANGED <<command, dones, app, process, forks, pending, callbacks, functors, killed>>

(* onTimer: wait4(-1) until there is no zombie left. *)
OnTimer ==
  /\ LET ps == {p \in Pids : proc[p].state = "zombie"} IN
       ps # {} /\ OnExit(ps) /\ Reap(ps)
  /\ UNCHANGED <<command, dones, app, process, forks, pending, killed>>

(* doPendingFunctors: onCommandExit answers, onProcessExit marks the       *)
(* application.                                                            *)
RunFunctor ==
  /\ functors # <<>>
  /\ functors' = Tail(functors)
  /\ \/ /\ Head(functors) \in Commands
        /\ Answer(Head(functors))
        /\ UNCHANGED app
     \/ /\ Head(functors) \in Apps
        /\ app' = [app EXCEPT ![Head(functors)] = "exited"]
        /\ UNCHANGED <<command, dones>>
  /\ UNCHANGED <<process, proc, forks, pending, callbacks, killed>>

-----------------------------------------------------------------------------
Next ==
  \/ \E c \in Commands : RunCommandFails(c) \/ RunCommand(c) \/ RunScriptFails(c)
                          \/ AnswerAtOnce(c) \/ NotImplemented(c) \/ OnTimeout(c)
  \/ \E a \in Apps : AddApplication(a) \/ StartApp(a)
  \/ \E p \in Pids : ChildExits(p)
  \/ OnRead
  \/ OnTimer
  \/ RunFunctor

Spec == Init /\ [][Next]_vars

(* The loop handles what is ready; a child that could not exec exits.      *)
Fairness ==
  /\ WF_vars(OnRead)
  /\ WF_vars(OnTimer)
  /\ WF_vars(RunFunctor)
  /\ \A p \in Pids : WF_vars(proc[p].exec = "no" /\ ChildExits(p))

FairSpec == Spec /\ Fairness

-----------------------------------------------------------------------------
(* Properties. *)

(* runAtExit's assertion: a pid that fork() may return has no callback     *)
(* from an earlier child, though pids are reused and exit callbacks run    *)
(* late.                                                                   *)
FreePidHasNoCallback ==
  \A p \in Pids : proc[p].state = "free" => p \notin DOMAIN callbacks

(* An exit is reported only of a child that has been waited for: a siginfo *)
(* that outlived its child, with the pid reused by another, ends nobody.   *)
ReportedIsReaped ==
  \A i \in 1..Len(functors) : proc[process[functors[i]].pid].owner # functors[i]

(* The done of a command runs at most once, whether start() failed, the    *)
(* signal or the timer reported the exit.                                  *)
DoneAtMostOnce == \A c \in Commands : dones[c] <= 1

(* An application never has two processes that were exec'ed. *)
OneProcessPerApp ==
  \A a \in Apps : \A p, q \in Pids :
    (/\ proc[p].state = "alive" /\ proc[p].owner = a /\ proc[p].exec = "yes"
     /\ proc[q].state = "alive" /\ proc[q].owner = a /\ proc[q].exec = "yes") => p = q

(* What is reported running will be reported ended: there is an exit       *)
(* callback for it, registered or queued.                                  *)
RunningIsWatched ==
  /\ \A a \in Apps : app[a] = "running" => ProcessAlive(a)
  /\ \A c \in Commands : command[c] = "running" => ProcessAlive(c)

(* A timeout signals the child of its own command, never a later child     *)
(* that got the same pid.                                                  *)
TimeoutKillsOwnChild ==
  \A k \in killed : k[2] = k[1] /\ k[3] = process[k[1]].start

(* A command whose child has ended is answered, even if its SIGCHLD was    *)
(* merged with another one.                                                *)
ExitIsReported ==
  \A c \in Commands :
    (command[c] = "running" /\ \A p \in Pids : proc[p].owner = c => proc[p].state # "alive")
      ~> (command[c] = "answered")

(* Pids, callbacks, reports and owners fit together while pids are reused. *)
PidsConsistent ==
  TypeOK /\ FreePidHasNoCallback /\ ReportedIsReaped /\ OneProcessPerApp /\ DoneAtMostOnce
=============================================================================
