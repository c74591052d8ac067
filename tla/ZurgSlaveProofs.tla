-------------------------- MODULE ZurgSlaveProofs --------------------------
(***************************************************************************)
(* Proofs about ZurgSlave for every set of commands and of applications,   *)
(* every finite set of pids and every number of forks; the second half is  *)
(* about Heartbeat.                                                        *)
(***************************************************************************)
EXTENDS ZurgSlave, HeartbeatInstance, FiniteSetTheorems, SequenceTheorems, NaturalsInduction, TLAPS

Running(o) ==
  \/ o \in Commands /\ command[o] = "running"
  \/ o \in Apps /\ app[o] = "running"

(* Forks are numbered: a start time in the kernel's table or in a Process  *)
(* is one that was given, and names the owner.                             *)
StartsNameOwners ==
  /\ \A p \in Pids : proc[p].state # "free" => proc[p].start >= 1
  /\ \A p \in Pids : proc[p].start <= forks
  /\ \A o \in Owners : process[o].start <= forks
  /\ \A p \in Pids, o \in Owners :
       proc[p].state # "free" /\ proc[p].start = process[o].start => proc[p].owner = o

(* A callback is that of the child that has the pid, whose owner runs.     *)
CallbacksMatch ==
  \A p \in DOMAIN callbacks :
    /\ proc[p].state # "free"
    /\ proc[p].owner = callbacks[p]
    /\ process[callbacks[p]].pid = p
    /\ Running(callbacks[p])

(* A queued callback is that of a child that was reaped, whose owner runs. *)
Queued(o) == \E i \in 1..Len(functors) : functors[i] = o
FunctorsMatch ==
  /\ \A i \in 1..Len(functors) :
       /\ Running(functors[i])
       /\ process[functors[i]].pid \in Pids
       /\ proc[process[functors[i]].pid].owner # functors[i]
  /\ \A i, j \in 1..Len(functors) : functors[i] = functors[j] => i = j
  /\ \A p \in DOMAIN callbacks : ~Queued(callbacks[p])

(* An application's child that was exec'ed has its callback. *)
AppsWatched ==
  \A p \in Pids : proc[p].state # "free" /\ proc[p].owner \in Apps /\ proc[p].exec = "yes"
                    => p \in DOMAIN callbacks

(* What was answered is counted. *)
DonesCounted ==
  \A c \in Commands : dones[c] = IF command[c] = "answered" THEN 1 ELSE 0

(* A timeout signals a child of its own, of a command that was started. *)
KillsMatch ==
  \A k \in killed : command[k[1]] # "new" /\ k[2] = k[1] /\ k[3] = process[k[1]].start

IndInv ==
  /\ TypeOK
  /\ StartsNameOwners
  /\ CallbacksMatch
  /\ FunctorsMatch
  /\ AppsWatched
  /\ RunningIsWatched
  /\ DonesCounted
  /\ KillsMatch

-----------------------------------------------------------------------------
LEMMA OwnerFacts ==
  /\ Owners = Commands \cup Apps
  /\ \A o \in Owners : o # NoOne
  /\ \A o : ~(o \in Commands /\ o \in Apps)
  BY OwnersAssumption DEF Owners, NoOne

LEMMA TypeFacts ==
  ASSUME TypeOK
  PROVE  /\ \A p \in DOMAIN callbacks : p \in Pids /\ callbacks[p] \in Owners
         /\ functors \in Seq(Owners)
         /\ \A i \in 1..Len(functors) : functors[i] \in Owners
<1>1. functors \in Seq(Owners)
  BY DEF TypeOK
<1>2. \A i \in 1..Len(functors) : functors[i] \in Owners
  BY <1>1
<1> QED BY <1>1, <1>2 DEF TypeOK

LEMMA IndInit == Init => IndInv
<1> SUFFICES ASSUME Init PROVE IndInv
  OBVIOUS
<1>1. /\ \A c \in Commands : command[c] = "new" /\ dones[c] = 0
      /\ \A a \in Apps : app[a] = "absent"
      /\ \A o \in Owners : process[o] = NewProcess
      /\ \A p \in Pids : proc[p] = Free
      /\ forks = 0 /\ pending = 0 /\ functors = <<>> /\ killed = {}
      /\ DOMAIN callbacks = {}
  BY DEF Init
<1>2. TypeOK
  <2>1. Free \in Entries /\ NewProcess \in [pid : Pids \cup {0}, start : 0..MaxForks]
    BY ForksAssumption DEF Free, NewProcess, Entries
  <2>2. forks \in 0..MaxForks
    BY <1>1, ForksAssumption
  <2>3. functors \in Seq(Owners)
    BY <1>1
  <2>4. /\ command \in [Commands -> {"new", "running", "answered", "dropped"}]
        /\ dones \in [Commands -> Nat]
        /\ app \in [Apps -> {"absent", "new", "running", "exited", "error"}]
    BY DEF Init
  <2>5. /\ process \in [Owners -> [pid : Pids \cup {0}, start : 0..MaxForks]]
        /\ proc \in [Pids -> Entries]
    BY <2>1 DEF Init
  <2> QED BY <1>1, <2>2, <2>3, <2>4, <2>5 DEF TypeOK
<1>3. StartsNameOwners
  <2>1. Free.state = "free" /\ Free.start = 0 /\ NewProcess.start = 0
    BY DEF Free, NewProcess
  <2> QED BY <1>1, <2>1 DEF StartsNameOwners
<1>4. CallbacksMatch /\ FunctorsMatch
  BY <1>1 DEF CallbacksMatch, FunctorsMatch, Queued
<1>5. AppsWatched
  <2>1. Free.state = "free"
    BY DEF Free
  <2> QED BY <1>1, <2>1 DEF AppsWatched
<1>6. RunningIsWatched /\ DonesCounted /\ KillsMatch
  BY <1>1 DEF RunningIsWatched, DonesCounted, KillsMatch
<1> QED BY <1>2, <1>3, <1>4, <1>5, <1>6 DEF IndInv

(* Who runs is watched, in terms of owners. *)
LEMMA Watching == RunningIsWatched <=> \A o \in Owners : Running(o) => ProcessAlive(o)
  BY OwnerFacts DEF RunningIsWatched, Running

LEMMA WatchingPrime == RunningIsWatched' <=> \A o \in Owners : Running(o)' => ProcessAlive(o)'
  BY OwnerFacts DEF RunningIsWatched, Running

-----------------------------------------------------------------------------
(* A handler that changes commands and applications, but not who runs. *)
LEMMA IndStatus ==
  ASSUME IndInv,
         UNCHANGED <<process, proc, forks, pending, callbacks, functors, killed>>,
         command' \in [Commands -> {"new", "running", "answered", "dropped"}],
         dones' \in [Commands -> Nat],
         app' \in [Apps -> {"absent", "new", "running", "exited", "error"}],
         \A o \in Owners : Running(o)' <=> Running(o),
         \A c \in Commands : command[c] # "new" => command'[c] # "new",
         DonesCounted'
  PROVE  IndInv'
<1> USE DEF IndInv
<1>1. TypeOK'
  BY DEF TypeOK
<1>2. StartsNameOwners' /\ AppsWatched'
  BY DEF StartsNameOwners, AppsWatched
<1>3. CallbacksMatch' /\ FunctorsMatch'
  BY TypeFacts DEF CallbacksMatch, FunctorsMatch, Queued
<1>4. RunningIsWatched'
  BY Watching, WatchingPrime DEF ProcessAlive
<1>5. KillsMatch'
  BY DEF KillsMatch, TypeOK
<1> QED BY <1>1, <1>2, <1>3, <1>4, <1>5

LEMMA Answers ==
  ASSUME IndInv, NEW c \in Commands, command[c] # "answered", Answer(c)
  PROVE  /\ command' \in [Commands -> {"new", "running", "answered", "dropped"}]
         /\ dones' \in [Commands -> Nat]
         /\ command'[c] = "answered"
         /\ \A d \in Commands \ {c} : command'[d] = command[d]
         /\ DonesCounted'
<1>1. command \in [Commands -> {"new", "running", "answered", "dropped"}] /\ dones \in [Commands -> Nat]
  BY DEF IndInv, TypeOK
<1>2. /\ command' = [command EXCEPT ![c] = "answered"]
      /\ dones' = [dones EXCEPT ![c] = dones[c] + 1]
  BY DEF Answer
<1>3. dones' \in [Commands -> Nat]
  BY <1>1, <1>2
<1>4. dones[c] = 0
  BY DEF IndInv, DonesCounted
<1> QED BY <1>1, <1>2, <1>3, <1>4 DEF IndInv, DonesCounted

LEMMA IndDropped ==
  ASSUME IndInv, NEW c \in Commands, RunScriptFails(c) \/ NotImplemented(c)
  PROVE  IndInv'
<1>1. /\ command[c] = "new" /\ command' = [command EXCEPT ![c] = "dropped"]
      /\ UNCHANGED <<dones, app, process, proc, forks, pending, callbacks, functors, killed>>
  BY DEF RunScriptFails, NotImplemented
<1>2. /\ command \in [Commands -> {"new", "running", "answered", "dropped"}]
      /\ dones \in [Commands -> Nat]
      /\ app \in [Apps -> {"absent", "new", "running", "exited", "error"}]
  BY DEF IndInv, TypeOK
<1>3. command'[c] = "dropped" /\ \A d \in Commands \ {c} : command'[d] = command[d]
  BY <1>1, <1>2
<1>4. command' \in [Commands -> {"new", "running", "answered", "dropped"}]
  BY <1>1, <1>2
<1>5. \A o \in Owners : Running(o)' <=> Running(o)
  BY <1>1, <1>3 DEF Running
<1>6. DonesCounted'
  BY <1>1, <1>3 DEF IndInv, DonesCounted
<1> QED BY <1>1, <1>2, <1>3, <1>4, <1>5, <1>6, IndStatus

LEMMA IndAnswerAtOnce ==
  ASSUME IndInv, NEW c \in Commands, command[c] = "new", Answer(c),
         UNCHANGED <<app, process, proc, forks, pending, callbacks, functors, killed>>
  PROVE  IndInv'
<1>1. app \in [Apps -> {"absent", "new", "running", "exited", "error"}]
  BY DEF IndInv, TypeOK
<1>2. /\ command' \in [Commands -> {"new", "running", "answered", "dropped"}]
      /\ dones' \in [Commands -> Nat]
      /\ command'[c] = "answered"
      /\ \A d \in Commands \ {c} : command'[d] = command[d]
      /\ DonesCounted'
  BY Answers
<1>3. \A o \in Owners : Running(o)' <=> Running(o)
  BY <1>2 DEF Running
<1> QED BY <1>1, <1>2, <1>3, IndStatus

LEMMA AppStatus ==
  ASSUME IndInv, NEW a \in Apps, app[a] # "running",
         NEW x \in {"new", "error"}, app' = [app EXCEPT ![a] = x],
         UNCHANGED <<command, dones, process, proc, forks, pending, callbacks, functors, killed>>
  PROVE  IndInv'
<1>1. /\ command \in [Commands -> {"new", "running", "answered", "dropped"}]
      /\ dones \in [Commands -> Nat]
      /\ app \in [Apps -> {"absent", "new", "running", "exited", "error"}]
  BY DEF IndInv, TypeOK
<1>2. app'[a] = x /\ \A d \in Apps \ {a} : app'[d] = app[d]
  BY <1>1
<1>3. app' \in [Apps -> {"absent", "new", "running", "exited", "error"}]
  BY <1>1
<1>4. \A o \in Owners : Running(o)' <=> Running(o)
  BY <1>2 DEF Running
<1>5. DonesCounted'
  BY DEF IndInv, DonesCounted
<1> QED BY <1>1, <1>3, <1>4, <1>5, IndStatus

LEMMA IndAddApplication ==
  ASSUME IndInv, NEW a \in Apps, AddApplication(a)
  PROVE  IndInv'
  BY AppStatus DEF AddApplication

-----------------------------------------------------------------------------
(* Process::start with a child. *)
LEMMA StartFacts ==
  ASSUME TypeOK, NEW o \in Owners, NEW child \in ExecChild, Start(o, child)
  PROVE  \E p \in Pids :
           /\ proc[p].state = "free"
           /\ forks' = forks + 1 /\ forks' \in 0..MaxForks /\ forks \in Nat
           /\ proc' \in [Pids -> Entries]
           /\ process' \in [Owners -> [pid : Pids \cup {0}, start : 0..MaxForks]]
           /\ proc'[p].state = "alive" /\ proc'[p].owner = o /\ proc'[p].exec = child.exec
           /\ proc'[p].start = forks + 1
           /\ \A q \in Pids \ {p} : proc'[q] = proc[q]
           /\ process'[o].pid = p
           /\ process'[o].start = 0 \/ process'[o].start = forks + 1
           /\ \A d \in Owners \ {o} : process'[d] = process[d]
<1> DEFINE s == StartTime(child)
<1>1. PICK p \in Pids :
        /\ Fork(o, p, child.exec)
        /\ process' = [process EXCEPT ![o] = [pid |-> p, start |-> s]]
  BY DEF Start
<1>2. /\ proc \in [Pids -> Entries] /\ forks \in 0..MaxForks
      /\ process \in [Owners -> [pid : Pids \cup {0}, start : 0..MaxForks]]
  BY DEF TypeOK
<1>3. /\ proc[p].state = "free" /\ forks < MaxForks /\ forks' = forks + 1
      /\ proc' = [proc EXCEPT ![p] =
           [state |-> "alive", owner |-> o, start |-> forks + 1, exec |-> child.exec]]
  BY <1>1 DEF Fork
<1>4. forks + 1 \in 0..MaxForks /\ 0 \in 0..MaxForks /\ forks \in Nat
  BY <1>2, <1>3, ForksAssumption
<1>5. child.exec \in {"yes", "no"} /\ (s = 0 \/ s = forks + 1)
  BY DEF ExecChild, StartTime
<1> HIDE DEF s
<1>6. [pid |-> p, start |-> s] \in [pid : Pids \cup {0}, start : 0..MaxForks]
  BY <1>4, <1>5
<1>7. [state |-> "alive", owner |-> o, start |-> forks + 1, exec |-> child.exec] \in Entries
  BY <1>4, <1>5 DEF Entries
<1>8. proc' \in [Pids -> Entries]
  BY <1>2, <1>3, <1>7
<1>9. process' \in [Owners -> [pid : Pids \cup {0}, start : 0..MaxForks]]
  BY <1>1, <1>2, <1>6
<1>10. /\ proc'[p] = [state |-> "alive", owner |-> o, start |-> forks + 1, exec |-> child.exec]
       /\ \A q \in Pids \ {p} : proc'[q] = proc[q]
  BY <1>2, <1>3
<1>11. /\ process'[o] = [pid |-> p, start |-> s]
       /\ \A d \in Owners \ {o} : process'[d] = process[d]
  BY <1>1, <1>2
<1> WITNESS p \in Pids
<1> QED BY <1>3, <1>4, <1>5, <1>8, <1>9, <1>10, <1>11

(* An owner that does not run gets a child, with a callback if it runs     *)
(* then, and without one if not.                                           *)
LEMMA IndStart ==
  ASSUME IndInv, NEW o \in Owners, ~Running(o), NEW child \in ExecChild, Start(o, child),
         UNCHANGED <<pending, functors, killed>>,
         command' \in [Commands -> {"new", "running", "answered", "dropped"}],
         dones' \in [Commands -> Nat],
         app' \in [Apps -> {"absent", "new", "running", "exited", "error"}],
         \A d \in Owners \ {o} : Running(d)' <=> Running(d),
         o \in Commands => command[o] = "new",
         \A c \in Commands : command[c] # "new" => command'[c] # "new",
         DonesCounted',
         \/ Running(o)' /\ RunAtExit(process'[o].pid, o)
         \/ ~Running(o)' /\ UNCHANGED callbacks /\ (o \in Apps => child.exec = "no")
  PROVE  IndInv'
<1> USE DEF IndInv
<1>1. PICK p \in Pids :
           /\ proc[p].state = "free"
           /\ forks' = forks + 1 /\ forks' \in 0..MaxForks /\ forks \in Nat
           /\ proc' \in [Pids -> Entries]
           /\ process' \in [Owners -> [pid : Pids \cup {0}, start : 0..MaxForks]]
           /\ proc'[p].state = "alive" /\ proc'[p].owner = o /\ proc'[p].exec = child.exec
           /\ proc'[p].start = forks + 1
           /\ \A q \in Pids \ {p} : proc'[q] = proc[q]
           /\ process'[o].pid = p
           /\ process'[o].start = 0 \/ process'[o].start = forks + 1
           /\ \A d \in Owners \ {o} : process'[d] = process[d]
  BY StartFacts
<1>2. /\ p \notin DOMAIN callbacks
      /\ \A q \in DOMAIN callbacks : q \in Pids /\ callbacks[q] \in Owners /\ callbacks[q] # o /\ q # p
      /\ \A i \in 1..Len(functors) : functors[i] \in Owners /\ functors[i] # o
  BY <1>1, TypeFacts DEF CallbacksMatch, FunctorsMatch
<1>3. \/ UNCHANGED callbacks /\ ~Running(o)' /\ (o \in Apps => child.exec = "no")
      \/ /\ Running(o)' /\ DOMAIN callbacks' = DOMAIN callbacks \cup {p}
         /\ callbacks'[p] = o
         /\ \A q \in DOMAIN callbacks : callbacks'[q] = callbacks[q]
  <2>1. CASE RunAtExit(process'[o].pid, o) /\ Running(o)'
    <3>1. callbacks' = [q \in DOMAIN callbacks \cup {p} |-> IF q = p THEN o ELSE callbacks[q]]
      BY <1>1, <2>1 DEF RunAtExit
    <3> QED BY <1>2, <2>1, <3>1
  <2> QED BY <2>1
<1>4. TypeOK'
  <2>1. DOMAIN callbacks' \subseteq Pids /\ \A q \in DOMAIN callbacks' : callbacks'[q] \in Owners
    BY <1>2, <1>3
  <2> QED BY <1>1, <2>1 DEF TypeOK
<1>5. StartsNameOwners'
  <2>1. /\ \A q \in Pids : proc[q].start \in 0..MaxForks
        /\ \A d \in Owners : process[d].start \in 0..MaxForks
    BY DEF TypeOK, Entries
  <2>2. /\ \A q \in Pids : proc'[q].start <= forks'
        /\ \A d \in Owners : process'[d].start <= forks'
        /\ \A q \in Pids : proc'[q].state # "free" => proc'[q].start >= 1
    BY <1>1, <2>1, ForksAssumption DEF StartsNameOwners
  <2>3. ASSUME NEW q \in Pids, NEW d \in Owners, proc'[q].state # "free",
               proc'[q].start = process'[d].start
        PROVE  proc'[q].owner = d
    <3>1. CASE q = p /\ d = o
      BY <1>1, <3>1
    <3>2. CASE q = p /\ d # o
      <4>1. process[d].start = forks + 1 /\ process[d].start <= forks /\ process[d].start \in 0..MaxForks
        BY <1>1, <2>1, <2>3, <3>2 DEF StartsNameOwners
      <4> QED BY <1>1, <4>1, ForksAssumption
    <3>3. CASE q # p /\ d = o
      <4>1. /\ proc[q].start = process'[o].start /\ proc[q].start >= 1 /\ proc[q].start <= forks
            /\ proc[q].start \in 0..MaxForks
        BY <1>1, <2>1, <2>3, <3>3 DEF StartsNameOwners
      <4> QED BY <1>1, <4>1, ForksAssumption
    <3>4. CASE q # p /\ d # o
      BY <1>1, <2>3, <3>4 DEF StartsNameOwners
    <3> QED BY <3>1, <3>2, <3>3, <3>4
  <2> QED BY <2>2, <2>3 DEF StartsNameOwners
<1>6. CallbacksMatch'
  <2>1. \A q \in DOMAIN callbacks :
          /\ proc'[q].state # "free" /\ proc'[q].owner = callbacks[q]
          /\ process'[callbacks[q]].pid = q /\ Running(callbacks[q])
    BY <1>1, <1>2, SMTT(40) DEF CallbacksMatch
  <2>2. proc'[p].state # "free" /\ proc'[p].owner = o /\ process'[o].pid = p
    BY <1>1
  <2>3. \A d \in Owners \ {o} : Running(d) => Running(d)'
    OBVIOUS
  <2>4. \A q \in DOMAIN callbacks' : Running(callbacks[q])'
    BY <1>2, <1>3, <2>1, <2>3
  <2> QED BY <1>3, <2>1, <2>2, <2>4 DEF CallbacksMatch
<1>7. FunctorsMatch'
  <2>1. \A i \in 1..Len(functors) :
          /\ Running(functors[i])
          /\ process'[functors[i]].pid \in Pids
          /\ proc'[process'[functors[i]].pid].owner # functors[i]
    BY <1>1, <1>2 DEF FunctorsMatch
  <2>2. \A q \in DOMAIN callbacks' : ~Queued(callbacks'[q])
    BY <1>2, <1>3 DEF FunctorsMatch, Queued
  <2>3. \A i \in 1..Len(functors') : Running(functors[i])'
    BY <1>2, <2>1
  <2> QED BY <2>1, <2>2, <2>3 DEF FunctorsMatch, Queued
<1>8. AppsWatched'
  BY <1>1, <1>3 DEF AppsWatched
<1>9. RunningIsWatched'
  <2>1. \A d \in Owners : ProcessAlive(d) => ProcessAlive(d)'
    BY <1>3 DEF ProcessAlive
  <2>2. Running(o)' => ProcessAlive(o)'
    BY <1>3 DEF ProcessAlive
  <2> QED BY <2>1, <2>2, Watching, WatchingPrime
<1>10. KillsMatch'
  <2>1. \A k \in killed : k[1] \in Commands /\ k[1] \in Owners
    BY OwnerFacts DEF TypeOK
  <2>2. \A k \in killed : k[1] # o
    BY <2>1, OwnerFacts DEF KillsMatch
  <2> QED BY <1>1, <2>1, <2>2 DEF KillsMatch
<1> QED BY <1>4, <1>5, <1>6, <1>7, <1>8, <1>9, <1>10

LEMMA IndRunCommandFails ==
  ASSUME IndInv, NEW c \in Commands, RunCommandFails(c)
  PROVE  IndInv'
<1>1. /\ command[c] = "new" /\ Answer(c) /\ UNCHANGED <<app, pending, functors, killed>>
      /\ \/ StartFails
         \/ \E child \in ExecChild : Start(c, child) /\ UNCHANGED callbacks
  BY DEF RunCommandFails
<1>2. CASE StartFails
  BY <1>1, <1>2, IndAnswerAtOnce DEF StartFails
<1>3. CASE \E child \in ExecChild : Start(c, child) /\ UNCHANGED callbacks
  <2>1. PICK child \in ExecChild : Start(c, child) /\ UNCHANGED callbacks
    BY <1>3
  <2>2. /\ command' \in [Commands -> {"new", "running", "answered", "dropped"}]
        /\ dones' \in [Commands -> Nat]
        /\ command'[c] = "answered"
        /\ \A d \in Commands \ {c} : command'[d] = command[d]
        /\ DonesCounted'
    BY <1>1, Answers
  <2>3. app' \in [Apps -> {"absent", "new", "running", "exited", "error"}]
    BY <1>1 DEF IndInv, TypeOK
  <2>4. c \in Owners /\ c \notin Apps
    BY OwnerFacts
  <2>5. ~Running(c) /\ ~Running(c)'
    BY <1>1, <2>2, <2>4 DEF Running
  <2>6. \A d \in Owners \ {c} : Running(d)' <=> Running(d)
    BY <1>1, <2>2 DEF Running
  <2> QED BY <1>1, <2>1, <2>2, <2>3, <2>4, <2>5, <2>6, IndStart
<1> QED BY <1>1, <1>2, <1>3

LEMMA IndRunCommand ==
  ASSUME IndInv, NEW c \in Commands, RunCommand(c)
  PROVE  IndInv'
<1>1. /\ command[c] = "new" /\ command' = [command EXCEPT ![c] = "running"]
      /\ RunAtExit(process'[c].pid, c) /\ UNCHANGED <<dones, app, pending, functors, killed>>
  BY DEF RunCommand
<1>2. PICK child \in ExecChild : Start(c, child)
  BY DEF RunCommand
<1>3. /\ command \in [Commands -> {"new", "running", "answered", "dropped"}]
      /\ dones \in [Commands -> Nat]
      /\ app \in [Apps -> {"absent", "new", "running", "exited", "error"}]
  BY DEF IndInv, TypeOK
<1>4. command'[c] = "running" /\ \A d \in Commands \ {c} : command'[d] = command[d]
  BY <1>1, <1>3
<1>5. command' \in [Commands -> {"new", "running", "answered", "dropped"}]
  BY <1>1, <1>3
<1>6. c \in Owners /\ c \notin Apps
  BY OwnerFacts
<1>7. ~Running(c) /\ Running(c)'
  BY <1>1, <1>4, <1>6 DEF Running
<1>8. \A d \in Owners \ {c} : Running(d)' <=> Running(d)
  BY <1>1, <1>4 DEF Running
<1>9. DonesCounted'
  BY <1>1, <1>4 DEF IndInv, DonesCounted
<1> QED BY <1>1, <1>2, <1>3, <1>4, <1>5, <1>6, <1>7, <1>8, <1>9, IndStart

LEMMA IndStartApp ==
  ASSUME IndInv, NEW a \in Apps, StartApp(a)
  PROVE  IndInv'
<1>1. app[a] # "running" /\ UNCHANGED <<command, dones, pending, functors, killed>>
  BY DEF StartApp
<1>2. /\ command \in [Commands -> {"new", "running", "answered", "dropped"}]
      /\ dones \in [Commands -> Nat]
      /\ app \in [Apps -> {"absent", "new", "running", "exited", "error"}]
  BY DEF IndInv, TypeOK
<1>3. a \in Owners /\ a \notin Commands
  BY OwnerFacts
<1>4. DonesCounted'
  BY <1>1 DEF IndInv, DonesCounted
<1>5. ASSUME NEW x \in {"running", "error"}, app' = [app EXCEPT ![a] = x]
      PROVE  /\ app' \in [Apps -> {"absent", "new", "running", "exited", "error"}]
             /\ Running(a)' <=> x = "running"
             /\ ~Running(a) /\ \A d \in Owners \ {a} : Running(d)' <=> Running(d)
  <2>1. app'[a] = x /\ \A d \in Apps \ {a} : app'[d] = app[d]
    BY <1>2, <1>5
  <2>2. app' \in [Apps -> {"absent", "new", "running", "exited", "error"}]
    BY <1>2, <1>5
  <2> QED BY <1>1, <1>3, <2>1, <2>2 DEF Running
<1>6. CASE /\ \E child \in ExecChild : Started(child) /\ Start(a, child)
           /\ RunAtExit(process'[a].pid, a)
           /\ app' = [app EXCEPT ![a] = "running"]
  <2>1. PICK child \in ExecChild : Start(a, child)
    BY <1>6
  <2> QED BY <1>1, <1>2, <1>3, <1>4, <1>5, <1>6, <2>1, IndStart
<1>7. CASE StartFails /\ app' = [app EXCEPT ![a] = "error"]
  BY <1>1, <1>7, AppStatus DEF StartFails
<1>8. CASE /\ \E child \in ExecChild : ~Started(child) /\ Start(a, child) /\ UNCHANGED callbacks
           /\ app' = [app EXCEPT ![a] = "error"]
  <2>1. PICK child \in ExecChild : ~Started(child) /\ Start(a, child) /\ UNCHANGED callbacks
    BY <1>8
  <2>2. child.exec = "no"
    <3>1. \/ child = [exec |-> "yes", writes |-> <<"startTime">>]
          \/ child = [exec |-> "no", writes |-> <<"startTime", "errno">>]
          \/ child = [exec |-> "no", writes |-> <<"errno">>]
      BY DEF ExecChild
    <3>2. Len(<<"startTime">>) = 1
      OBVIOUS
    <3> QED BY <2>1, <3>1, <3>2 DEF Started, ReadPipe
  <2> QED BY <1>1, <1>2, <1>3, <1>4, <1>5, <1>8, <2>1, <2>2, IndStart
<1> QED BY <1>6, <1>7, <1>8 DEF StartApp

-----------------------------------------------------------------------------
(* The kernel and the timeouts. *)

LEMMA IndChildExits ==
  ASSUME IndInv, NEW p \in Pids, ChildExits(p)
  PROVE  IndInv'
<1> USE DEF IndInv
<1>1. /\ proc[p].state = "alive" /\ proc' = [proc EXCEPT ![p].state = "zombie"]
      /\ pending' = IF pending = 0 THEN p ELSE pending
      /\ UNCHANGED <<command, dones, app, process, forks, callbacks, functors, killed>>
  BY DEF ChildExits
<1>2. /\ proc'[p].state = "zombie" /\ \A q \in Pids \ {p} : proc'[q].state = proc[q].state
      /\ \A q \in Pids : /\ proc'[q].owner = proc[q].owner
                         /\ proc'[q].start = proc[q].start
                         /\ proc'[q].exec = proc[q].exec
  BY <1>1 DEF TypeOK, Entries
<1>3. \A q \in Pids : proc'[q].state # "free" <=> proc[q].state # "free"
  BY <1>1, <1>2
<1>4. TypeOK'
  <2>1. proc' \in [Pids -> Entries]
    BY <1>1, ZenonT(60) DEF TypeOK, Entries
  <2> QED BY <1>1, <2>1 DEF TypeOK
<1>5. \A o \in Owners : Running(o)' <=> Running(o)
  BY <1>1 DEF Running
<1>6. StartsNameOwners' /\ AppsWatched'
  BY <1>1, <1>2, <1>3 DEF StartsNameOwners, AppsWatched
<1>7. CallbacksMatch'
  BY <1>1, <1>2, <1>3, <1>5, TypeFacts DEF CallbacksMatch
<1>8. FunctorsMatch'
  BY <1>1, <1>2, <1>5, TypeFacts DEF FunctorsMatch, Queued
<1>9. RunningIsWatched' /\ DonesCounted' /\ KillsMatch'
  BY <1>1 DEF RunningIsWatched, ProcessAlive, DonesCounted, KillsMatch
<1> QED BY <1>4, <1>6, <1>7, <1>8, <1>9

LEMMA IndOnTimeout ==
  ASSUME IndInv, NEW c \in Commands, OnTimeout(c)
  PROVE  IndInv'
<1> USE DEF IndInv
<1> DEFINE p == process[c].pid
<1>1. /\ command[c] = "running" /\ ProcessAlive(c) /\ proc[p].state # "free"
      /\ proc[p].start = process[c].start
      /\ killed' = killed \cup {<<c, proc[p].owner, proc[p].start>>}
      /\ UNCHANGED <<command, dones, app, process, proc, forks, pending, callbacks, functors>>
  BY DEF OnTimeout, SameStart
<1>2. c \in Owners /\ p \in Pids
  BY <1>1, TypeFacts, OwnerFacts DEF ProcessAlive, CallbacksMatch, FunctorsMatch
<1>3. proc[p].owner = c
  BY <1>1, <1>2 DEF StartsNameOwners
<1>4. proc[p].start \in 0..MaxForks
  BY <1>2 DEF TypeOK, Entries
<1> HIDE DEF p
<1>5. TypeOK'
  <2>1. killed' \subseteq (Commands \X (Owners \cup {NoOne}) \X (0..MaxForks))
    BY <1>1, <1>2, <1>3, <1>4 DEF TypeOK
  <2> QED BY <1>1, <2>1 DEF TypeOK
<1>6. KillsMatch'
  <2>1. \A k \in killed' : k \in killed \/ (k[1] = c /\ k[2] = c /\ k[3] = process[c].start)
    BY <1>1, <1>3
  <2> QED BY <1>1, <2>1 DEF KillsMatch
<1>7. StartsNameOwners' /\ AppsWatched' /\ DonesCounted'
  BY <1>1 DEF StartsNameOwners, AppsWatched, DonesCounted
<1>8. CallbacksMatch' /\ FunctorsMatch'
  BY <1>1 DEF CallbacksMatch, FunctorsMatch, Queued, Running
<1>9. RunningIsWatched'
  BY <1>1 DEF RunningIsWatched, ProcessAlive
<1> QED BY <1>5, <1>6, <1>7, <1>8, <1>9

-----------------------------------------------------------------------------
(* ChildManager. *)

(* onExit queues the callbacks of the pids, each once, and forgets them. *)
LEMMA ExitFacts ==
  ASSUME TypeOK, NEW ps, ps \subseteq Pids, OnExit(ps)
  PROVE  /\ functors' \in Seq(Owners)
         /\ \A i \in 1..Len(functors') :
              \/ i \in 1..Len(functors) /\ functors'[i] = functors[i]
              \/ i \notin 1..Len(functors) /\ \E p \in ps \cap DOMAIN callbacks : functors'[i] = callbacks[p]
         /\ \A i \in 1..Len(functors) : i \in 1..Len(functors') /\ functors'[i] = functors[i]
         /\ \A p \in ps \cap DOMAIN callbacks : \E i \in 1..Len(functors') : functors'[i] = callbacks[p]
         /\ (\A p, q \in DOMAIN callbacks : callbacks[p] = callbacks[q] => p = q) =>
              \A i, j \in 1..Len(functors') :
                i \notin 1..Len(functors) /\ j \notin 1..Len(functors) /\ functors'[i] = functors'[j]
                  => i = j
         /\ DOMAIN callbacks' = DOMAIN callbacks \ ps
         /\ \A p \in DOMAIN callbacks' : callbacks'[p] = callbacks[p]
<1> DEFINE S == ps \cap DOMAIN callbacks
           k == Cardinality(S)
           n == Len(functors)
<1>1. PICK order \in [1..k -> S] :
        /\ \A i, j \in DOMAIN order : i # j => order[i] # order[j]
        /\ functors' = functors \o [i \in DOMAIN order |-> callbacks[order[i]]]
  BY DEF OnExit
<1> DEFINE s == [i \in 1..k |-> callbacks[order[i]]]
<1>2. IsFiniteSet(S) /\ k \in Nat
  <2>1. S \subseteq Pids /\ IsFiniteSet(Pids)
    BY PidsAssumption
  <2> QED BY <2>1, FS_Subset, FS_CardinalityType
<1>3. \A p \in S : \E i \in 1..k : order[i] = p
  <2>1. order \in Injection(1..k, S)
    BY <1>1 DEF Injection, IsInjective
  <2>2. IsFiniteSet(1..k) /\ Cardinality(1..k) = k
    <3>1. 1 \in Int /\ k \in Int
      BY <1>2
    <3>2. Cardinality(1..k) = IF 1 > k THEN 0 ELSE k - 1 + 1
      BY <3>1, FS_Interval
    <3>3. (IF 1 > k THEN 0 ELSE k - 1 + 1) = k
      BY <1>2
    <3> QED BY <3>1, <3>2, <3>3, FS_Interval
  <2>3. order \in Surjection(1..k, S)
    BY <1>2, <2>1, <2>2, FS_Injection
  <2> QED BY <2>3 DEF Surjection
<1>4. functors \in Seq(Owners) /\ n \in Nat
  BY TypeFacts
<1>5. \A i \in 1..k : order[i] \in S /\ callbacks[order[i]] \in Owners
  BY <1>1, TypeFacts
<1> HIDE DEF S, k
<1>6. s \in Seq(Owners) /\ Len(s) = k /\ \A i \in 1..k : s[i] = callbacks[order[i]]
  BY <1>2, <1>5
<1>7. functors' = functors \o s
  BY <1>1
<1> HIDE DEF s
<1>8. /\ functors' \in Seq(Owners) /\ Len(functors') = n + k
      /\ \A i \in 1..(n + k) : functors'[i] = IF i <= n THEN functors[i] ELSE s[i - n]
  BY <1>4, <1>6, <1>7, ConcatProperties
<1> HIDE DEF n
<1>9. \A i \in 1..n : i \in 1..Len(functors') /\ functors'[i] = functors[i]
  BY <1>2, <1>4, <1>8
<1>10. \A i \in 1..Len(functors') : i \notin 1..n =>
         i - n \in 1..k /\ functors'[i] = callbacks[order[i - n]]
  BY <1>2, <1>4, <1>6, <1>8
<1>11. \A i \in 1..k : n + i \in 1..Len(functors') /\ functors'[n + i] = callbacks[order[i]]
  <2> SUFFICES ASSUME NEW i \in 1..k
               PROVE  n + i \in 1..Len(functors') /\ functors'[n + i] = callbacks[order[i]]
    OBVIOUS
  <2> DEFINE j == n + i
  <2>1. j \in 1..(n + k) /\ ~(j <= n) /\ j - n = i
    BY <1>2, <1>4
  <2> HIDE DEF j
  <2>2. functors'[j] = s[j - n]
    BY <1>8, <2>1
  <2> QED BY <1>6, <1>8, <2>1, <2>2 DEF j
<1>12. \A i \in 1..Len(functors') :
         \/ i \in 1..n /\ functors'[i] = functors[i]
         \/ i \notin 1..n /\ \E p \in S : functors'[i] = callbacks[p]
  BY <1>5, <1>9, <1>10
<1>13. \A p \in S : \E i \in 1..Len(functors') : functors'[i] = callbacks[p]
  BY <1>3, <1>11
<1>14. ASSUME \A p, q \in DOMAIN callbacks : callbacks[p] = callbacks[q] => p = q,
              NEW i \in 1..Len(functors'), NEW j \in 1..Len(functors'),
              i \notin 1..n, j \notin 1..n, functors'[i] = functors'[j]
       PROVE  i = j
  <2>1. order[i - n] = order[j - n] /\ i - n \in 1..k /\ j - n \in 1..k
    BY <1>5, <1>10, <1>14 DEF S
  <2>2. i - n = j - n
    BY <1>1, <2>1
  <2> QED BY <1>2, <1>4, <1>8, <2>2
<1>15. /\ DOMAIN callbacks' = DOMAIN callbacks \ ps
       /\ \A p \in DOMAIN callbacks' : callbacks'[p] = callbacks[p]
  BY DEF OnExit, Unregistered
<1> QED BY <1>8, <1>9, <1>12, <1>13, <1>14, <1>15 DEF S, n

(* Zombies are waited for and their callbacks queued. *)
LEMMA IndReap ==
  ASSUME IndInv, NEW ps, ps \subseteq Pids, OnExit(ps), Reap(ps),
         UNCHANGED <<command, dones, app, process, forks, killed>>,
         pending' \in Pids \cup {0}
  PROVE  IndInv'
<1> USE DEF IndInv
<1>1. /\ functors' \in Seq(Owners)
      /\ \A i \in 1..Len(functors') :
           \/ i \in 1..Len(functors) /\ functors'[i] = functors[i]
           \/ i \notin 1..Len(functors) /\ \E p \in ps \cap DOMAIN callbacks : functors'[i] = callbacks[p]
      /\ \A i \in 1..Len(functors) : i \in 1..Len(functors') /\ functors'[i] = functors[i]
      /\ \A p \in ps \cap DOMAIN callbacks : \E i \in 1..Len(functors') : functors'[i] = callbacks[p]
      /\ (\A p, q \in DOMAIN callbacks : callbacks[p] = callbacks[q] => p = q) =>
           \A i, j \in 1..Len(functors') :
             i \notin 1..Len(functors) /\ j \notin 1..Len(functors) /\ functors'[i] = functors'[j]
               => i = j
      /\ DOMAIN callbacks' = DOMAIN callbacks \ ps
      /\ \A p \in DOMAIN callbacks' : callbacks'[p] = callbacks[p]
  <2>1. TypeOK
    OBVIOUS
  <2> QED BY <2>1, ExitFacts, Zenon
<1>2. \A p, q \in DOMAIN callbacks : callbacks[p] = callbacks[q] => p = q
  BY DEF CallbacksMatch
<1>3. \A i, j \in 1..Len(functors') :
        i \notin 1..Len(functors) /\ j \notin 1..Len(functors) /\ functors'[i] = functors'[j] => i = j
  BY <1>1, <1>2
<1>4. /\ \A p \in ps : proc'[p] = Free
      /\ \A p \in Pids \ ps : proc'[p] = proc[p]
      /\ Free.state = "free" /\ Free.owner = NoOne /\ Free.start = 0
  BY DEF Reap, Free
<1>5. \A p \in Pids : proc'[p] = proc[p] \/ proc'[p] = Free
  BY <1>4
<1>6. TypeOK'
  <2>1. Free \in Entries
    BY ForksAssumption DEF Free, Entries
  <2>2. proc' \in [Pids -> Entries]
    BY <2>1 DEF Reap, TypeOK
  <2>3. DOMAIN callbacks' \subseteq Pids /\ \A p \in DOMAIN callbacks' : callbacks'[p] \in Owners
    BY <1>1, TypeFacts
  <2> QED BY <1>1, <2>2, <2>3 DEF TypeOK
<1>7. StartsNameOwners'
  <2>1. forks \in Nat
    BY ForksAssumption DEF TypeOK
  <2> QED BY <1>4, <1>5, <2>1 DEF StartsNameOwners
<1>8. \A o \in Owners : Running(o)' <=> Running(o)
  BY DEF Running
<1>9. CallbacksMatch'
  <2>1. \A p \in DOMAIN callbacks' : /\ callbacks[p] \in Owners /\ callbacks'[p] = callbacks[p]
                                     /\ p \in DOMAIN callbacks /\ p \in Pids /\ proc'[p] = proc[p]
    BY <1>1, <1>4, TypeFacts
  <2> QED BY <1>8, <2>1 DEF CallbacksMatch
<1>10. FunctorsMatch'
  <2>1. ASSUME NEW i \in 1..Len(functors')
        PROVE  /\ functors'[i] \in Owners
               /\ Running(functors'[i])
               /\ process[functors'[i]].pid \in Pids
               /\ proc'[process[functors'[i]].pid].owner # functors'[i]
    <3>1. CASE i \in 1..Len(functors) /\ functors'[i] = functors[i]
      BY <1>4, <1>5, <3>1, TypeFacts, OwnerFacts DEF FunctorsMatch
    <3>2. CASE \E p \in ps \cap DOMAIN callbacks : functors'[i] = callbacks[p]
      BY <1>4, <3>2, TypeFacts, OwnerFacts DEF CallbacksMatch
    <3> QED BY <1>1, <3>1, <3>2
  <2>2. ASSUME NEW i \in 1..Len(functors'), NEW j \in 1..Len(functors'), functors'[i] = functors'[j]
        PROVE  i = j
    <3>1. \A p \in DOMAIN callbacks : \A l \in 1..Len(functors) : functors[l] # callbacks[p]
      BY DEF FunctorsMatch, Queued
    <3> QED BY <1>1, <1>3, <2>2, <3>1 DEF FunctorsMatch
  <2>3. ASSUME NEW p \in DOMAIN callbacks', NEW i \in 1..Len(functors')
        PROVE  functors'[i] # callbacks'[p]
    <3>1. p \in DOMAIN callbacks /\ p \notin ps /\ callbacks'[p] = callbacks[p]
      BY <1>1
    <3>2. CASE i \in 1..Len(functors) /\ functors'[i] = functors[i]
      BY <3>1, <3>2 DEF FunctorsMatch, Queued
    <3>3. CASE \E q \in ps \cap DOMAIN callbacks : functors'[i] = callbacks[q]
      BY <1>2, <3>1, <3>3
    <3> QED BY <1>1, <3>2, <3>3
  <2>4. \A i \in 1..Len(functors') : Running(functors[i])'
    BY <1>8, <2>1
  <2> QED BY <2>1, <2>2, <2>3, <2>4 DEF FunctorsMatch, Queued
<1>11. AppsWatched'
  BY <1>1, <1>4 DEF AppsWatched
<1>12. RunningIsWatched'
  <2>1. \A o \in Owners : ProcessAlive(o) => ProcessAlive(o)'
    <3> SUFFICES ASSUME NEW o \in Owners, ProcessAlive(o) PROVE ProcessAlive(o)'
      OBVIOUS
    <3>1. CASE \E i \in 1..Len(functors) : functors[i] = o
      BY <1>1, <3>1 DEF ProcessAlive
    <3>2. CASE \E p \in DOMAIN callbacks : callbacks[p] = o
      BY <1>1, <3>2 DEF ProcessAlive
    <3> QED BY <3>1, <3>2 DEF ProcessAlive
  <2> QED BY <1>8, <2>1, Watching, WatchingPrime
<1>13. DonesCounted' /\ KillsMatch'
  BY DEF DonesCounted, KillsMatch
<1> QED BY <1>6, <1>7, <1>9, <1>10, <1>11, <1>12, <1>13

LEMMA IndChildManager ==
  ASSUME IndInv, OnRead \/ OnTimer
  PROVE  IndInv'
<1>1. CASE OnRead
  <2> DEFINE ps == {p \in {pending} : proc[p].state = "zombie"}
  <2>1. ps \subseteq Pids
    BY <1>1 DEF OnRead, IndInv, TypeOK
  <2>2. OnExit(ps) /\ Reap(ps) /\ UNCHANGED <<command, dones, app, process, forks, killed>> /\ pending' = 0
    BY <1>1 DEF OnRead
  <2> QED BY <2>1, <2>2, IndReap
<1>2. CASE OnTimer
  <2> DEFINE ps == {p \in Pids : proc[p].state = "zombie"}
  <2>1. ps \subseteq Pids
    OBVIOUS
  <2>2. OnExit(ps) /\ Reap(ps) /\ UNCHANGED <<command, dones, app, process, forks, killed, pending>>
    BY <1>2 DEF OnTimer
  <2>3. pending' \in Pids \cup {0}
    BY <2>2 DEF IndInv, TypeOK
  <2> QED BY <2>1, <2>2, <2>3, IndReap
<1> QED BY <1>1, <1>2

(* The callback of an owner runs: it runs no longer. *)
LEMMA IndRunFunctor ==
  ASSUME IndInv, RunFunctor
  PROVE  IndInv'
<1> USE DEF IndInv
<1> DEFINE o == Head(functors)
<1>1. /\ functors # <<>> /\ functors' = Tail(functors)
      /\ UNCHANGED <<process, proc, forks, pending, callbacks, killed>>
      /\ \/ o \in Commands /\ Answer(o) /\ UNCHANGED app
         \/ /\ o \in Apps /\ app' = [app EXCEPT ![o] = "exited"]
            /\ UNCHANGED <<command, dones>>
  BY DEF RunFunctor
<1>2. /\ functors' \in Seq(Owners) /\ o \in Owners /\ 1 \in 1..Len(functors) /\ functors[1] = o
      /\ \A i \in 1..Len(functors') : i + 1 \in 1..Len(functors) /\ i + 1 # 1 /\ functors'[i] = functors[i + 1]
      /\ \A i, j \in 1..Len(functors') : i + 1 = j + 1 => i = j
      /\ \A i \in 1..Len(functors) : i # 1 => i - 1 \in 1..Len(functors') /\ functors'[i - 1] = functors[i]
  BY <1>1, TypeFacts
<1> HIDE DEF o
<1>3. /\ Running(o) /\ \A p \in DOMAIN callbacks : callbacks[p] # o
      /\ \A i \in 1..Len(functors') : functors'[i] # o /\ functors'[i] \in Owners
  BY <1>2, TypeFacts DEF FunctorsMatch, Queued
<1>4. /\ command' \in [Commands -> {"new", "running", "answered", "dropped"}]
      /\ dones' \in [Commands -> Nat]
      /\ app' \in [Apps -> {"absent", "new", "running", "exited", "error"}]
      /\ \A d \in Owners \ {o} : Running(d)' <=> Running(d)
      /\ \A d \in Owners : Running(d)' => d # o
      /\ \A c \in Commands : command[c] # "new" => command'[c] # "new"
      /\ DonesCounted'
  <2>1. /\ command \in [Commands -> {"new", "running", "answered", "dropped"}]
        /\ dones \in [Commands -> Nat]
        /\ app \in [Apps -> {"absent", "new", "running", "exited", "error"}]
    BY DEF TypeOK
  <2>2. CASE o \in Commands /\ Answer(o) /\ UNCHANGED app
    <3>1. o \notin Apps /\ command[o] = "running"
      BY <1>3, <2>2, OwnerFacts DEF Running
    <3>2. /\ command' \in [Commands -> {"new", "running", "answered", "dropped"}]
          /\ dones' \in [Commands -> Nat]
          /\ command'[o] = "answered"
          /\ \A d \in Commands \ {o} : command'[d] = command[d]
          /\ DonesCounted'
      BY <2>2, <3>1, Answers
    <3> QED BY <2>1, <2>2, <3>1, <3>2 DEF Running
  <2>3. CASE o \in Apps /\ app' = [app EXCEPT ![o] = "exited"] /\ UNCHANGED <<command, dones>>
    <3>1. o \notin Commands
      BY <2>3, OwnerFacts
    <3>2. app'[o] = "exited" /\ \A d \in Apps \ {o} : app'[d] = app[d]
      BY <2>1, <2>3
    <3>3. app' \in [Apps -> {"absent", "new", "running", "exited", "error"}]
      BY <2>1, <2>3
    <3>4. DonesCounted'
      BY <2>3 DEF DonesCounted
    <3> QED BY <2>1, <2>3, <3>1, <3>2, <3>3, <3>4 DEF Running
  <2> QED BY <1>1, <2>2, <2>3
<1>5. TypeOK'
  BY <1>1, <1>2, <1>4 DEF TypeOK
<1>6. StartsNameOwners' /\ AppsWatched'
  BY <1>1 DEF StartsNameOwners, AppsWatched
<1>7. CallbacksMatch'
  BY <1>1, <1>3, <1>4, TypeFacts DEF CallbacksMatch
<1>8. FunctorsMatch'
  <2>1. \A i \in 1..Len(functors') : /\ process[functors'[i]].pid \in Pids
                                     /\ proc[process[functors'[i]].pid].owner # functors'[i]
                                     /\ Running(functors'[i])
    BY <1>2 DEF FunctorsMatch
  <2>2. \A i \in 1..Len(functors') : Running(functors[i])'
    BY <1>3, <1>4, <2>1
  <2>3. ASSUME NEW i \in 1..Len(functors'), NEW j \in 1..Len(functors'), functors'[i] = functors'[j]
        PROVE  i = j
    <3>1. i + 1 = j + 1
      BY <1>2, <2>3 DEF FunctorsMatch
    <3> QED BY <1>2, <3>1
  <2>4. \A p \in DOMAIN callbacks : ~Queued(callbacks[p])'
    BY <1>1, <1>2 DEF FunctorsMatch, Queued
  <2> QED BY <1>1, <2>1, <2>2, <2>3, <2>4 DEF FunctorsMatch
<1>9. RunningIsWatched'
  <2>1. \A d \in Owners : d # o /\ ProcessAlive(d) => ProcessAlive(d)'
    BY <1>1, <1>2 DEF ProcessAlive
  <2> QED BY <1>4, <2>1, Watching, WatchingPrime
<1>10. KillsMatch'
  BY <1>1, <1>4 DEF KillsMatch, TypeOK
<1> QED BY <1>4, <1>5, <1>6, <1>7, <1>8, <1>9, <1>10

-----------------------------------------------------------------------------
LEMMA IndNext == IndInv /\ [Next]_vars => IndInv'
<1> SUFFICES ASSUME IndInv, [Next]_vars PROVE IndInv'
  OBVIOUS
<1>1. CASE UNCHANGED vars
  <2>1. /\ UNCHANGED <<command, dones, app>>
        /\ UNCHANGED <<process, proc, forks, pending, callbacks, functors, killed>>
    BY <1>1 DEF vars
  <2>2. /\ command' \in [Commands -> {"new", "running", "answered", "dropped"}]
        /\ dones' \in [Commands -> Nat]
        /\ app' \in [Apps -> {"absent", "new", "running", "exited", "error"}]
    BY <2>1 DEF IndInv, TypeOK
  <2>3. DonesCounted' /\ \A o \in Owners : Running(o)' <=> Running(o)
    BY <2>1 DEF IndInv, DonesCounted, Running
  <2> QED BY <2>1, <2>2, <2>3, IndStatus
<1>2. ASSUME NEW c \in Commands, AnswerAtOnce(c) PROVE IndInv'
  BY <1>2, IndAnswerAtOnce DEF AnswerAtOnce
<1>3. CASE Next
  BY <1>2, <1>3, IndRunCommandFails, IndRunCommand, IndDropped, IndOnTimeout, IndAddApplication,
     IndStartApp, IndChildExits, IndChildManager, IndRunFunctor DEF Next
<1> QED BY <1>1, <1>3

LEMMA Invariance == Spec => []IndInv
  BY IndInit, IndNext, PTL DEF Spec

(* ChildManager: a pid that fork() may return has no callback, an exit is  *)
(* queued only of a child that was waited for, an application has one      *)
(* exec'ed process and a command one answer, however pids are reused and   *)
(* SIGCHLDs merged.                                                        *)
THEOREM PidsAreConsistent == Spec => []PidsConsistent
<1>1. ASSUME IndInv PROVE PidsConsistent
  <2> USE <1>1 DEF IndInv
  <2>1. FreePidHasNoCallback
    BY DEF CallbacksMatch, FreePidHasNoCallback
  <2>2. ReportedIsReaped
    BY DEF FunctorsMatch, ReportedIsReaped
  <2>3. OneProcessPerApp
    <3> SUFFICES ASSUME NEW a \in Apps, NEW p \in Pids, NEW q \in Pids,
                        proc[p].state = "alive", proc[p].owner = a, proc[p].exec = "yes",
                        proc[q].state = "alive", proc[q].owner = a, proc[q].exec = "yes"
                 PROVE  p = q
      BY DEF OneProcessPerApp
    <3>1. p \in DOMAIN callbacks /\ q \in DOMAIN callbacks
      BY DEF AppsWatched
    <3> QED BY <3>1 DEF CallbacksMatch
  <2>4. DoneAtMostOnce
    BY DEF DonesCounted, DoneAtMostOnce
  <2> QED BY <2>1, <2>2, <2>3, <2>4 DEF PidsConsistent
<1> QED BY <1>1, Invariance, PTL

(* SlaveServiceImpl and AppManager: what is reported running has an exit   *)
(* callback, registered or queued, so its end will be reported.            *)
THEOREM WhatRunsIsWatched == Spec => []RunningIsWatched
<1>1. ASSUME IndInv PROVE RunningIsWatched
  BY <1>1 DEF IndInv
<1> QED BY <1>1, Invariance, PTL

(* Process::onTimeout: the start time of the pid is compared before kill,  *)
(* so a timeout never signals a later child that got the pid.              *)
THEOREM TimeoutsKillTheirOwn == Spec => []TimeoutKillsOwnChild
<1>1. ASSUME IndInv PROVE TimeoutKillsOwnChild
  BY <1>1 DEF IndInv, KillsMatch, TimeoutKillsOwnChild
<1> QED BY <1>1, Invariance, PTL

-----------------------------------------------------------------------------
(***************************************************************************)
(* How the slave tells the master of itself: Heartbeat and RpcClient, of   *)
(* module Heartbeat, by HeartbeatInstance.                                 *)
(***************************************************************************)

BeatRecords ==
  [full : BOOLEAN, intr : IntrLines, disks : DiskLines,
   stat : [intr : Seq({"0", "n"}), rest : BOOLEAN], diskstats : Seq({"idle", "busy"})]

(* What strip_stat and strip_diskstats may do to a beat. *)
Stripped(b) ==
  /\ b.intr # <<>> /\ b.intr[Len(b.intr)] = "0" =>
       /\ b.stat.rest
       /\ Pulse!IsPrefix(b.stat.intr, b.intr)
       /\ \A j \in 1..Len(b.intr) : b.intr[j] # "0" => j <= Len(b.stat.intr)
  /\ b.intr = <<>> => b.stat.rest
Disks(b) == Len(b.diskstats) = Pulse!Cardinality({j \in 1..Len(b.disks) : b.disks[j] = "busy"})

(* The slave beats while it believes in a connection, which was set before *)
(* the first beat.                                                         *)
LinkFacts ==
  /\ link \in {"none", "up", "broken"}
  /\ beating \in BOOLEAN /\ (beating => link # "none" /\ conn = "set")
  /\ crashed = FALSE
  /\ link # "up" => wire = <<>> /\ known = "nothing"

(* The full beat is the oldest on its way until the master has it. *)
WireFacts ==
  /\ wire \in Seq(BeatRecords)
  /\ \A i \in 1..Len(wire) : wire[i].full <=> (i = 1 /\ known = "nothing")
  /\ link = "up" /\ known = "nothing" => wire # <<>>

(* Once /proc/diskstats has been tried, every beat has its lines or none.  *)
ContentFacts ==
  \A i \in 1..Len(wire) :
    /\ Stripped(wire[i])
    /\ file # "unopened" /\ (file = "open" => Disks(wire[i]))

BeatInv == LinkFacts /\ WireFacts /\ ContentFacts

-----------------------------------------------------------------------------
(* What is stripped from a beat. *)

LEMMA LeastNatural ==
  ASSUME NEW T, T \subseteq Nat, T # {}
  PROVE  \E m \in T : \A k \in T : m <= k
<1>1. PICK m \in T : \A y \in T : ~(<<y, m>> \in OpToRel(<, Nat))
  BY NatLessThanWellFounded, WFMin
<1>2. \A y \in T : ~(y < m)
  BY <1>1 DEF OpToRel
<1> QED BY <1>2

(* A property of 0 that every step keeps is one of every number up to n. *)
LEMMA UpTo ==
  ASSUME NEW n \in Nat, NEW G, 0 \in G, \A k \in 1..n : k - 1 \in G => k \in G
  PROVE  \A k \in 0..n : k \in G
<1> DEFINE T == {k \in 0..n : k \notin G}
<1> SUFFICES ASSUME T # {} PROVE FALSE
  OBVIOUS
<1>1. PICK k \in T : \A m \in T : k <= m
  <2>1. T \subseteq Nat
    OBVIOUS
  <2> HIDE DEF T
  <2> QED BY <2>1, LeastNatural
<1>2. k \in 1..n /\ k - 1 \in 0..n /\ ~(k <= k - 1) /\ k \notin G
  BY <1>1
<1>3. k - 1 \in G
  BY <1>1, <1>2
<1> QED BY <1>2, <1>3

(* The last number of a line that is not "0". *)
LEMMA LastNonZero ==
  ASSUME NEW l \in Seq({"0", "n"})
  PROVE  LET m == Pulse!SelectLastInSubSeq(l, 1, Len(l), LAMBDA x : x # "0")
         IN  m \in 0..Len(l) /\ \A j \in 1..Len(l) : l[j] # "0" => j <= m
<1> DEFINE n == Len(l)
           I == {i \in 1..n : l[i] # "0"}
           T == {n - i : i \in I}
<1>0. n \in Nat
  OBVIOUS
<1>1. Pulse!SelectLastInSubSeq(l, 1, n, LAMBDA x : x # "0") = IF I # {} THEN Pulse!Max(I) ELSE 0
  BY DEF Pulse!SelectLastInSubSeq
<1> HIDE DEF n
<1>2. CASE I = {}
  BY <1>0, <1>1, <1>2 DEF n
<1>3. CASE I # {}
  <2>1. T \subseteq Nat /\ T # {}
    BY <1>0, <1>3
  <2>2. PICK t \in T : \A s \in T : t <= s
    <3> HIDE DEF T
    <3> QED BY <2>1, LeastNatural
  <2>3. PICK i \in I : t = n - i
    BY <2>2
  <2>4. \A j \in I : i >= j
    <3>1. \A j \in I : j \in 1..n /\ t <= n - j
      BY <2>2
    <3> QED BY <1>0, <2>3, <3>1
  <2>5. Pulse!Max(I) \in I /\ \A j \in I : Pulse!Max(I) >= j
    <3> HIDE DEF I
    <3> QED BY <2>4 DEF Pulse!Max
  <2>6. Pulse!Max(I) \in 0..n /\ \A j \in 1..n : l[j] # "0" => j <= Pulse!Max(I)
    <3> DEFINE m == Pulse!Max(I)
    <3>1. m \in I /\ \A j \in I : m >= j
      BY <2>5
    <3> HIDE DEF m
    <3>2. m \in 0..n /\ \A j \in 1..n : l[j] # "0" => j <= m
      BY <1>0, <3>1
    <3> QED BY <3>2 DEF m
  <2> QED BY <1>1, <1>3, <2>6 DEF n
<1> QED BY <1>2, <1>3

LEMMA ZerosOffFacts ==
  ASSUME NEW l \in Seq({"0", "n"})
  PROVE  /\ Pulse!ZerosOff(l) \in Seq({"0", "n"}) /\ Pulse!IsPrefix(Pulse!ZerosOff(l), l)
         /\ \A j \in 1..Len(l) : l[j] # "0" => j <= Len(Pulse!ZerosOff(l))
<1> DEFINE m == Pulse!SelectLastInSubSeq(l, 1, Len(l), LAMBDA x : x # "0")
           z == SubSeq(l, 1, m)
<1>1. Pulse!ZerosOff(l) = z
  BY DEF Pulse!ZerosOff
<1>2. m \in 0..Len(l) /\ \A j \in 1..Len(l) : l[j] # "0" => j <= m
  BY LastNonZero
<1> HIDE DEF m
<1>3. z \in Seq({"0", "n"}) /\ Len(z) = m /\ Len(l) \in Nat
  BY <1>2
<1>4. SubSeq(z, 1, m) = z
  BY <1>2, <1>3
<1>5. Pulse!IsPrefix(z, l)
  BY <1>2, <1>3, <1>4 DEF Pulse!IsPrefix
<1> QED BY <1>1, <1>2, <1>3, <1>5

(* strip_diskstats keeps as many lines as there are busy disks: its loop   *)
(* has a result, and each round adds a line for a busy disk only.          *)
LEMMA StripFacts ==
  ASSUME NEW d \in Seq({"idle", "busy"})
  PROVE  /\ Pulse!StripDiskstats(d) \in Seq({"idle", "busy"})
         /\ Len(Pulse!StripDiskstats(d)) = Cardinality({j \in 1..Len(d) : d[j] = "busy"})
<1> DEFINE n == Len(d)
           Lines == Seq({"idle", "busy"})
           Round(f, j) == IF j = 0 THEN <<>>
                          ELSE IF d[j] = "idle" THEN f[j - 1] ELSE Append(f[j - 1], d[j])
           Loop(f, k) == f = [j \in 0..k |-> Round(f, j)]
           G == {k \in 0..n : \E f : Loop(f, k)}
<1>0. n \in Nat /\ \A j \in 1..n : d[j] \in {"idle", "busy"}
  OBVIOUS
<1>1. ASSUME NEW f, NEW k \in Nat, Loop(f, k)
      PROVE  DOMAIN f = 0..k /\ \A j \in 0..k : f[j] = Round(f, j)
  <2> DEFINE h == [j \in 0..k |-> Round(f, j)]
  <2>1. DOMAIN h = 0..k /\ \A j \in 0..k : h[j] = Round(f, j)
    OBVIOUS
  <2>2. f = h
    BY <1>1
  <2> HIDE DEF h, Round
  <2> QED BY <2>1, <2>2
<1>2. \A k \in 0..n : k \in G
  <2>1. 0 \in G
    <3> DEFINE h == [j \in 0..0 |-> <<>>]
    <3>1. h = [j \in 0..0 |-> Round(h, j)]
      OBVIOUS
    <3> HIDE DEF h
    <3>2. Loop(h, 0)
      BY <3>1
    <3> QED BY <1>0, <3>2
  <2>2. ASSUME NEW k \in 1..n, k - 1 \in G PROVE k \in G
    <3>1. PICK f : Loop(f, k - 1)
      BY <2>2
    <3>2. k - 1 \in Nat /\ k \in Nat /\ k \in 0..n
      BY <1>0
    <3>3. DOMAIN f = 0..(k - 1) /\ \A j \in 0..(k - 1) : f[j] = Round(f, j)
      BY <1>1, <3>1, <3>2
    <3> DEFINE h == [j \in 0..k |-> IF j = k THEN Round(f, k) ELSE f[j]]
    <3>4. DOMAIN h = 0..k /\ h[k] = Round(f, k) /\ \A j \in 0..(k - 1) : h[j] = f[j]
      BY <3>2
    <3>5. h = [j \in 0..k |-> h[j]]
      OBVIOUS
    <3> HIDE DEF h
    <3>6. ASSUME NEW j \in 0..k PROVE h[j] = Round(h, j)
      <4>1. j = 0 \/ (j - 1 \in 0..(k - 1) /\ h[j - 1] = f[j - 1])
        BY <3>2, <3>4
      <4>2. Round(h, j) = Round(f, j)
        BY <4>1
      <4>3. j = k \/ j \in 0..(k - 1)
        BY <3>2
      <4> HIDE DEF Round
      <4> QED BY <3>3, <3>4, <4>2, <4>3
    <3>7. Loop(h, k)
      <4> HIDE DEF Round
      <4> QED BY <3>5, <3>6
    <3> HIDE DEF Loop
    <3> QED BY <3>2, <3>7
  <2> HIDE DEF G, n
  <2> QED BY <1>0, <2>1, <2>2, UpTo
<1> DEFINE g == CHOOSE f : Loop(f, n)
<1>3. Loop(g, n)
  <2> HIDE DEF Loop, n
  <2>1. n \in G
    BY <1>0, <1>2
  <2> QED BY <2>1
<1>4. Pulse!StripDiskstats(d) = g[n]
  BY DEF Pulse!StripDiskstats
<1> HIDE DEF g, n
<1>5. \A j \in 0..n : g[j] = Round(g, j)
  BY <1>0, <1>1, <1>3
<1> DEFINE Busy(k) == {j \in 1..k : d[j] = "busy"}
           C == {k \in 0..n : g[k] \in Lines /\ IsFiniteSet(Busy(k))
                              /\ Len(g[k]) = Cardinality(Busy(k))}
<1>6. 0 \in C
  <2>1. Busy(0) = {} /\ g[0] = <<>> /\ 0 \in 0..n
    BY <1>0, <1>5
  <2>2. IsFiniteSet(Busy(0)) /\ Cardinality(Busy(0)) = 0
    BY <2>1, FS_EmptySet
  <2>3. g[0] \in Lines /\ Len(g[0]) = Cardinality(Busy(0))
    BY <2>1, <2>2
  <2> HIDE DEF Busy, Lines
  <2> QED BY <2>1, <2>2, <2>3
<1>7. ASSUME NEW k \in 1..n, k - 1 \in C PROVE k \in C
  <2>1. /\ g[k - 1] \in Lines /\ IsFiniteSet(Busy(k - 1))
        /\ Len(g[k - 1]) = Cardinality(Busy(k - 1)) /\ k \in 0..n /\ k # 0
    BY <1>0, <1>7
  <2>2. CASE d[k] = "idle"
    <3>1. Busy(k) = Busy(k - 1)
      BY <1>0, <2>2
    <3>2. g[k] = g[k - 1]
      BY <1>5, <2>1, <2>2
    <3> HIDE DEF Busy
    <3> QED BY <2>1, <3>1, <3>2
  <2>3. CASE d[k] = "busy"
    <3>1. Busy(k) = Busy(k - 1) \cup {k} /\ k \notin Busy(k - 1)
      BY <1>0, <2>3
    <3>2. g[k] = Append(g[k - 1], d[k])
      BY <1>5, <2>1, <2>3
    <3>3. g[k] \in Lines /\ Len(g[k]) = Len(g[k - 1]) + 1
      BY <1>0, <2>1, <3>2
    <3>4. IsFiniteSet(Busy(k)) /\ Cardinality(Busy(k)) = Cardinality(Busy(k - 1)) + 1
      <4> DEFINE B == Busy(k - 1)
      <4>1. IsFiniteSet(B) /\ k \notin B
        BY <2>1, <3>1
      <4> HIDE DEF B
      <4>2. IsFiniteSet(B \cup {k}) /\ Cardinality(B \cup {k}) = Cardinality(B) + 1
        BY <4>1, FS_AddElement
      <4> QED BY <3>1, <4>2 DEF B
    <3> HIDE DEF Busy
    <3> QED BY <2>1, <3>3, <3>4
  <2> QED BY <1>0, <2>2, <2>3
<1>8. n \in C
  <2> HIDE DEF C
  <2>1. \A k \in 0..n : k \in C
    BY <1>0, <1>6, <1>7, UpTo
  <2> QED BY <1>0, <2>1
<1> QED BY <1>4, <1>8 DEF n

-----------------------------------------------------------------------------
(* The beats. *)

LEMMA PulseCardinality ==
  ASSUME NEW S PROVE Pulse!Cardinality(S) = Cardinality(S)
BY Zenon DEF Cardinality, Pulse!Cardinality

(* The beat that is put together from what is read. *)
BeatOf(full, l, d, f) ==
  [full |-> full, intr |-> l, disks |-> d, stat |-> Pulse!StripStat(l),
   diskstats |-> IF f = "open" THEN Pulse!StripDiskstats(d) ELSE <<>>]

LEMMA BeatFacts ==
  ASSUME BeatAssumed, NEW full \in BOOLEAN, NEW l \in IntrLines, NEW d \in DiskLines, NEW f
  PROVE  LET b == BeatOf(full, l, d, f)
         IN  /\ b \in BeatRecords /\ b.full = full /\ Stripped(b)
             /\ f = "open" => Disks(b)
<1> DEFINE b == BeatOf(full, l, d, f)
<1>1. l \in Seq({"0", "n"}) /\ d \in Seq({"idle", "busy"})
  BY DEF BeatAssumed
<1>2. /\ b.full = full /\ b.intr = l /\ b.disks = d /\ b.stat.intr = Pulse!ZerosOff(l)
      /\ b.stat.rest = (l = <<>> \/ l[Len(l)] = "0")
      /\ b.diskstats = IF f = "open" THEN Pulse!StripDiskstats(d) ELSE <<>>
  BY DEF BeatOf, Pulse!StripStat
<1>3. b \in BeatRecords
  <2>1. Pulse!StripStat(l) \in [intr : Seq({"0", "n"}), rest : BOOLEAN]
    BY <1>1, ZerosOffFacts DEF Pulse!StripStat
  <2>2. (IF f = "open" THEN Pulse!StripDiskstats(d) ELSE <<>>) \in Seq({"idle", "busy"})
    <3>1. Pulse!StripDiskstats(d) \in Seq({"idle", "busy"})
      BY <1>1, StripFacts
    <3> QED BY <3>1
  <2> QED BY <2>1, <2>2 DEF BeatOf, BeatRecords
<1> HIDE DEF b
<1>4. Stripped(b)
  BY <1>1, <1>2, ZerosOffFacts DEF Stripped
<1>5. f = "open" => Disks(b)
  BY <1>1, <1>2, StripFacts, PulseCardinality DEF Disks
<1> QED BY <1>2, <1>3, <1>4, <1>5 DEF b

(* One more beat on the wire, if there is a connection. *)
LEMMA BeatSent ==
  ASSUME BeatAssumed, NEW full \in BOOLEAN, Pulse!Beat(full), WireFacts, ContentFacts,
         conn' = "set"
  PROVE  /\ crashed' = FALSE /\ file' # "unopened"
         /\ link' # "up" => wire' = wire
         /\ wire' \in Seq(BeatRecords)
         /\ \A i \in 1..Len(wire) : i \in 1..Len(wire') /\ wire'[i] = wire[i]
         /\ link' = "up" => /\ Len(wire') = Len(wire) + 1
                            /\ wire'[Len(wire) + 1].full = full
         /\ ContentFacts'
<1>1. PICK l \in IntrLines, d \in DiskLines :
        /\ Pulse!ReadTo
        /\ wire' = IF link' = "up" THEN Append(wire, BeatOf(full, l, d, file')) ELSE wire
        /\ crashed' = (conn' = "null")
  BY DEF Pulse!Beat, BeatOf
<1> DEFINE b == BeatOf(full, l, d, file')
<1>2. b \in BeatRecords /\ b.full = full /\ Stripped(b) /\ (file' = "open" => Disks(b))
  BY BeatFacts
<1> HIDE DEF b
<1>3. wire \in Seq(BeatRecords) /\ wire' = IF link' = "up" THEN Append(wire, b) ELSE wire
  BY <1>1 DEF WireFacts, b
<1>4. file' # "unopened" /\ (file # "unopened" => file' = file)
  BY <1>1 DEF Pulse!ReadTo
<1>5. /\ Len(wire) \in Nat /\ wire' \in Seq(BeatRecords)
      /\ \A i \in 1..Len(wire) : i \in 1..Len(wire') /\ wire'[i] = wire[i]
      /\ link' # "up" => wire' = wire
      /\ link' = "up" => Len(wire') = Len(wire) + 1 /\ wire'[Len(wire) + 1] = b
  <2>1. CASE link' = "up"
    <3>1. wire' = Append(wire, b)
      BY <1>3, <2>1
    <3> QED BY <1>2, <1>3, <2>1, <3>1, AppendProperties
  <2>2. CASE link' # "up"
    BY <1>3, <2>2
  <2> QED BY <2>1, <2>2
<1>6. ContentFacts'
  <2>1. ASSUME NEW i \in 1..Len(wire')
        PROVE  Stripped(wire'[i]) /\ (file' = "open" => Disks(wire'[i]))
    <3>1. i \in 1..Len(wire) \/ (link' = "up" /\ i = Len(wire) + 1)
      BY <1>5
    <3>2. CASE i \in 1..Len(wire)
      BY <1>4, <1>5, <3>2 DEF ContentFacts
    <3>3. CASE link' = "up" /\ i = Len(wire) + 1
      BY <1>2, <1>5, <3>3
    <3> QED BY <3>1, <3>2, <3>3
  <2>2. ASSUME NEW i \in 1..Len(wire') PROVE Stripped(wire[i])' /\ (file' = "open" => Disks(wire[i])')
    BY <2>1, <2>2 DEF Stripped, Disks
  <2> QED BY <1>4, <2>2 DEF ContentFacts
<1> QED BY <1>1, <1>2, <1>4, <1>5, <1>6

LEMMA BeatStart == ASSUME BeatAssumed, Pulse!Init PROVE BeatInv
<1>1. /\ link = "none" /\ beating = FALSE /\ wire = <<>> /\ known = "nothing" /\ crashed = FALSE
  BY DEF Pulse!Init
<1>2. LinkFacts
  BY <1>1 DEF LinkFacts
<1>3. WireFacts /\ ContentFacts
  BY <1>1 DEF WireFacts, ContentFacts
<1> QED BY <1>2, <1>3 DEF BeatInv

LEMMA BeatOnConnected == ASSUME BeatAssumed, BeatInv, Pulse!OnConnected PROVE BeatInv'
<1>1. /\ link = "none" /\ link' = "up" /\ conn' = "set" /\ beating' = TRUE /\ known' = known
      /\ Pulse!Beat(TRUE)
  BY DEF Pulse!OnConnected, Pulse!Start
<1>2. wire = <<>> /\ known = "nothing" /\ WireFacts /\ ContentFacts
  BY <1>1 DEF BeatInv, LinkFacts
<1>3. /\ crashed' = FALSE /\ wire' \in Seq(BeatRecords) /\ Len(wire') = Len(wire) + 1
      /\ wire'[Len(wire) + 1].full = TRUE /\ ContentFacts'
  BY <1>1, <1>2, BeatSent
<1>4. LinkFacts'
  BY <1>1, <1>3 DEF LinkFacts
<1>5. Len(wire') = 1 /\ wire'[1].full = TRUE /\ wire' # <<>>
  BY <1>2, <1>3
<1>6. WireFacts'
  <2>1. \A i \in 1..Len(wire') : i = 1
    BY <1>5
  <2> QED BY <1>1, <1>2, <1>3, <1>5, <2>1 DEF WireFacts, BeatRecords
<1> QED BY <1>3, <1>4, <1>6 DEF BeatInv

LEMMA BeatOnDisconnected == ASSUME BeatAssumed, BeatInv, Pulse!OnDisconnected PROVE BeatInv'
<1>1. /\ link = "broken" /\ link' = "none" /\ beating' = FALSE
      /\ UNCHANGED <<conn, wire, file, known, crashed>>
  BY DEF Pulse!OnDisconnected, Pulse!Stop
<1>2. wire = <<>> /\ known = "nothing" /\ crashed = FALSE
  BY <1>1 DEF BeatInv, LinkFacts
<1>3. wire' = <<>> /\ known' = "nothing" /\ crashed' = FALSE
  BY <1>1, <1>2
<1> QED BY <1>1, <1>3 DEF BeatInv, LinkFacts, WireFacts, ContentFacts

(* The timer beats only when there is a connection, and the first beat of  *)
(* it has been sent.                                                       *)
LEMMA BeatOnTimer == ASSUME BeatAssumed, BeatInv, Pulse!OnTimer PROVE BeatInv'
<1>1. /\ beating = TRUE /\ UNCHANGED <<link, conn, beating, known>> /\ Pulse!Beat(FALSE)
  BY DEF Pulse!OnTimer, Pulse!Beats, BeatInv, LinkFacts
<1>2. LinkFacts /\ WireFacts /\ ContentFacts /\ conn' = "set"
  BY <1>1 DEF BeatInv, LinkFacts
<1>3. /\ crashed' = FALSE
      /\ link' # "up" => wire' = wire
      /\ wire' \in Seq(BeatRecords)
      /\ \A i \in 1..Len(wire) : i \in 1..Len(wire') /\ wire'[i] = wire[i]
      /\ link' = "up" => /\ Len(wire') = Len(wire) + 1
                         /\ wire'[Len(wire) + 1].full = FALSE
      /\ ContentFacts'
  BY <1>1, <1>2, BeatSent
<1>4. LinkFacts'
  BY <1>1, <1>2, <1>3 DEF LinkFacts
<1>5. WireFacts'
  <2>1. CASE link # "up"
    BY <1>1, <1>2, <1>3, <2>1 DEF WireFacts, BeatRecords
  <2>2. CASE link = "up"
    <3>1. Len(wire) \in Nat /\ (known = "nothing" => Len(wire) >= 1)
      BY <1>2, <2>2 DEF WireFacts
    <3>2. ASSUME NEW i \in 1..Len(wire')
          PROVE  wire'[i].full <=> (i = 1 /\ known = "nothing")
      <4>1. i \in 1..Len(wire) \/ i = Len(wire) + 1
        BY <1>1, <1>3, <2>2, <3>1
      <4>2. CASE i \in 1..Len(wire)
        BY <1>2, <1>3, <4>2 DEF WireFacts
      <4>3. CASE i = Len(wire) + 1
        BY <1>1, <1>3, <2>2, <3>1, <4>3
      <4> QED BY <4>1, <4>2, <4>3
    <3>3. wire' # <<>>
      BY <1>1, <1>3, <2>2, <3>1
    <3> QED BY <1>1, <1>3, <3>2, <3>3 DEF WireFacts, BeatRecords
  <2> QED BY <2>1, <2>2
<1> QED BY <1>3, <1>4, <1>5 DEF BeatInv

LEMMA BeatBreak == ASSUME BeatAssumed, BeatInv, Pulse!Break PROVE BeatInv'
<1>1. /\ link = "up" /\ link' = "broken" /\ wire' = <<>> /\ known' = "nothing"
      /\ UNCHANGED <<conn, beating, file, crashed>>
  BY DEF Pulse!Break
<1> QED BY <1>1 DEF BeatInv, LinkFacts, WireFacts, ContentFacts

LEMMA BeatReceive == ASSUME BeatAssumed, BeatInv, Pulse!Receive PROVE BeatInv'
<1>1. /\ wire # <<>> /\ wire' = Tail(wire)
      /\ known' = IF Head(wire).full THEN "all" ELSE known
      /\ UNCHANGED <<link, conn, beating, file, crashed>>
  BY DEF Pulse!Receive
<1>2. LinkFacts /\ WireFacts /\ ContentFacts /\ wire \in Seq(BeatRecords) /\ link = "up"
  BY <1>1 DEF BeatInv, LinkFacts, WireFacts
<1>3. /\ Len(wire) \in Nat /\ 1 \in 1..Len(wire) /\ Head(wire) = wire[1]
      /\ wire' \in Seq(BeatRecords) /\ Len(wire') = Len(wire) - 1
      /\ \A i \in 1..Len(wire') : i + 1 \in 1..Len(wire) /\ i + 1 # 1 /\ wire'[i] = wire[i + 1]
  BY <1>1, <1>2
<1>4. known' # "nothing"
  BY <1>1, <1>2, <1>3 DEF WireFacts
<1>5. LinkFacts'
  BY <1>1, <1>2 DEF LinkFacts
<1>6. WireFacts'
  <2>1. ASSUME NEW i \in 1..Len(wire') PROVE ~wire'[i].full
    BY <1>2, <1>3 DEF WireFacts
  <2> QED BY <1>3, <1>4, <2>1 DEF WireFacts, BeatRecords
<1>7. ContentFacts'
  <2>1. ASSUME NEW i \in 1..Len(wire')
        PROVE  Stripped(wire[i])' /\ file # "unopened" /\ (file = "open" => Disks(wire[i])')
    <3>1. Stripped(wire[i + 1]) /\ file # "unopened" /\ (file = "open" => Disks(wire[i + 1]))
      BY <1>2, <1>3 DEF ContentFacts
    <3>2. wire'[i] = wire[i + 1]
      BY <1>3
    <3> QED BY <3>1, <3>2 DEF Stripped, Disks
  <2> QED BY <1>1, <2>1 DEF ContentFacts
<1> QED BY <1>5, <1>6, <1>7 DEF BeatInv

LEMMA BeatInvariance == BeatAssumed /\ Pulse!Spec => []BeatInv
<1> SUFFICES ASSUME BeatAssumed PROVE Pulse!Spec => []BeatInv
  OBVIOUS
<1>1. Pulse!Init => BeatInv
  BY BeatStart
<1>2. BeatInv /\ [Pulse!Next]_Pulse!vars => BeatInv'
  <2> SUFFICES ASSUME BeatInv, [Pulse!Next]_Pulse!vars PROVE BeatInv'
    OBVIOUS
  <2>1. CASE Pulse!Next
    BY <2>1, BeatOnConnected, BeatOnDisconnected, BeatOnTimer, BeatBreak, BeatReceive
       DEF Pulse!Next
  <2>2. CASE UNCHANGED Pulse!vars
    <3>1. UNCHANGED <<link, conn, beating, wire, file, known, crashed>>
      BY <2>2 DEF Pulse!vars
    <3> QED BY <3>1 DEF BeatInv, LinkFacts, WireFacts, ContentFacts, BeatRecords, Stripped, Disks
  <2> QED BY <2>1, <2>2
<1> QED BY <1>1, <1>2, PTL DEF Pulse!Spec

(* Heartbeat::start and onTimer: no beat is sent before there is a         *)
(* connection, the first beat of every connection and no other has the     *)
(* static part, and strip_stat and strip_diskstats take away nothing but   *)
(* zeros (see StripStat for the exception), whenever the timer fires and   *)
(* the connection breaks.                                                  *)
THEOREM HeartbeatIsRight == BeatAssumed /\ Pulse!Spec => []BeatsRight
<1>1. BeatInv => BeatsRight
  <2> SUFFICES ASSUME BeatInv PROVE BeatsRight
    OBVIOUS
  <2>1. Pulse!FirstIsFull
    BY DEF BeatInv, LinkFacts, WireFacts, Pulse!FirstIsFull
  <2>2. Pulse!OnlyZerosStripped
    BY DEF BeatInv, ContentFacts, Stripped, Disks, Pulse!OnlyZerosStripped
  <2> QED BY <2>1, <2>2 DEF BeatsRight, Pulse!BeatsRight
<1> QED BY <1>1, BeatInvariance, PTL
=============================================================================
