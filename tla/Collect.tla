------------------------------ MODULE Collect ------------------------------
(***************************************************************************)
(* examples/collect: CollectLogger, getSnapshot, ProcFs::fill and its      *)
(* FileCache.  Every snapshot reads /proc/<pid>/stat of all processes      *)
(* through descriptors that an LRU cache keeps open, and adds the constant *)
(* facts of a process only when it is new, judged by a map from pid to     *)
(* start time that is cleared every Period fills.  The log, which takes a  *)
(* first snapshot and then one for every tick of a timer, and the RPC      *)
(* share all of it; the log reuses its info_, which it clears after every  *)
(* save, and an RPC fills a response of its own.                           *)
(*                                                                         *)
(* fill is one handler of the loop thread, but the processes come and go   *)
(* while it runs, so it is modelled step by step.  A process is known by   *)
(* its pid and its start time, the number of its birth.  An open stat file *)
(* belongs to one process; reading it fails once that has ended.           *)
(***************************************************************************)
EXTENDS Naturals, Sequences, SequencesExt, FiniteSets

CONSTANTS
  Pids,        \* bound: the pids of the system
  MaxBirths,   \* bound: processes in the life of the collector
  MaxFiles,    \* maxFiles_
  Period,      \* fills between two resets of starttime_, 60
  AskedLevels, \* bound: levels that getSnapshot is asked for
  Meminfo,     \* the keys of the lines of /proc/meminfo, in their order
  Stat         \* and of /proc/stat

FilesAssumption == MaxFiles \in Nat \ {0}
PidsAssumption == Pids \subseteq Nat \ {0}
MeminfoAssumption == \E i \in 6..Len(Meminfo) : Meminfo[i] = "SwapTotal"
StatAssumption == \E i \in 2..Len(Stat) : Stat[i] # "cpuN"
PeriodAssumption == Period \in Nat \ {0} /\ MaxBirths \in Nat

VARIABLES
  alive,       \* alive[p]: start time of the process of pid p, 0 if none
  births,      \* births so far
  list,        \* list_, most recently used first
  file,        \* map_: name to the start time its descriptor belongs to, 0 for -1
  count,       \* count_
  starttime,   \* starttime_
  phase,       \* "boot", "idle", "scan", "open", "read", "process" or "close"
  asker,       \* whom the fill is for: "log" or "rpc"
  level,       \* and its level
  pid,         \* the pid that is being read, 0 between two
  stat,        \* start time in content_, 0 when it is of no use
  listed,      \* pids that readdir has returned in this fill
  stable,      \* pids whose process has been there since the fill began
  records,     \* info's processes: pid, start time, whose cmdline if basic is set
  last,        \* the snapshot that was saved or answered, until the next fill
  told         \* whose basic was sent since the last reset: to whom, in which fill

table == <<alive, births>>
cache == <<list, file>>
purpose == <<asker, level>>
vars == <<table, cache, count, starttime, phase, purpose, pid, stat, listed, stable, records,
          last, told>>

Sentry == 0   \* stands for /dev/null
Names == Pids \cup {Sentry}
Times == 0..MaxBirths
Records == [pid : Pids, start : Times, basic : {"none", "set"}, cmdline : Times]
Askers == {"log", "rpc"}
Tellings == [asker : Askers, fill : 0..(Period - 1), pid : Pids, start : Times]

(* SnapshotRequest_Level *)
InfoOnly == 0
AndProcesses == 1
AndThreads == 2
InitialSnapshot == 3
Levels == InfoOnly..InitialSnapshot

LevelsAssumption == AskedLevels \subseteq Levels

TypeOK ==
  /\ alive \in [Pids -> Times]
  /\ births \in Times
  /\ list \in Seq(Names)
  /\ DOMAIN file \subseteq Names /\ \A n \in DOMAIN file : file[n] \in Times
  /\ count \in 0..(Period - 1)
  /\ DOMAIN starttime \subseteq Pids /\ \A p \in DOMAIN starttime : starttime[p] \in Times
  /\ phase \in {"boot", "idle", "scan", "open", "read", "process", "close"}
  /\ asker \in Askers /\ level \in Levels
  /\ pid \in Pids \cup {0}
  /\ stat \in Times
  /\ listed \subseteq Pids /\ stable \subseteq Pids
  /\ records \subseteq Records
  /\ DOMAIN last = {"processes", "parts"} /\ last.processes \subseteq Records
  /\ told \subseteq Tellings

Nothing == [processes |-> {}, parts |-> {}]

Init ==
  /\ alive = [p \in Pids |-> 0]
  /\ births = 0
  /\ list = <<>> /\ file = <<>>
  /\ count = 0
  /\ starttime = <<>>
  /\ phase = "boot"
  /\ asker = "log" /\ level = InitialSnapshot
  /\ pid = 0 /\ stat = 0
  /\ listed = {} /\ stable = {}
  /\ records = {} /\ told = {}
  /\ last = Nothing

-----------------------------------------------------------------------------
(* The processes (external). *)

Birth(p) ==
  /\ alive[p] = 0
  /\ births < MaxBirths
  /\ births' = births + 1
  /\ alive' = [alive EXCEPT ![p] = births + 1]
  /\ UNCHANGED <<cache, count, starttime, phase, purpose, pid, stat, listed, stable, records, last, told>>

Death(p) ==
  /\ alive[p] # 0
  /\ alive' = [alive EXCEPT ![p] = 0]
  /\ stable' = stable \ {p}
  /\ UNCHANGED <<births, cache, count, starttime, phase, purpose, pid, stat, listed, records, last, told>>

-----------------------------------------------------------------------------
(* FileCache. *)

Without(f, ns) == [n \in DOMAIN f \ ns |-> f[n]]

(* Mutant: a file that is found stays where it is. *)
NotMoved(n) == list

(* The iterator that map_ keeps for a name. *)
Place(n) == CHOOSE i \in 1..Len(list) : list[i] = n

(* splice *)
MovedToFront(n) == <<n>> \o RemoveAt(list, Place(n))

(* getFile with kLRU: a file that is found moves to the front; another is  *)
(* opened, for the process that is there or with an error, which is kept   *)
(* like a descriptor, and the last one is dropped if there are too many.   *)
GetFile(n, time) ==
  IF n \in DOMAIN file
    THEN /\ list' = MovedToFront(n)
         /\ UNCHANGED file
    ELSE LET longer == <<n>> \o list
             wider == [m \in DOMAIN file \cup {n} |-> IF m = n THEN time ELSE file[m]] IN
         IF Len(longer) > MaxFiles
           THEN /\ file' = Without(wider, {Last(longer)})
                /\ list' = Front(longer)
           ELSE /\ file' = wider
                /\ list' = longer

(* Mutant: nothing is closed. *)
CloseFileNot(n) == UNCHANGED cache

CloseFile(n) ==
  IF n \in DOMAIN file
    THEN /\ file' = Without(file, {n})
         /\ list' = RemoveAt(list, Place(n))
    ELSE UNCHANGED cache

(* closeUnusedFiles: names leave the back of the list up to the sentry, if *)
(* that is still there.                                                    *)
CloseUnusedFiles ==
  IF Sentry \in DOMAIN file
    THEN /\ file' = Without(file, {list[i] : i \in (Place(Sentry) + 1)..Len(list)})
         /\ list' = SubSeq(list, 1, Place(Sentry))
    ELSE UNCHANGED cache

-----------------------------------------------------------------------------
(* ProcFs::fill. *)

(* The fill that clears starttime_. *)
Reset == count + 1 >= Period

(* A fill begins. *)
Fill(who, lev) ==
  /\ IF Reset
       THEN count' = 0 /\ starttime' = <<>> /\ told' = {}
       ELSE count' = count + 1 /\ UNCHANGED <<starttime, told>>
  /\ GetFile(Sentry, 0)
  /\ asker' = who /\ level' = lev
  /\ listed' = {}
  /\ stable' = {p \in Pids : alive[p] # 0}
  /\ phase' = IF lev >= AndProcesses THEN "scan" ELSE "close"
  /\ last' = Nothing
  /\ UNCHANGED <<table, pid, stat, records>>

(* CollectLogger::start: the first fill, before the loop and its timer run, *)
Start == phase = "boot" /\ Fill("log", InitialSnapshot)

(* the timer, *)
Snapshot == phase = "idle" /\ Fill("log", AndThreads)

(* and the RPC. *)
GetSnapshot(lev) == phase = "idle" /\ Fill("rpc", lev)

(* readdir returns the next pid, *)
ReadDir(p) ==
  /\ phase = "scan"
  /\ p \notin listed
  /\ alive[p] # 0
  /\ pid' = p
  /\ listed' = listed \cup {p}
  /\ phase' = "open"
  /\ UNCHANGED <<table, cache, count, starttime, purpose, stat, stable, records, last, told>>

(* or the end: no process that was there all the time is left out.         *)
EndDir ==
  /\ phase = "scan"
  /\ stable \subseteq listed
  /\ phase' = "close"
  /\ UNCHANGED <<table, cache, count, starttime, purpose, pid, stat, listed, stable, records,
                 last, told>>

(* readFile: getFile, ... *)
Open ==
  /\ phase = "open"
  /\ GetFile(pid, alive[pid])
  /\ IF file'[pid] = 0
       THEN phase' = "scan" /\ pid' = 0
       ELSE phase' = "read" /\ UNCHANGED pid
  /\ UNCHANGED <<table, count, starttime, purpose, stat, listed, stable, records, last, told>>

(* ... pread, and closeFile after an error.                                *)
Read ==
  /\ phase = "read"
  /\ IF alive[pid] = file[pid]
       THEN /\ stat' = file[pid]
            /\ phase' = "process"
            /\ UNCHANGED <<cache, pid>>
       ELSE /\ CloseFile(pid)
            /\ phase' = "scan"
            /\ pid' = 0
            /\ UNCHANGED stat
  /\ UNCHANGED <<table, count, starttime, purpose, listed, stable, records, last, told>>

(* Mutant: a pid that is known is not new. *)
IsNewPid == pid \notin DOMAIN starttime

(* A process that is not in starttime_, or not with this start time. *)
IsNew == pid \notin DOMAIN starttime \/ starttime[pid] # stat

(* fillProcess; basic with the command line that the pid has now. *)
FillProcess ==
  /\ phase = "process"
  /\ records' = records \cup
       {[pid |-> pid, start |-> stat, basic |-> IF IsNew THEN "set" ELSE "none",
         cmdline |-> IF IsNew THEN alive[pid] ELSE 0]}
  /\ IF IsNew
       THEN /\ starttime' = [p \in DOMAIN starttime \cup {pid} |->
                               IF p = pid THEN stat ELSE starttime[p]]
            /\ told' = told \cup {[asker |-> asker, fill |-> count, pid |-> pid, start |-> stat]}
       ELSE UNCHANGED <<starttime, told>>
  /\ phase' = "scan"
  /\ pid' = 0 /\ stat' = 0
  /\ UNCHANGED <<table, cache, count, purpose, listed, stable, last>>

-----------------------------------------------------------------------------
(* The figures of the system.  LineReader walks over the lines of a file;  *)
(* what is set is the set of keys that were found where they are expected. *)

FillInitial == {"kernel_version", "kernel_cmdline", "cpuinfo"}

FillLoadAvg == {"loadavg"}

(* The keys found when the reader is at line i for the i-th of the order.  *)
FoundInOrder(keys, from, order) ==
  {order[i] : i \in {j \in 1..Len(order) : from + j - 1 <= Len(keys)
                                          /\ keys[from + j - 1] = order[j]}}

(* Five lines, then those from SwapTotal on. *)
FillMemory(keys) ==
  LET swap == SelectInSubSeq(keys, 6, Len(keys), LAMBDA k : k = "SwapTotal") IN
  FoundInOrder(keys, 1, <<"MemTotal", "MemFree", "Buffers", "Cached", "SwapCached">>)
    \cup FoundInOrder(keys, swap, <<"SwapTotal", "SwapFree">>)

(* The line of all CPUs, one line for each CPU, then one for each figure.  *)
FillStat(keys) ==
  LET rest == SelectInSubSeq(keys, 2, Len(keys), LAMBDA k : k # "cpuN") IN
  FoundInOrder(keys, 1, <<"cpu">>)
    \cup FoundInOrder(keys, rest, <<"intr", "ctxt", "btime", "processes", "procs_running",
                                    "procs_blocked", "softirq">>)

(* The log saves info_ and clears it; the response of an RPC is sent and   *)
(* goes out of scope.                                                      *)
Save(parts) ==
  /\ last' = [processes |-> records, parts |-> parts]
  /\ records' = {}

(* The end of fill and of its caller. *)
EndFill ==
  /\ phase = "close"
  /\ CloseUnusedFiles
  /\ Save((IF level >= InitialSnapshot THEN FillInitial ELSE {})
            \cup FillLoadAvg \cup FillMemory(Meminfo) \cup FillStat(Stat))
  /\ phase' = "idle"
  /\ asker' = "log" /\ level' = InfoOnly /\ stable' = {}
  /\ UNCHANGED <<table, count, starttime, pid, stat, listed, told>>

Next ==
  \/ \E p \in Pids : Birth(p) \/ Death(p) \/ ReadDir(p)
  \/ Start \/ Snapshot
  \/ \E lev \in AskedLevels : GetSnapshot(lev)
  \/ EndDir \/ Open \/ Read \/ FillProcess \/ EndFill

Spec == Init /\ [][Next]_vars

(* The loop runs and its timer is not starved by RPCs. *)
Fairness ==
  /\ SF_vars(Snapshot)
  /\ WF_vars(Start \/ (\E p \in Pids : ReadDir(p)) \/ EndDir \/ Open \/ Read \/ FillProcess \/ EndFill)

FairSpec == Spec /\ Fairness

-----------------------------------------------------------------------------
(* Properties. *)

(* The assertions of getFile: list_ and map_ name the same files, each     *)
(* once, and no more than maxFiles_.                                       *)
CacheAgrees ==
  /\ \A i, j \in 1..Len(list) : i # j => list[i] # list[j]
  /\ {list[i] : i \in 1..Len(list)} = DOMAIN file
  /\ Len(list) <= MaxFiles

(* The sentry separates used from unused: after a fill only descriptors    *)
(* that it used are open, unless it needed so many that the sentry went.   *)
OnlyUsedStayOpen ==
  phase = "idle" /\ Sentry \in DOMAIN file => DOMAIN file \subseteq listed \cup {Sentry}

(* And those it read are still open if they fit. *)
UsedStayOpen ==
  phase = "idle" /\ Cardinality(listed) < MaxFiles =>
    \A r \in last.processes : r.pid \in DOMAIN file

(* Between two resets the constant facts of a process are sent once, to    *)
(* the log or to an RPC, though its pid has been and will be others', whose *)
(* facts replace each other in starttime_.                                 *)
ToldOnce ==
  \A a, b \in told : a.pid = b.pid /\ a.start = b.start => a = b

(* A record has basic if this very fill tells it, and a record without is  *)
(* of a process that an earlier fill since the reset has told: to the log  *)
(* or to an RPC, which need not be the one that asks now.                  *)
BasicIsKnown ==
  \A r \in records : \E a \in told :
    /\ a.pid = r.pid /\ a.start = r.start
    /\ IF r.basic = "set" THEN a.fill = count /\ a.asker = asker ELSE a.fill # count

(* The command line, which is read after stat and by the pid, may be that  *)
(* of the next process of the pid or of none, never of an earlier one.     *)
CmdlineNotOlder ==
  \A r \in records : r.basic = "set" => r.cmdline = 0 \/ r.cmdline >= r.start

(* What the snapshots of the log and of the RPCs say of a process, taken   *)
(* together: its constant facts once, in the first record that it has      *)
(* after a reset.  One who reads only the log, or only one's own answers,  *)
(* cannot rely on having them, since starttime_ is shared.                 *)
SnapshotsRight == ToldOnce /\ BasicIsKnown /\ CmdlineNotOlder

(* A process that stays is in a snapshot in the end, even if its pid had   *)
(* another owner whose descriptor is cached: unless a failed open was      *)
(* cached for the pid, which is used as long as the pid is there.          *)
StayingIsReported ==
  \A p \in Pids : \A t \in 1..MaxBirths :
    alive[p] = t ~>
      \/ alive[p] # t
      \/ \E r \in last.processes : r.pid = p /\ r.start = t
      \/ p \in DOMAIN file /\ file[p] = 0

(* The cache is consistent and holds what the last fill used.              *)
CacheConsistent == TypeOK /\ CacheAgrees /\ OnlyUsedStayOpen /\ UsedStayOpen
=============================================================================
