-------------------------- MODULE CollectInstance ---------------------------
(* Collect as its run and its proof use it, the latter beside that of      *)
(* ZurgHardware.                                                           *)

CONSTANTS Pids, MaxBirths, MaxFiles, Period, AskedLevels, Meminfo, Stat

VARIABLES
  alive, births, list, file, count, starttime, phase, asker, level, pid, stat, listed, stable,
  records, last, told

Collector == INSTANCE Collect

CollectAssumed ==
  /\ Collector!FilesAssumption /\ Collector!PidsAssumption /\ Collector!PeriodAssumption
  /\ Collector!LevelsAssumption

(* FileCache.h: list_ and map_ agree, and after a fill what it used, and   *)
(* only that, stays open unless the sentry was pushed out.                 *)
CacheConsistent == Collector!CacheConsistent

(* ProcFs::fill: the constant facts of a process are in the first record   *)
(* that it has after starttime_ was cleared and in no other, be that in    *)
(* the log or in the answer to an RPC.                                     *)
SnapshotsRight == Collector!SnapshotsRight
=============================================================================
