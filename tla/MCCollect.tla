----------------------------- MODULE MCCollect -----------------------------
(* Instances of Collect for TLC. *)
EXTENDS CollectInstance, Integers, SequencesExt

ASSUME CollectAssumption ==
  CollectAssumed /\ Collector!MeminfoAssumption /\ Collector!StatAssumption

OldMeminfo == <<"MemTotal", "MemFree", "Buffers", "Cached", "SwapCached", "Active", "Inactive",
                "SwapTotal", "SwapFree", "Dirty">>

(* Since Linux 3.14. *)
NewMeminfo == <<"MemTotal", "MemFree", "MemAvailable", "Buffers", "Cached", "SwapCached",
                "Active", "Inactive", "SwapTotal", "SwapFree", "Dirty">>

TwoCpus == <<"cpu", "cpuN", "cpuN", "intr", "ctxt", "btime", "processes", "procs_running",
             "procs_blocked", "softirq">>

(* fillStat finds every figure, and so does fillMemory in the file of an   *)
(* old kernel; in that of a new one the three lines after MemAvailable are *)
(* not where it looks for them.                                            *)
ASSUME FiguresRead ==
  /\ Collector!FillStat(TwoCpus) = ToSet(TwoCpus) \ {"cpuN"}
  /\ Collector!FillMemory(OldMeminfo) = ToSet(OldMeminfo) \ {"Active", "Inactive", "Dirty"}
  /\ Collector!FillMemory(NewMeminfo) = {"MemTotal", "MemFree", "SwapTotal", "SwapFree"}

FairSpec == Collector!FairSpec

(* ProcFs::fill: a process that stays is in a snapshot in the end, unless a *)
(* failed open was cached for its pid.                                      *)
StayingIsReported == Collector!StayingIsReported
=============================================================================
