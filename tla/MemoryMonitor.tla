--------------------------- MODULE MemoryMonitor ----------------------------
(***************************************************************************)
(* spawn_memory_monitor (src/src/monitor.rs): every 30 seconds the memory  *)
(* of the process is sampled and compared with a baseline, which moves     *)
(* only when a growth is reported.  The numbers of requests and the        *)
(* elapsed time only go into the report.                                   *)
(*                                                                         *)
(* External: what get_memory_used reads, which may be nothing at all.      *)
(***************************************************************************)
EXTENDS Integers

CONSTANTS
  Levels,      \* amounts of memory the process may use
  Threshold,   \* growth worth a report: 100 MB
  None         \* no reading, or no snapshot

VARIABLES
  sampler,         \* the task: "none", "running" or "stopped"
  memory,          \* what get_memory_used() answers
  last_snapshot,   \* the baseline
  reported         \* history variable: the first sample, then the one
                   \* that was reported last

mvars == <<sampler, memory, last_snapshot, reported>>

Init ==
  /\ sampler = "none"
  /\ memory \in Levels \cup {None}
  /\ last_snapshot = None
  /\ reported = None

Spawn ==
  /\ sampler = "none"
  /\ sampler' = "running"
  /\ UNCHANGED <<memory, last_snapshot, reported>>

(* The process allocates or frees, or the reading fails.                   *)
Use ==
  /\ memory' \in (Levels \cup {None}) \ {memory}
  /\ UNCHANGED <<sampler, last_snapshot, reported>>

(* One tick of the interval.  Without a reading nothing happens.           *)
Reading(Step) ==
  /\ sampler = "running"
  /\ memory # None
  /\ Step
  /\ UNCHANGED <<sampler, memory>>

FirstSample ==
  Reading(/\ last_snapshot = None
          /\ last_snapshot' = memory
          /\ reported' = memory)

Grown == memory - last_snapshot >= Threshold

(* The growth is logged.                                                   *)
Report ==
  Reading(/\ last_snapshot # None /\ Grown
          /\ last_snapshot' = memory
          /\ reported' = memory)

NoReport_MovesBaseline ==
  Reading(/\ last_snapshot # None /\ ~Grown
          /\ last_snapshot' = memory
          /\ UNCHANGED reported)

NoReport ==
  Reading(/\ last_snapshot # None /\ ~Grown
          /\ UNCHANGED <<last_snapshot, reported>>)

Sample == FirstSample \/ Report \/ NoReport

(* The loop ends when its token is cancelled, at the next poll, and its    *)
(* baseline with it.                                                       *)
Stop ==
  /\ sampler = "running"
  /\ sampler' = "stopped"
  /\ last_snapshot' = None
  /\ reported' = None
  /\ UNCHANGED memory

-----------------------------------------------------------------------------
TypeOK ==
  /\ sampler \in {"none", "running", "stopped"}
  /\ memory \in Levels \cup {None}
  /\ last_snapshot \in Levels \cup {None}
  /\ reported \in Levels \cup {None}

(* A growth by the threshold since the last report.                        *)
Leaking ==
  /\ sampler = "running"
  /\ memory # None /\ reported # None
  /\ memory - reported >= Threshold
=============================================================================
