--------------------------- MODULE PressureLadder ---------------------------
(***************************************************************************)
(* The pressure ladder (memmux-sched): classifying a stage from the share  *)
(* of the budget in use and the leading indicators, and the ordered        *)
(* actions of each stage.                                                  *)
(***************************************************************************)
EXTENDS Integers, Sequences

Stages == {"Normal", "Elevated", "High", "Critical", "Emergency"}

StageRank ==
  [s \in Stages |->
    CASE s = "Normal" -> 0 [] s = "Elevated" -> 1 [] s = "High" -> 2
      [] s = "Critical" -> 3 [] s = "Emergency" -> 4]

AtLeast(stage, floor) == StageRank[stage] >= StageRank[floor]

Escalated(stage) ==
  CASE stage = "Normal"   -> "Elevated"
    [] stage = "Elevated" -> "High"
    [] stage = "High"     -> "Critical"
    [] OTHER              -> "Emergency"

(* The percentage bands: utilization is used / budget, and with a zero     *)
(* budget it is 0 for nothing used and 1 otherwise.                        *)
Below(used, budget, percent) ==
  IF budget = 0 THEN used = 0 ELSE used * 100 < percent * budget

Classify(used, budget, swapGrowing) ==
  LET base == IF Below(used, budget, 70) THEN "Normal"
              ELSE IF Below(used, budget, 82) THEN "Elevated"
              ELSE IF Below(used, budget, 90) THEN "High"
              ELSE "Critical"
  IN  IF used > budget THEN "Emergency"
      ELSE IF swapGrowing THEN Escalated(base) ELSE base

PressureActions ==
  {"RoutineCompaction", "TrimRenderCaches", "RotateBuffers", "StopIdleSharedWorkers",
   "ReclaimIdleChildren", "ReduceWorkerConcurrency", "BlockLowPriorityStarts",
   "HibernateLowPriority", "RecycleBloatedProviders", "PreserveGitState",
   "TerminateLowestPriorityTree", "NotifyOperator"}

(* The deterministic actions of a stage, in order.                         *)
Actions(stage) ==
  CASE stage = "Normal"    -> <<"RoutineCompaction">>
    [] stage = "Elevated"  -> <<"TrimRenderCaches", "RotateBuffers", "StopIdleSharedWorkers">>
    [] stage = "High"      -> <<"ReclaimIdleChildren", "ReduceWorkerConcurrency",
                                "BlockLowPriorityStarts">>
    [] stage = "Critical"  -> <<"HibernateLowPriority", "RecycleBloatedProviders">>
    [] stage = "Emergency" -> <<"PreserveGitState", "TerminateLowestPriorityTree",
                                "NotifyOperator">>

=============================================================================
