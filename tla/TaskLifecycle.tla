--------------------------- MODULE TaskLifecycle ---------------------------
(***************************************************************************)
(* The lifecycle state machine of a logical task (memmux-core) and the     *)
(* walks over it that the daemon performs: a move is taken when the table  *)
(* allows it and silently skipped otherwise, which is what every           *)
(* `if let Ok(t) = task.transition(..)` of the daemon does.                *)
(***************************************************************************)
EXTENDS Integers

TaskState == {"Created", "Queued", "Admitting", "Starting", "Active",
              "ToolRunning", "WaitingUser", "Blocked", "Idle",
              "Checkpointing", "Hibernated", "Recycling", "Resuming",
              "Failed", "Terminating", "Terminated"}

(* A task that is in no table: never created, or forgotten.                *)
Absent == "Absent"

(* The states each state may legally move to.                              *)
AllowedNext ==
  [s \in TaskState |->
    CASE s = "Created"       -> {"Queued", "Terminating"}
      [] s = "Queued"        -> {"Admitting", "Blocked", "Terminating"}
      [] s = "Admitting"     -> {"Starting", "Queued", "Failed", "Terminating"}
      [] s = "Starting"      -> {"Active", "Failed", "Terminating"}
      [] s = "Active"        -> {"ToolRunning", "WaitingUser", "Blocked", "Idle",
                                 "Checkpointing", "Recycling", "Failed", "Terminating"}
      [] s = "ToolRunning"   -> {"Active", "WaitingUser", "Failed", "Terminating"}
      [] s = "WaitingUser"   -> {"Active", "Idle", "Checkpointing", "Terminating"}
      [] s = "Blocked"       -> {"Queued", "Active", "Terminating"}
      [] s = "Idle"          -> {"Active", "Checkpointing", "Terminating"}
      [] s = "Checkpointing" -> {"Hibernated", "Active", "Failed", "Terminating"}
      [] s = "Hibernated"    -> {"Queued", "Resuming", "Terminating"}
      [] s = "Recycling"     -> {"Resuming", "Failed", "Terminating"}
      [] s = "Resuming"      -> {"Active", "Failed", "Terminating"}
      [] s = "Failed"        -> {"Queued", "Terminating"}
      [] s = "Terminating"   -> {"Terminated"}
      [] s = "Terminated"    -> {}]

CanTransitionTo(s, next) == next \in AllowedNext[s]

IsTerminal(s) == s = "Terminated"

(* Task::transition: an illegal move leaves the task as it was.            *)
Transition(s, to) == IF CanTransitionTo(s, to) THEN to ELSE s

(* The walks the handlers drive a task along.                              *)
LaunchWalk(s)    == Transition(Transition(Transition(s, "Admitting"), "Starting"), "Active")
LaunchFailWalk(s) == Transition(Transition(Transition(s, "Admitting"), "Starting"), "Failed")
HibernateWalk(s) == Transition(Transition(s, "Checkpointing"), "Hibernated")
ResumeWalkDirect(s) == Transition(s, "Active")
ResumeWalk(s)    == Transition(Transition(s, "Resuming"), "Active")
RecycleWalk(s)   == ResumeWalk(Transition(s, "Recycling"))
RecycleFailWalk(s) == Transition(Transition(s, "Recycling"), "Failed")
TerminateWalk(s) == Transition(Transition(s, "Terminating"), "Terminated")

(* One round of force_requeue: the first legal move of Queued, Failed,     *)
(* Active; a state with none of the three stays.                           *)
RequeueRound(s) ==
  IF s = "Queued" \/ CanTransitionTo(s, "Queued") THEN "Queued"
  ELSE IF CanTransitionTo(s, "Failed") THEN "Failed"
  ELSE Transition(s, "Active")

MaxRequeueRounds == 6

(* force_requeue: at most six rounds; the restart goes ahead only when the *)
(* task ends Queued.                                                       *)
ForceRequeue(s) ==
  LET after[n \in 0..MaxRequeueRounds] ==
        IF n = 0 THEN s ELSE RequeueRound(after[n - 1])
  IN  after[MaxRequeueRounds]

(* assess: the states at which a provider may be frozen.  The daemon fills *)
(* the snapshot from the state alone: tool_running is "state is            *)
(* ToolRunning", writing is always false.                                  *)
AtSafePoint(s) ==
  s \in {"Active", "Idle", "WaitingUser", "Blocked", "Created", "Queued",
         "Hibernated", "Failed", "Terminated"}

=============================================================================
