------------------------- MODULE MemMuxDaemonProofs -------------------------
(***************************************************************************)
(* Proofs about MemMuxDaemon, for every number of tasks, every budget and  *)
(* every mix of requests.                                                  *)
(***************************************************************************)
EXTENDS MemMuxDaemon, AdmissionProofs, SequenceTheorems

-----------------------------------------------------------------------------
(* The lifecycle walks.                                                    *)

(* Where the walks of the handlers end, from the states the invariant      *)
(* shows they start in; teardown reaches Terminated from every state.      *)
LEMMA Walks ==
  /\ Transition("Created", "Queued") = "Queued"
  /\ LaunchWalk("Queued") = "Active"
  /\ LaunchFailWalk("Queued") = "Failed"
  /\ HibernateWalk("Active") = "Hibernated"
  /\ ResumeWalk("Hibernated") = "Active"
  /\ RecycleWalk("Active") = "Active"
  /\ RecycleFailWalk("Active") = "Failed"
  /\ \A s \in TaskState : TerminateWalk(s) = "Terminated"
  /\ "Terminated" \in TaskState /\ "Active" \in TaskState /\ "Failed" \in TaskState
  /\ "Hibernated" \in TaskState /\ "Queued" \in TaskState
  /\ Absent \notin TaskState
<1>1. AllowedNext["Created"] = {"Queued", "Terminating"}
  BY DEF AllowedNext, TaskState
<1>2. AllowedNext["Queued"] = {"Admitting", "Blocked", "Terminating"}
  BY DEF AllowedNext, TaskState
<1>3. AllowedNext["Admitting"] = {"Starting", "Queued", "Failed", "Terminating"}
  BY DEF AllowedNext, TaskState
<1>4. AllowedNext["Starting"] = {"Active", "Failed", "Terminating"}
  BY DEF AllowedNext, TaskState
<1>5. {"Checkpointing", "Recycling"} \subseteq AllowedNext["Active"]
  BY DEF AllowedNext, TaskState
<1>6. {"Hibernated"} \subseteq AllowedNext["Checkpointing"]
  BY DEF AllowedNext, TaskState
<1>7. {"Resuming"} \subseteq AllowedNext["Hibernated"]
  BY DEF AllowedNext, TaskState
<1>8. {"Resuming", "Failed"} \subseteq AllowedNext["Recycling"]
  BY DEF AllowedNext, TaskState
<1>9. {"Active"} \subseteq AllowedNext["Resuming"]
  BY DEF AllowedNext, TaskState
<1>10. /\ AllowedNext["Terminating"] = {"Terminated"}
       /\ AllowedNext["Terminated"] = {}
  BY DEF AllowedNext, TaskState
<1>11. \A s \in TaskState \ {"Terminating", "Terminated"} : "Terminating" \in AllowedNext[s]
  BY DEF AllowedNext, TaskState
<1>12. \A s \in TaskState : TerminateWalk(s) = "Terminated"
  BY <1>10, <1>11 DEF TerminateWalk, Transition, CanTransitionTo
<1>13. LaunchWalk("Queued") = "Active" /\ LaunchFailWalk("Queued") = "Failed"
  BY <1>2, <1>3, <1>4 DEF LaunchWalk, LaunchFailWalk, Transition, CanTransitionTo
<1>14. HibernateWalk("Active") = "Hibernated" /\ ResumeWalk("Hibernated") = "Active"
  BY <1>5, <1>6, <1>7, <1>9 DEF HibernateWalk, ResumeWalk, Transition, CanTransitionTo
<1>15. RecycleWalk("Active") = "Active" /\ RecycleFailWalk("Active") = "Failed"
  BY <1>5, <1>8, <1>9
  DEF RecycleWalk, RecycleFailWalk, ResumeWalk, Transition, CanTransitionTo
<1> QED
  BY <1>1, <1>12, <1>13, <1>14, <1>15 DEF Transition, CanTransitionTo, TaskState, Absent

-----------------------------------------------------------------------------
(* The inductive invariant.                                                *)

(* What the next boot would recover is what the daemon believes now.       *)
StoreAgrees == phase # "down" => stored = task

(* A crash leaves nothing in memory.                                       *)
DownIsEmpty ==
  phase = "down" =>
    /\ runtimes = {} /\ reservations = {} /\ pending = {} /\ reasons = {}
    /\ worktrees = {} /\ inTree = {}

(* An id that has not been handed out is in no table.                      *)
UnissuedIsAbsent ==
  \A t \in Tasks : t > issued =>
    stored[t] = Absent /\ task[t] = Absent /\ t \notin reservations /\ t \notin pending

(* The mutex holder's admitted tasks are still queued when their launch    *)
(* comes, and everything else in the queue has been explained.             *)
AdmittedIsQueued ==
  phase = "launch" =>
    /\ \A t \in todo : task[t] = "Queued" /\ t \notin runtimes
    /\ \A t \in pending : task[t] = "Queued" => t \in reasons \cup todo

IInv ==
  /\ TypeOK
  /\ StoreAgrees
  /\ DownIsEmpty
  /\ UnissuedIsAbsent
  /\ AdmittedIsQueued
  /\ LiveIsReserved
  /\ LeaksOnlyByFailedRecycle
  /\ HibernatedIsRestorable
  /\ CheckpointSeesTheWork
  /\ DeferralIsExplained

-----------------------------------------------------------------------------
(* Type correctness.                                                       *)

(* The operators of the ladder stay inside their types.                    *)
LEMMA LadderTypes ==
  /\ \A u, b \in Nat, g \in BOOLEAN : Classify(u, b, g) \in Stages
  /\ \A s \in Stages : Actions(s) \in Seq(PressureActions)
<1>1. \A s \in Stages : Escalated(s) \in Stages
  BY DEF Stages, Escalated
<1>2. ASSUME NEW u \in Nat, NEW b \in Nat, NEW g \in BOOLEAN
      PROVE  Classify(u, b, g) \in Stages
  <2> DEFINE base == IF Below(u, b, 70) THEN "Normal"
                     ELSE IF Below(u, b, 82) THEN "Elevated"
                     ELSE IF Below(u, b, 90) THEN "High"
                     ELSE "Critical"
  <2>1. base \in Stages
    BY DEF Stages
  <2>2. Escalated(base) \in Stages
    BY <1>1, <2>1
  <2>3. Classify(u, b, g) = IF u > b THEN "Emergency" ELSE IF g THEN Escalated(base) ELSE base
    BY DEF Classify
  <2> QED
    BY <2>1, <2>2, <2>3 DEF Stages
<1>3. Actions("Normal") \in Seq(PressureActions)
  BY DEF Actions, PressureActions
<1>4. Actions("Elevated") \in Seq(PressureActions)
  BY DEF Actions, PressureActions
<1>5. Actions("High") \in Seq(PressureActions)
  BY DEF Actions, PressureActions
<1>6. Actions("Critical") \in Seq(PressureActions)
  BY DEF Actions, PressureActions
<1>7. Actions("Emergency") \in Seq(PressureActions)
  BY DEF Actions, PressureActions
<1> QED
  BY <1>2, <1>3, <1>4, <1>5, <1>6, <1>7 DEF Stages

(* The types hold in the first state.                                      *)
LEMMA InitType == Init => TypeOK
  BY NumTasksAssumption, RequestsAssumption, BoundsAssumption
  DEF Init, TypeOK, TaskState, Absent, Checkpoints, Stages, Phases, Tasks

(* The lifecycle never leaves its states, wherever a walk starts.          *)
LEMMA WalkTypes ==
  \A s \in TaskState \cup {Absent} :
    /\ LaunchWalk(s) \in TaskState \cup {Absent}
    /\ LaunchFailWalk(s) \in TaskState \cup {Absent}
    /\ HibernateWalk(s) \in TaskState \cup {Absent}
    /\ ResumeWalk(s) \in TaskState \cup {Absent}
    /\ RecycleWalk(s) \in TaskState \cup {Absent}
    /\ RecycleFailWalk(s) \in TaskState \cup {Absent}
    /\ TerminateWalk(s) \in TaskState \cup {Absent}
<1>1. ASSUME NEW s \in TaskState \cup {Absent}, NEW to \in TaskState
      PROVE  Transition(s, to) \in TaskState \cup {Absent}
  BY DEF Transition
<1>2. {"Admitting", "Starting", "Active", "Failed", "Checkpointing", "Hibernated",
       "Resuming", "Recycling", "Terminating", "Terminated"} \subseteq TaskState
  BY DEF TaskState
<1> QED
  BY <1>1, <1>2 DEF LaunchWalk, LaunchFailWalk, HibernateWalk, ResumeWalk, RecycleWalk,
     RecycleFailWalk, TerminateWalk

(* The part of TypeOK the handlers that drive a task write.                *)
TablesOK ==
  /\ stored \in [Tasks -> TaskState \cup {Absent}]
  /\ checkpoint \in [Tasks -> Checkpoints]
  /\ tree \in [Tasks -> {"none", "clean", "dirty"}]
  /\ task \in [Tasks -> TaskState \cup {Absent}]
  /\ runtimes \in SUBSET Tasks
  /\ reservations \in SUBSET Tasks
  /\ pending \in SUBSET Tasks
  /\ reasons \in SUBSET Tasks
  /\ worktrees \in SUBSET Tasks
  /\ alive \in SUBSET Tasks
  /\ inTree \in SUBSET Tasks

(* Each shared piece keeps the types of what it writes.                    *)
LEMMA PieceTypes ==
  ASSUME TablesOK, NEW t \in Tasks
  PROVE  /\ \A s \in TaskState \cup {Absent} : SetState(t, s) =>
              /\ task' \in [Tasks -> TaskState \cup {Absent}]
              /\ stored' \in [Tasks -> TaskState \cup {Absent}]
         /\ ReleaseReservation(t) =>
              reservations' \subseteq Tasks /\ pending' \subseteq Tasks /\ reasons' \subseteq Tasks
         /\ StopProvider(t) =>
              runtimes' \subseteq Tasks /\ alive' \subseteq Tasks /\ inTree' \subseteq Tasks
         /\ \A inside \in BOOLEAN : InstallRuntime(t, inside) =>
              runtimes' \subseteq Tasks /\ alive' \subseteq Tasks /\ inTree' \subseteq Tasks
         /\ \A inside \in BOOLEAN : EnsureWorktree(t, inside) =>
              worktrees' \subseteq Tasks /\ tree' \in [Tasks -> {"none", "clean", "dirty"}]
         /\ CleanupWorktree(t) =>
              worktrees' \subseteq Tasks /\ tree' \in [Tasks -> {"none", "clean", "dirty"}]
         /\ PersistCheckpoint(t) \/ PersistCheckpointFails(t) \/ AgeCheckpoint(t) =>
              checkpoint' \in [Tasks -> Checkpoints]
<1>1. \A s \in TaskState \cup {Absent} : SetState(t, s) =>
        /\ task' \in [Tasks -> TaskState \cup {Absent}]
        /\ stored' \in [Tasks -> TaskState \cup {Absent}]
  BY DEF TablesOK, SetState
<1>2. ReleaseReservation(t) =>
        reservations' \subseteq Tasks /\ pending' \subseteq Tasks /\ reasons' \subseteq Tasks
  BY DEF TablesOK, ReleaseReservation
<1>3. StopProvider(t) =>
        runtimes' \subseteq Tasks /\ alive' \subseteq Tasks /\ inTree' \subseteq Tasks
  BY DEF TablesOK, StopProvider
<1>4. \A inside \in BOOLEAN : InstallRuntime(t, inside) =>
        runtimes' \subseteq Tasks /\ alive' \subseteq Tasks /\ inTree' \subseteq Tasks
  BY DEF TablesOK, InstallRuntime
<1>5. \A inside \in BOOLEAN : EnsureWorktree(t, inside) =>
        worktrees' \subseteq Tasks /\ tree' \in [Tasks -> {"none", "clean", "dirty"}]
  BY DEF TablesOK, EnsureWorktree
<1>6. CleanupWorktree(t) =>
        worktrees' \subseteq Tasks /\ tree' \in [Tasks -> {"none", "clean", "dirty"}]
  BY DEF TablesOK, CleanupWorktree
<1>7. PersistCheckpoint(t) => checkpoint' \in [Tasks -> Checkpoints]
  BY DEF TablesOK, PersistCheckpoint, Checkpoints
<1>8. PersistCheckpointFails(t) => checkpoint' \in [Tasks -> Checkpoints]
  BY DEF TablesOK, PersistCheckpointFails, Checkpoints
<1>9. AgeCheckpoint(t) => checkpoint' \in [Tasks -> Checkpoints]
  BY DEF TablesOK, AgeCheckpoint, Checkpoints
<1> QED
  BY <1>1, <1>2, <1>3, <1>4, <1>5, <1>6, <1>7, <1>8, <1>9

(* ... and so do the handlers made of them.                                *)
LEMMA HandlerTypes ==
  ASSUME TablesOK, NEW t \in Tasks
  PROVE  /\ Terminate(t) => TablesOK'
         /\ Hibernate(t) /\ UNCHANGED <<tree, worktrees>> => TablesOK'
         /\ Recycle(t) /\ UNCHANGED <<tree, worktrees>> => TablesOK'
         /\ LaunchQueued(t, task[t]) /\ pending' \subseteq Tasks /\ reasons' \subseteq Tasks
              => TablesOK'
         /\ LaunchQueued(t, "Queued") /\ pending' \subseteq Tasks /\ reasons' \subseteq Tasks
              => TablesOK'
<1>0. task[t] \in TaskState \cup {Absent} /\ "Queued" \in TaskState
  BY DEF TablesOK, TaskState
<1>1. Terminate(t) => TablesOK'
  BY <1>0, PieceTypes, WalkTypes DEF TablesOK, Terminate
<1>2. Hibernate(t) /\ UNCHANGED <<tree, worktrees>> => TablesOK'
  <2> SUFFICES ASSUME Hibernate(t), UNCHANGED <<tree, worktrees>> PROVE TablesOK'
    OBVIOUS
  <2>1. CASE /\ PersistCheckpoint(t) /\ StopProvider(t) /\ ReleaseReservation(t)
             /\ SetState(t, HibernateWalk(task[t]))
    BY <1>0, <2>1, PieceTypes, WalkTypes DEF TablesOK
  <2>2. CASE PersistCheckpointFails(t) /\ UNCHANGED <<stored, registry, alive, inTree>>
    BY <2>2, PieceTypes DEF TablesOK, registry
  <2> QED
    BY <2>1, <2>2 DEF Hibernate
<1>3. Recycle(t) /\ UNCHANGED <<tree, worktrees>> => TablesOK'
  <2> SUFFICES ASSUME Recycle(t), UNCHANGED <<tree, worktrees>> PROVE TablesOK'
    OBVIOUS
  <2>0. UNCHANGED <<reservations, pending, reasons>>
    BY DEF Recycle
  <2>1. CASE PersistCheckpointFails(t) /\ UNCHANGED <<stored, task, runtimes, alive, inTree>>
    BY <2>0, <2>1, PieceTypes DEF TablesOK
  <2>2. CASE /\ InstallRuntime(t, t \in worktrees)
             /\ SetState(t, RecycleWalk(task[t]))
             /\ checkpoint' = [checkpoint EXCEPT ![t] = "none"]
    <3>1. checkpoint' \in [Tasks -> Checkpoints]
      BY <2>2 DEF TablesOK, Checkpoints
    <3>2. runtimes' \subseteq Tasks /\ alive' \subseteq Tasks /\ inTree' \subseteq Tasks
      BY <2>2 DEF TablesOK, InstallRuntime
    <3>3. /\ task' \in [Tasks -> TaskState \cup {Absent}]
          /\ stored' \in [Tasks -> TaskState \cup {Absent}]
      BY <1>0, <2>2, PieceTypes, WalkTypes
    <3> QED
      BY <2>0, <3>1, <3>2, <3>3 DEF TablesOK
  <2>3. CASE /\ StopProvider(t)
             /\ SetState(t, RecycleFailWalk(task[t]))
             /\ PersistCheckpoint(t)
    BY <1>0, <2>0, <2>3, PieceTypes, WalkTypes DEF TablesOK
  <2> QED
    BY <2>1, <2>2, <2>3 DEF Recycle
<1>4. ASSUME NEW s \in TaskState \cup {Absent}, LaunchQueued(t, s),
             pending' \subseteq Tasks, reasons' \subseteq Tasks
      PROVE  TablesOK'
  <2>1. PICK inside \in BOOLEAN :
          /\ EnsureWorktree(t, inside)
          /\ \/ /\ SetState(t, LaunchWalk(s))
                /\ InstallRuntime(t, inside)
                /\ AgeCheckpoint(t)
                /\ reservations' = reservations \cup {t}
             \/ /\ SetState(t, LaunchFailWalk(s))
                /\ UNCHANGED <<runtimes, alive, inTree, checkpoint, reservations>>
    BY <1>4 DEF LaunchQueued
  <2>2. CASE /\ SetState(t, LaunchWalk(s))
             /\ InstallRuntime(t, inside)
             /\ AgeCheckpoint(t)
             /\ reservations' = reservations \cup {t}
    BY <1>4, <2>1, <2>2, PieceTypes, WalkTypes DEF TablesOK
  <2>3. CASE /\ SetState(t, LaunchFailWalk(s))
             /\ UNCHANGED <<runtimes, alive, inTree, checkpoint, reservations>>
    BY <1>4, <2>1, <2>3, PieceTypes, WalkTypes DEF TablesOK
  <2> QED
    BY <2>1, <2>2, <2>3
<1> QED
  BY <1>0, <1>1, <1>2, <1>3, <1>4

(* No step leaves the types.                                               *)
LEMMA TypeStep == TypeOK /\ [Next]_vars => TypeOK'
<1> SUFFICES ASSUME TypeOK, [Next]_vars PROVE TypeOK'
  OBVIOUS
<1> DEFINE OthersOK ==
      /\ samples \in SUBSET Tasks /\ used \in Nat /\ stage \in Stages
      /\ phase \in Phases /\ todo \in SUBSET Tasks /\ ladder \in Seq(PressureActions)
      /\ preserved \in SUBSET Tasks /\ request \in [Tasks -> Requests]
      /\ issued \in 0..NumTasks /\ crashes \in 0..MaxCrashes
<1>0. TablesOK /\ OthersOK /\ (TablesOK' /\ OthersOK' => TypeOK')
  BY DEF TypeOK, TablesOK
<1> USE <1>0 DEF disk, registry, measured, holder, environment
<1>1. CASE CreateTask
  <2>0. issued + 1 \in Tasks /\ issued' \in 0..NumTasks
    BY <1>1, NumTasksAssumption DEF CreateTask, Tasks
  <2>1. TablesOK'
    <3>1. SetState(issued + 1, "Queued")
      BY <1>1, Walks DEF CreateTask
    <3>2. /\ task' \in [Tasks -> TaskState \cup {Absent}]
          /\ stored' \in [Tasks -> TaskState \cup {Absent}]
      BY <2>0, <3>1, PieceTypes, Walks
    <3> QED
      BY <1>1, <3>2 DEF TablesOK, CreateTask
  <2>2. OthersOK'
    BY <1>1, <2>0 DEF CreateTask
  <2> QED
    BY <2>1, <2>2
<1>2. ASSUME NEW t \in Tasks, StartTask(t) PROVE TypeOK'
  <2>1. TablesOK'
    BY <1>2 DEF TablesOK, StartTask
  <2>2. OthersOK'
    BY <1>2, BoundsAssumption DEF TablesOK, Phases, Tasks, StartTask
  <2> QED
    BY <2>1, <2>2
<1>3. ASSUME NEW t \in Tasks, RestartTask(t) PROVE TypeOK'
  <2>1. TablesOK'
    BY <1>3, HandlerTypes DEF TablesOK, RestartTask
  <2>2. OthersOK'
    BY <1>3, BoundsAssumption DEF TablesOK, Phases, Tasks, RestartTask
  <2> QED
    BY <2>1, <2>2
<1>4. ASSUME NEW t \in Tasks, ForgetTask(t) PROVE TypeOK'
  <2>1. TablesOK'
    BY <1>4, PieceTypes DEF TablesOK, ForgetTask, Checkpoints
  <2>2. OthersOK'
    BY <1>4, BoundsAssumption DEF TablesOK, Phases, Tasks, ForgetTask, Checkpoints
  <2> QED
    BY <2>1, <2>2
<1>5. ASSUME NEW t \in Tasks, TerminateTask(t) PROVE TypeOK'
  <2>1. TablesOK'
    BY <1>5, HandlerTypes DEF TablesOK, TerminateTask
  <2>2. OthersOK'
    BY <1>5 DEF TablesOK, TerminateTask, Terminate
  <2> QED
    BY <2>1, <2>2
<1>6. ASSUME NEW t \in Tasks, HibernateTask(t) PROVE TypeOK'
  <2>1. TablesOK'
    BY <1>6, HandlerTypes DEF TablesOK, HibernateTask
  <2>2. OthersOK'
    BY <1>6, BoundsAssumption DEF TablesOK, Phases, Tasks, HibernateTask
  <2> QED
    BY <2>1, <2>2
<1>7. ASSUME NEW t \in Tasks, ResumeTask(t) PROVE TypeOK'
  <2>1. TablesOK'
    <3>1. task[t] \in TaskState \cup {Absent}
      BY DEF TablesOK
    <3>2. /\ task' \in [Tasks -> TaskState \cup {Absent}]
          /\ stored' \in [Tasks -> TaskState \cup {Absent}]
      BY <1>7, <3>1, PieceTypes, WalkTypes DEF ResumeTask
    <3>3. checkpoint' \in [Tasks -> Checkpoints]
      BY <1>7 DEF TablesOK, ResumeTask, Checkpoints
    <3>4. runtimes' \subseteq Tasks /\ alive' \subseteq Tasks /\ inTree' \subseteq Tasks
      BY <1>7 DEF TablesOK, ResumeTask, InstallRuntime
    <3> QED
      BY <1>7, <3>2, <3>3, <3>4 DEF TablesOK, ResumeTask
  <2>2. OthersOK'
    BY <1>7, BoundsAssumption DEF TablesOK, Phases, Tasks, ResumeTask, Checkpoints
  <2> QED
    BY <2>1, <2>2
<1>8. ASSUME NEW t \in Tasks, RecycleTask(t) PROVE TypeOK'
  <2>1. TablesOK'
    BY <1>8, HandlerTypes DEF TablesOK, RecycleTask
  <2>2. OthersOK'
    BY <1>8, BoundsAssumption DEF TablesOK, Phases, Tasks, RecycleTask
  <2> QED
    BY <2>1, <2>2
<1>9. CASE PumpBegin
  <2>1. TablesOK'
    BY <1>9 DEF TablesOK, PumpBegin
  <2>2. OthersOK'
    BY <1>9, BoundsAssumption DEF TablesOK, Phases, Tasks, PumpBegin
  <2> QED
    BY <2>1, <2>2
<1>10. ASSUME NEW t \in Tasks, RetireExited(t) PROVE TypeOK'
  <2>1. TablesOK'
    BY <1>10, HandlerTypes DEF TablesOK, RetireExited
  <2>2. OthersOK'
    BY <1>10 DEF TablesOK, RetireExited, Terminate
  <2> QED
    BY <2>1, <2>2
<1>11. CASE SampleTick
  <2>1. TablesOK'
    BY <1>11, BudgetAssumption DEF TablesOK, SampleTick
  <2>2. samples' \in SUBSET Tasks /\ used' \in Nat
    <3>1. CASE UNCHANGED <<samples, used>>
      BY <3>1
    <3>2. CASE samples' = runtimes /\ runtimes = {} /\ used' = 0
      BY <3>2 DEF TablesOK
    <3>3. CASE samples' = runtimes /\ used' \in UsedLevels
      BY <3>3, BudgetAssumption DEF TablesOK
    <3> QED
      BY <1>11, <3>1, <3>2, <3>3 DEF SampleTick
  <2>3. phase' \in Phases
    BY <1>11 DEF Phases, SampleTick
  <2>4. OthersOK'
    BY <1>11, <2>2, <2>3 DEF SampleTick
  <2> QED
    BY <2>1, <2>4
<1>12. CASE PressureTick
  <2>1. TablesOK'
    BY <1>12, BudgetAssumption, LadderTypes DEF TablesOK, PressureTick
  <2>2. stage' \in Stages
    BY <1>12, BudgetAssumption, LadderTypes DEF PressureTick
  <2>3. ladder' \in Seq(PressureActions)
    <3>1. \/ UNCHANGED ladder
          \/ ladder' = <<>>
          \/ ladder' = Actions(stage')
      BY <1>12 DEF PressureTick
    <3>2. Actions(stage') \in Seq(PressureActions)
      BY <2>2, LadderTypes
    <3>3. <<>> \in Seq(PressureActions)
      OBVIOUS
    <3>4. ladder \in Seq(PressureActions)
      BY <1>0
    <3> QED
      BY <3>1, <3>2, <3>3, <3>4, Zenon
  <2>4. phase' \in Phases
    BY <1>12 DEF Phases, PressureTick
  <2>5. OthersOK'
    BY <1>12, <2>2, <2>3, <2>4 DEF PressureTick
  <2> QED
    BY <2>1, <2>5
<1>13. CASE HibernateLowPriority
  <2>1. TablesOK'
    BY <1>13, HandlerTypes DEF TablesOK, HibernateLowPriority, LadderAt, LadderNext,
      FirstVictim
  <2>2. OthersOK'
    BY <1>13, BoundsAssumption DEF TablesOK, Phases, Tasks, HibernateLowPriority, LadderAt,
      LadderNext, FirstVictim
  <2> QED
    BY <2>1, <2>2
<1>14. CASE RecycleBloated
  <2>1. TablesOK'
    BY <1>14, HandlerTypes DEF TablesOK, RecycleBloated, LadderAt, LadderNext
  <2>2. OthersOK'
    BY <1>14, BoundsAssumption DEF TablesOK, Phases, Tasks, RecycleBloated, LadderAt,
      LadderNext
  <2> QED
    BY <2>1, <2>2
<1>15. CASE PreserveGitState
  <2>1. TablesOK'
    BY <1>15, PieceTypes DEF TablesOK, PreserveGitState, LadderAt, LadderNext, FirstVictim
  <2>2. OthersOK'
    BY <1>15, BoundsAssumption DEF TablesOK, Phases, Tasks, PreserveGitState, LadderAt,
      LadderNext, FirstVictim
  <2> QED
    BY <2>1, <2>2
<1>16. CASE TerminateVictim
  <2>1. TablesOK'
    BY <1>16, HandlerTypes DEF TablesOK, TerminateVictim, LadderAt, LadderNext
  <2>2. OthersOK'
    BY <1>16 DEF TablesOK, TerminateVictim, LadderAt, LadderNext, Terminate
  <2> QED
    BY <2>1, <2>2
<1>17. CASE LadderAdvisory
  <2>1. TablesOK'
    BY <1>17 DEF TablesOK, LadderAdvisory, LadderNext
  <2>2. OthersOK'
    BY <1>17, BoundsAssumption DEF TablesOK, Phases, Tasks, LadderAdvisory, LadderNext
  <2> QED
    BY <2>1, <2>2
<1>18. CASE LadderDone
  <2>1. TablesOK'
    BY <1>18 DEF TablesOK, LadderDone
  <2>2. OthersOK'
    BY <1>18, BoundsAssumption DEF TablesOK, Phases, Tasks, LadderDone
  <2> QED
    BY <2>1, <2>2
<1>19. CASE RecycleTriggers
  <2>1. TablesOK'
    BY <1>19 DEF TablesOK, RecycleTriggers
  <2>2. OthersOK'
    BY <1>19, BoundsAssumption DEF TablesOK, Phases, Tasks, RecycleTriggers
  <2> QED
    BY <2>1, <2>2
<1>20. ASSUME NEW t \in Tasks, RecycleTriggered(t) PROVE TypeOK'
  <2>1. TablesOK'
    BY <1>20, HandlerTypes DEF TablesOK, RecycleTriggered
  <2>2. OthersOK'
    BY <1>20, BoundsAssumption DEF TablesOK, Phases, Tasks, RecycleTriggered
  <2> QED
    BY <2>1, <2>2
<1>21. CASE RecycleDone
  <2>1. TablesOK'
    BY <1>21 DEF TablesOK, RecycleDone
  <2>2. OthersOK'
    BY <1>21, BoundsAssumption DEF TablesOK, Phases, Tasks, RecycleDone
  <2> QED
    BY <2>1, <2>2
<1>22. CASE AdmitPass
  <2>1. TablesOK'
    BY <1>22 DEF TablesOK, AdmitPass, StillWaiting, Held, Eligible
  <2>2. OthersOK'
    BY <1>22, BoundsAssumption DEF TablesOK, Phases, Tasks, AdmitPass, StillWaiting, Held,
      Eligible
  <2> QED
    BY <2>1, <2>2
<1>23. ASSUME NEW t \in Tasks, LaunchAdmitted(t) PROVE TypeOK'
  <2>1. TablesOK'
    BY <1>23, HandlerTypes DEF TablesOK, LaunchAdmitted
  <2>2. OthersOK'
    BY <1>23, BoundsAssumption DEF TablesOK, Phases, Tasks, LaunchAdmitted
  <2> QED
    BY <2>1, <2>2
<1>24. ASSUME NEW t \in Tasks, ProviderExits(t) PROVE TypeOK'
  <2>1. TablesOK'
    BY <1>24 DEF TablesOK, ProviderExits
  <2>2. OthersOK'
    BY <1>24, BoundsAssumption DEF TablesOK, Phases, Tasks, ProviderExits
  <2> QED
    BY <2>1, <2>2
<1>25. ASSUME NEW t \in Tasks, ProviderEdits(t) PROVE TypeOK'
  <2>1. TablesOK'
    BY <1>25 DEF TablesOK, ProviderEdits
  <2>2. OthersOK'
    BY <1>25, BoundsAssumption DEF TablesOK, Phases, Tasks, ProviderEdits
  <2> QED
    BY <2>1, <2>2
<1>26. CASE Crash
  <2>1. TablesOK'
    BY <1>26 DEF TablesOK, Crash, Stages
  <2>2. OthersOK'
    BY <1>26, BoundsAssumption DEF TablesOK, Phases, Tasks, Crash, Stages
  <2> QED
    BY <2>1, <2>2
<1>27. CASE Boot
  <2>1. TablesOK'
    BY <1>27 DEF TablesOK, Boot
  <2>2. OthersOK'
    BY <1>27, BoundsAssumption DEF TablesOK, Phases, Tasks, Boot
  <2> QED
    BY <2>1, <2>2
<1>28. CASE UNCHANGED vars
  BY <1>28 DEF vars, TypeOK
<1> QED
  BY <1>1, <1>2, <1>3, <1>4, <1>5, <1>6, <1>7, <1>8, <1>9, <1>10, <1>11, <1>12, <1>13,
     <1>14, <1>15, <1>16, <1>17, <1>18, <1>19, <1>20, <1>21, <1>22, <1>23, <1>24, <1>25,
     <1>26, <1>27, <1>28 DEF Next, RequestStep, HolderStep, LadderStep, ProviderStep

-----------------------------------------------------------------------------
(* The inductive step, one lemma per handler or kind of step.              *)

(* The invariant holds in the first state, where every table is empty.     *)
LEMMA InitIInv == Init => IInv
<1> SUFFICES ASSUME Init PROVE IInv
  OBVIOUS
<1>1. TypeOK
  BY InitType
<1>2. \A t \in Tasks : stored[t] = Absent /\ task[t] = Absent
  BY DEF Init
<1> QED
  BY <1>1, <1>2
  DEF IInv, Init, StoreAgrees, DownIsEmpty, UnissuedIsAbsent, AdmittedIsQueued, LiveIsReserved,
      LeaksOnlyByFailedRecycle, HibernatedIsRestorable, CheckpointSeesTheWork,
      DeferralIsExplained, Absent

(* terminate, whoever calls it.                                            *)
LEMMA TerminateStep ==
  ASSUME IInv, TypeOK', NEW t \in Tasks, Terminate(t),
         phase \in {"free", "retire", "ladder"}, phase' = phase, issued' = issued
  PROVE  IInv'
<1>1. /\ task' = [task EXCEPT ![t] = "Terminated"]
      /\ stored' = [stored EXCEPT ![t] = "Terminated"]
  <2>1. task[t] \in TaskState
    BY DEF IInv, TypeOK, Terminate
  <2> QED
    BY <2>1, Walks DEF Terminate, SetState
<1> USE <1>1 DEF IInv, TypeOK, Terminate, Tasks
<1>2. StoreAgrees' /\ DownIsEmpty' /\ AdmittedIsQueued'
  BY DEF StoreAgrees, DownIsEmpty, AdmittedIsQueued
<1>3. UnissuedIsAbsent'
  BY DEF UnissuedIsAbsent, ReleaseReservation
<1>4. LiveIsReserved' /\ LeaksOnlyByFailedRecycle'
  BY DEF LiveIsReserved, LeaksOnlyByFailedRecycle, StopProvider, ReleaseReservation
<1>5. HibernatedIsRestorable'
  BY DEF HibernatedIsRestorable, StopProvider, ReleaseReservation
<1>6. CheckpointSeesTheWork'
  BY DEF CheckpointSeesTheWork, StopProvider, CleanupWorktree
<1>7. DeferralIsExplained'
  BY DEF DeferralIsExplained, ReleaseReservation, Unlocked
<1> QED
  BY <1>2, <1>3, <1>4, <1>5, <1>6, <1>7

(* hibernate, called by the request and by the Critical stage.             *)
LEMMA HibernateStep ==
  ASSUME IInv, TypeOK', NEW t \in Tasks, Hibernate(t), UNCHANGED <<tree, worktrees>>,
         phase \in {"free", "ladder"}, phase' = phase, issued' = issued
  PROVE  IInv'
<1> USE DEF IInv, TypeOK, Tasks
<1>1. t \in runtimes /\ task[t] = "Active" /\ stored[t] = "Active" /\ ~(t > issued)
  BY DEF Hibernate, LiveIsReserved, StoreAgrees, UnissuedIsAbsent, Absent
<1>2. CASE /\ PersistCheckpoint(t) /\ StopProvider(t) /\ ReleaseReservation(t)
           /\ SetState(t, HibernateWalk(task[t]))
  <2>1. /\ task' = [task EXCEPT ![t] = "Hibernated"]
        /\ stored' = [stored EXCEPT ![t] = "Hibernated"]
        /\ checkpoint' = [checkpoint EXCEPT ![t] = "fresh"]
    BY <1>1, <1>2, Walks DEF SetState, PersistCheckpoint
  <2>2. StoreAgrees' /\ DownIsEmpty' /\ AdmittedIsQueued'
    BY <2>1 DEF StoreAgrees, DownIsEmpty, AdmittedIsQueued
  <2>3. UnissuedIsAbsent'
    BY <1>1, <1>2, <2>1 DEF UnissuedIsAbsent, ReleaseReservation
  <2>4. LiveIsReserved' /\ LeaksOnlyByFailedRecycle'
    BY <1>2, <2>1 DEF LiveIsReserved, LeaksOnlyByFailedRecycle, StopProvider, ReleaseReservation
  <2>5. HibernatedIsRestorable'
    BY <1>2, <2>1 DEF HibernatedIsRestorable, StopProvider, ReleaseReservation
  <2>6. CheckpointSeesTheWork'
    BY <1>2 DEF CheckpointSeesTheWork, StopProvider
  <2>7. DeferralIsExplained'
    BY <1>2, <2>1 DEF DeferralIsExplained, ReleaseReservation, Unlocked
  <2> QED
    BY <2>2, <2>3, <2>4, <2>5, <2>6, <2>7
<1>3. CASE PersistCheckpointFails(t) /\ UNCHANGED <<stored, registry, alive, inTree>>
  <2>1. HibernatedIsRestorable'
    BY <1>1, <1>3 DEF HibernatedIsRestorable, PersistCheckpointFails, registry
  <2> QED
    BY <1>3, <2>1
    DEF StoreAgrees, DownIsEmpty, UnissuedIsAbsent, AdmittedIsQueued, LiveIsReserved,
        LeaksOnlyByFailedRecycle, CheckpointSeesTheWork, DeferralIsExplained, Unlocked, registry
<1> QED
  BY <1>2, <1>3 DEF Hibernate

(* recycle, called by the request, the Critical stage and the triggers.    *)
LEMMA RecycleStep ==
  ASSUME IInv, TypeOK', NEW t \in Tasks, Recycle(t), UNCHANGED <<tree, worktrees>>,
         phase \in {"free", "ladder", "recycle"}, phase' = phase, issued' = issued
  PROVE  IInv'
<1> USE DEF IInv, TypeOK, Tasks
<1>1. /\ t \in runtimes /\ t \in reservations /\ ~(t > issued)
      /\ task[t] = "Active" /\ stored[t] = "Active"
  BY DEF Recycle, LiveIsReserved, StoreAgrees, UnissuedIsAbsent, Absent
<1>2. UNCHANGED <<reservations, pending, reasons>>
  BY DEF Recycle
<1>3. ASSUME NEW s \in {"Active", "Failed"},
             task' = [task EXCEPT ![t] = s], stored' = [stored EXCEPT ![t] = s]
      PROVE  StoreAgrees' /\ DownIsEmpty' /\ AdmittedIsQueued' /\ UnissuedIsAbsent'
  BY <1>1, <1>2, <1>3 DEF StoreAgrees, DownIsEmpty, AdmittedIsQueued, UnissuedIsAbsent
<1>4. CASE PersistCheckpointFails(t) /\ UNCHANGED <<stored, task, runtimes, alive, inTree>>
  <2>1. HibernatedIsRestorable'
    BY <1>1, <1>2, <1>4 DEF HibernatedIsRestorable, PersistCheckpointFails
  <2> QED
    BY <1>2, <1>4, <2>1
    DEF StoreAgrees, DownIsEmpty, UnissuedIsAbsent, AdmittedIsQueued, LiveIsReserved,
        LeaksOnlyByFailedRecycle, CheckpointSeesTheWork, DeferralIsExplained, Unlocked
<1>5. CASE /\ InstallRuntime(t, t \in worktrees)
           /\ SetState(t, RecycleWalk(task[t]))
           /\ checkpoint' = [checkpoint EXCEPT ![t] = "none"]
  <2>1. /\ task' = [task EXCEPT ![t] = "Active"]
        /\ stored' = [stored EXCEPT ![t] = "Active"]
    BY <1>1, <1>5, Walks DEF SetState
  <2>2. LiveIsReserved' /\ LeaksOnlyByFailedRecycle'
    BY <1>1, <1>2, <1>5, <2>1 DEF LiveIsReserved, LeaksOnlyByFailedRecycle, InstallRuntime
  <2>3. HibernatedIsRestorable'
    BY <1>1, <1>2, <1>5, <2>1 DEF HibernatedIsRestorable, InstallRuntime
  <2>4. CheckpointSeesTheWork'
    BY <1>1, <1>5 DEF CheckpointSeesTheWork, InstallRuntime
  <2>5. DeferralIsExplained'
    BY <1>2, <2>1 DEF DeferralIsExplained, Unlocked
  <2> QED
    BY <1>3, <2>1, <2>2, <2>3, <2>4, <2>5
<1>6. CASE /\ StopProvider(t)
           /\ SetState(t, RecycleFailWalk(task[t]))
           /\ PersistCheckpoint(t)
  <2>1. /\ task' = [task EXCEPT ![t] = "Failed"]
        /\ stored' = [stored EXCEPT ![t] = "Failed"]
    BY <1>1, <1>6, Walks DEF SetState
  <2>2. LiveIsReserved' /\ LeaksOnlyByFailedRecycle'
    BY <1>2, <1>6, <2>1 DEF LiveIsReserved, LeaksOnlyByFailedRecycle, StopProvider
  <2>3. HibernatedIsRestorable'
    BY <1>2, <1>6, <2>1 DEF HibernatedIsRestorable, StopProvider, PersistCheckpoint
  <2>4. CheckpointSeesTheWork'
    BY <1>6 DEF CheckpointSeesTheWork, StopProvider
  <2>5. DeferralIsExplained'
    BY <1>2, <2>1 DEF DeferralIsExplained, Unlocked
  <2> QED
    BY <1>3, <2>1, <2>2, <2>3, <2>4, <2>5
<1> QED
  BY <1>4, <1>5, <1>6 DEF Recycle

(* launch_queued, called by the restart and by the admission pass: all of  *)
(* the invariant that does not speak of the queue.                         *)
LEMMA LaunchStep ==
  ASSUME IInv, TypeOK', NEW t \in Tasks, t \notin runtimes, LaunchQueued(t, "Queued"),
         task[t] # Absent, pending' \subseteq pending,
         phase # "down", phase' # "down", issued' = issued
  PROVE  /\ StoreAgrees' /\ DownIsEmpty' /\ UnissuedIsAbsent' /\ LiveIsReserved'
         /\ LeaksOnlyByFailedRecycle' /\ HibernatedIsRestorable' /\ CheckpointSeesTheWork'
         /\ \E s \in {"Active", "Failed"} : task' = [task EXCEPT ![t] = s]
         /\ runtimes' \subseteq runtimes \cup {t}
<1> USE DEF IInv, TypeOK, Tasks
<1>0. ~(t > issued)
  BY DEF UnissuedIsAbsent
<1>1. PICK inside \in BOOLEAN :
        /\ EnsureWorktree(t, inside)
        /\ \/ /\ SetState(t, LaunchWalk("Queued"))
              /\ InstallRuntime(t, inside)
              /\ AgeCheckpoint(t)
              /\ reservations' = reservations \cup {t}
           \/ /\ SetState(t, LaunchFailWalk("Queued"))
              /\ UNCHANGED <<runtimes, alive, inTree, checkpoint, reservations>>
  BY DEF LaunchQueued
<1>2. ASSUME NEW s \in {"Active", "Failed"},
             task' = [task EXCEPT ![t] = s], stored' = [stored EXCEPT ![t] = s],
             reservations' \subseteq reservations \cup {t}
      PROVE  StoreAgrees' /\ DownIsEmpty' /\ UnissuedIsAbsent'
  BY <1>0, <1>2 DEF StoreAgrees, DownIsEmpty, UnissuedIsAbsent
<1>3. CASE /\ SetState(t, LaunchWalk("Queued"))
           /\ InstallRuntime(t, inside)
           /\ AgeCheckpoint(t)
           /\ reservations' = reservations \cup {t}
  <2>1. /\ task' = [task EXCEPT ![t] = "Active"]
        /\ stored' = [stored EXCEPT ![t] = "Active"]
    BY <1>3, Walks DEF SetState
  <2>2. LiveIsReserved' /\ LeaksOnlyByFailedRecycle' /\ runtimes' \subseteq runtimes \cup {t}
    BY <1>3, <2>1 DEF LiveIsReserved, LeaksOnlyByFailedRecycle, InstallRuntime
  <2>3. HibernatedIsRestorable'
    BY <1>3, <2>1 DEF HibernatedIsRestorable, InstallRuntime, AgeCheckpoint
  <2>4. CheckpointSeesTheWork'
    BY <1>1, <1>3 DEF CheckpointSeesTheWork, InstallRuntime, EnsureWorktree
  <2> QED
    BY <1>2, <1>3, <2>1, <2>2, <2>3, <2>4
<1>4. CASE /\ SetState(t, LaunchFailWalk("Queued"))
           /\ UNCHANGED <<runtimes, alive, inTree, checkpoint, reservations>>
  <2>1. /\ task' = [task EXCEPT ![t] = "Failed"]
        /\ stored' = [stored EXCEPT ![t] = "Failed"]
    BY <1>4, Walks DEF SetState
  <2>2. LiveIsReserved' /\ LeaksOnlyByFailedRecycle' /\ runtimes' \subseteq runtimes \cup {t}
    BY <1>4, <2>1 DEF LiveIsReserved, LeaksOnlyByFailedRecycle
  <2>3. HibernatedIsRestorable'
    BY <1>4, <2>1 DEF HibernatedIsRestorable
  <2>4. CheckpointSeesTheWork'
    BY <1>1, <1>4 DEF CheckpointSeesTheWork, EnsureWorktree
  <2> QED
    BY <1>2, <1>4, <2>1, <2>2, <2>3, <2>4
<1> QED
  BY <1>1, <1>3, <1>4

(* A restart launches outside the queue, whose reasons still hold.         *)
LEMMA RestartStep ==
  ASSUME IInv, TypeOK', NEW t \in Tasks, RestartTask(t)
  PROVE  IInv'
<1> USE DEF RestartTask, holder, environment, Unlocked
<1>1. /\ StoreAgrees' /\ DownIsEmpty' /\ UnissuedIsAbsent' /\ LiveIsReserved'
      /\ LeaksOnlyByFailedRecycle' /\ HibernatedIsRestorable' /\ CheckpointSeesTheWork'
      /\ \E s \in {"Active", "Failed"} : task' = [task EXCEPT ![t] = s]
  BY LaunchStep
<1>2. AdmittedIsQueued'
  BY DEF AdmittedIsQueued
<1>3. DeferralIsExplained'
  <2>1. reasons' \subseteq pending'
    BY DEF IInv, DeferralIsExplained
  <2>2. \A u \in pending : task'[u] = "Queued" => u # t /\ task[u] = "Queued"
    BY <1>1 DEF IInv, TypeOK
  <2> QED
    BY <2>1, <2>2 DEF IInv, DeferralIsExplained
<1> QED
  BY <1>1, <1>2, <1>3 DEF IInv

(* The launch of an admitted task, which leaves the queue with its reason. *)
LEMMA LaunchAdmittedStep ==
  ASSUME IInv, TypeOK', NEW t \in Tasks, LaunchAdmitted(t)
  PROVE  IInv'
<1> USE DEF LaunchAdmitted, environment, Unlocked
<1>0. task[t] = "Queued" /\ t \notin runtimes
  BY DEF IInv, AdmittedIsQueued
<1>1. /\ StoreAgrees' /\ DownIsEmpty' /\ UnissuedIsAbsent' /\ LiveIsReserved'
      /\ LeaksOnlyByFailedRecycle' /\ HibernatedIsRestorable' /\ CheckpointSeesTheWork'
      /\ \E s \in {"Active", "Failed"} : task' = [task EXCEPT ![t] = s]
      /\ runtimes' \subseteq runtimes \cup {t}
  BY <1>0, LaunchStep DEF Absent
<1>2. \A u \in Tasks \ {t} : task'[u] = task[u]
  BY <1>1 DEF IInv, TypeOK
<1>3. AdmittedIsQueued'
  BY <1>1, <1>2 DEF IInv, TypeOK, AdmittedIsQueued
<1>4. DeferralIsExplained'
  BY <1>2 DEF IInv, TypeOK, DeferralIsExplained, AdmittedIsQueued
<1> QED
  BY <1>1, <1>3, <1>4 DEF IInv

(* A resume turns a frozen task into a live, paid-for one.                 *)
LEMMA ResumeStep ==
  ASSUME IInv, TypeOK', NEW t \in Tasks, ResumeTask(t)
  PROVE  IInv'
<1> USE DEF IInv, TypeOK, Tasks, ResumeTask, holder, environment, Unlocked
<1>0. t \notin runtimes /\ ~(t > issued)
  BY DEF LiveIsReserved, UnissuedIsAbsent, Absent
<1>1. /\ task' = [task EXCEPT ![t] = "Active"]
      /\ stored' = [stored EXCEPT ![t] = "Active"]
  BY Walks DEF SetState
<1>2. StoreAgrees' /\ DownIsEmpty' /\ AdmittedIsQueued'
  BY <1>1 DEF StoreAgrees, DownIsEmpty, AdmittedIsQueued
<1>3. UnissuedIsAbsent'
  BY <1>0, <1>1 DEF UnissuedIsAbsent
<1>4. LiveIsReserved' /\ LeaksOnlyByFailedRecycle'
  BY <1>1 DEF LiveIsReserved, LeaksOnlyByFailedRecycle, InstallRuntime
<1>5. HibernatedIsRestorable'
  BY <1>1 DEF HibernatedIsRestorable, InstallRuntime
<1>6. CheckpointSeesTheWork'
  BY <1>0 DEF CheckpointSeesTheWork, InstallRuntime
<1>7. DeferralIsExplained'
  BY <1>1 DEF DeferralIsExplained
<1> QED
  BY <1>2, <1>3, <1>4, <1>5, <1>6, <1>7

(* Forgetting a task drops its row; a leaked reservation has no task then. *)
LEMMA ForgetStep ==
  ASSUME IInv, TypeOK', NEW t \in Tasks, ForgetTask(t)
  PROVE  IInv'
<1> USE DEF IInv, TypeOK, Tasks, ForgetTask, SetState, holder, environment, Unlocked
<1>1. StoreAgrees' /\ DownIsEmpty' /\ AdmittedIsQueued'
  BY DEF StoreAgrees, DownIsEmpty, AdmittedIsQueued
<1>2. UnissuedIsAbsent'
  BY DEF UnissuedIsAbsent
<1>3. LiveIsReserved' /\ LeaksOnlyByFailedRecycle'
  BY DEF LiveIsReserved, LeaksOnlyByFailedRecycle
<1>4. HibernatedIsRestorable'
  BY DEF HibernatedIsRestorable, Absent
<1>5. CheckpointSeesTheWork' /\ DeferralIsExplained'
  BY DEF CheckpointSeesTheWork, DeferralIsExplained, Absent
<1> QED
  BY <1>1, <1>2, <1>3, <1>4, <1>5

(* A new id collides with nothing the tables already hold.                 *)
LEMMA CreateStep ==
  ASSUME IInv, TypeOK', CreateTask
  PROVE  IInv'
<1> USE DEF IInv, TypeOK, Tasks, CreateTask, holder, Unlocked
<1>0. /\ issued + 1 \in Tasks
      /\ issued + 1 \notin runtimes \cup reservations \cup pending
  BY NumTasksAssumption DEF UnissuedIsAbsent, LiveIsReserved
<1>1. /\ task' = [task EXCEPT ![issued + 1] = "Queued"]
      /\ stored' = [stored EXCEPT ![issued + 1] = "Queued"]
  BY Walks DEF SetState
<1>2. StoreAgrees' /\ DownIsEmpty' /\ AdmittedIsQueued'
  BY <1>1 DEF StoreAgrees, DownIsEmpty, AdmittedIsQueued
<1>3. UnissuedIsAbsent'
  BY <1>1 DEF UnissuedIsAbsent
<1>4. LiveIsReserved' /\ LeaksOnlyByFailedRecycle'
  BY <1>0, <1>1 DEF LiveIsReserved, LeaksOnlyByFailedRecycle
<1>5. HibernatedIsRestorable'
  BY <1>1 DEF HibernatedIsRestorable
<1>6. CheckpointSeesTheWork' /\ DeferralIsExplained'
  BY <1>0, <1>1 DEF CheckpointSeesTheWork, DeferralIsExplained
<1> QED
  BY <1>2, <1>3, <1>4, <1>5, <1>6

(* A start request waits in the queue for the pass it begins.              *)
LEMMA StartStep ==
  ASSUME IInv, TypeOK', NEW t \in Tasks, StartTask(t)
  PROVE  IInv'
<1> USE DEF IInv, TypeOK, StartTask, disk, environment, Unlocked
<1>1. StoreAgrees' /\ DownIsEmpty' /\ AdmittedIsQueued'
  BY DEF StoreAgrees, DownIsEmpty, AdmittedIsQueued
<1>2. UnissuedIsAbsent'
  BY DEF UnissuedIsAbsent, Absent
<1>3. /\ LiveIsReserved' /\ LeaksOnlyByFailedRecycle' /\ HibernatedIsRestorable'
      /\ CheckpointSeesTheWork'
  BY DEF LiveIsReserved, LeaksOnlyByFailedRecycle, HibernatedIsRestorable, CheckpointSeesTheWork
<1>4. DeferralIsExplained'
  BY DEF DeferralIsExplained
<1> QED
  BY <1>1, <1>2, <1>3, <1>4

(* A step inside pump() that moves the holder on and leaves the tables.    *)
LEMMA QuietStep ==
  ASSUME IInv, TypeOK', phase # "down", phase' \notin {"free", "launch", "down"},
         UNCHANGED <<stored, tree, task, runtimes, reservations, pending, reasons,
                     worktrees, inTree, issued>>,
         HibernatedIsRestorable'
  PROVE  IInv'
  BY DEF IInv, StoreAgrees, DownIsEmpty, UnissuedIsAbsent, AdmittedIsQueued, LiveIsReserved,
     LeaksOnlyByFailedRecycle, CheckpointSeesTheWork, DeferralIsExplained, Unlocked

(* The checkpoint of the victim disturbs no hibernated task.               *)
LEMMA PreserveStep ==
  ASSUME IInv, TypeOK', PreserveGitState
  PROVE  IInv'
<1> USE DEF PreserveGitState, LadderAt, LadderNext, registry, environment
<1>1. HibernatedIsRestorable'
  <2>1. CASE UNCHANGED checkpoint
    BY <2>1 DEF IInv, HibernatedIsRestorable
  <2>2. ASSUME NEW t \in runtimes, PersistCheckpoint(t) \/ PersistCheckpointFails(t)
        PROVE  HibernatedIsRestorable'
    <3>1. stored[t] = "Active" /\ t \in Tasks
      BY DEF IInv, TypeOK, StoreAgrees, LiveIsReserved
    <3> QED
      BY <2>2, <3>1
      DEF IInv, TypeOK, HibernatedIsRestorable, PersistCheckpoint, PersistCheckpointFails
  <2> QED
    BY <2>1, <2>2 DEF FirstVictim
<1> QED
  BY <1>1, QuietStep

(* An admission pass admits or explains every task it finds in the queue.  *)
LEMMA AdmitStep ==
  ASSUME IInv, TypeOK', AdmitPass
  PROVE  IInv'
<1> USE DEF IInv, AdmitPass, disk, environment
<1>1. StoreAgrees' /\ DownIsEmpty'
  BY DEF StoreAgrees, DownIsEmpty
<1>2. UnissuedIsAbsent'
  BY DEF UnissuedIsAbsent, StillWaiting
<1>3. /\ LiveIsReserved' /\ LeaksOnlyByFailedRecycle' /\ HibernatedIsRestorable'
      /\ CheckpointSeesTheWork'
  BY DEF LiveIsReserved, LeaksOnlyByFailedRecycle, HibernatedIsRestorable, CheckpointSeesTheWork
<1>4. PICK admitted \in SUBSET Eligible :
        /\ todo' = admitted
        /\ phase' = IF admitted = {} THEN "free" ELSE "launch"
        /\ reasons' = (reasons \ (pending \ StillWaiting)) \cup Held \cup (Eligible \ admitted)
  OBVIOUS
<1>5. AdmittedIsQueued'
  BY <1>4 DEF AdmittedIsQueued, Eligible, StillWaiting, Held
<1>6. DeferralIsExplained'
  <2>1. reasons' \subseteq pending'
    BY <1>4 DEF DeferralIsExplained, Eligible, StillWaiting, Held
  <2>2. ASSUME Unlocked', NEW t \in pending' PROVE t \in reasons'
    BY <1>4, <2>2 DEF Unlocked, Eligible, StillWaiting, Held
  <2> QED
    BY <2>1, <2>2 DEF DeferralIsExplained
<1> QED
  BY <1>1, <1>2, <1>3, <1>5, <1>6

(* A crash empties the memory and leaves the disk.                         *)
LEMMA CrashStep ==
  ASSUME IInv, TypeOK', Crash
  PROVE  IInv'
  BY DEF IInv, TypeOK, Crash, disk, StoreAgrees, DownIsEmpty, UnissuedIsAbsent,
     AdmittedIsQueued, LiveIsReserved, LeaksOnlyByFailedRecycle, HibernatedIsRestorable,
     CheckpointSeesTheWork, DeferralIsExplained, Unlocked

(* A boot recovers what the rows say and starts with empty tables.         *)
LEMMA BootStep ==
  ASSUME IInv, TypeOK', Boot
  PROVE  IInv'
  BY DEF IInv, Boot, disk, environment, StoreAgrees, DownIsEmpty, UnissuedIsAbsent,
     AdmittedIsQueued, LiveIsReserved, LeaksOnlyByFailedRecycle, HibernatedIsRestorable,
     CheckpointSeesTheWork, DeferralIsExplained, Unlocked

(* Providers that exit or edit disturb no table of the daemon.             *)
LEMMA ProviderIInvStep ==
  ASSUME IInv, TypeOK', ProviderStep
  PROVE  IInv'
<1>1. /\ UNCHANGED <<stored, checkpoint, registry, worktrees, holder, inTree, environment>>
      /\ \A t \in Tasks : tree[t] # "none" => tree'[t] # "none"
  BY DEF IInv, TypeOK, ProviderStep, ProviderExits, ProviderEdits, disk
<1> QED
  BY <1>1
  DEF IInv, TypeOK, StoreAgrees, DownIsEmpty, UnissuedIsAbsent, AdmittedIsQueued,
      LiveIsReserved, LeaksOnlyByFailedRecycle, HibernatedIsRestorable,
      CheckpointSeesTheWork, DeferralIsExplained, Unlocked, registry, holder, environment

(* The ladder steps that drive a task.                                     *)
LEMMA LadderIInvStep ==
  ASSUME IInv, TypeOK', LadderStep
  PROVE  IInv'
<1> USE DEF disk, registry, holder, environment
<1>0. ASSUME UNCHANGED <<disk, registry, inTree, worktrees, issued>>,
             phase = "ladder", phase' \in {"ladder", "triggers"}
      PROVE  IInv'
  <2>1. HibernatedIsRestorable'
    BY <1>0 DEF IInv, HibernatedIsRestorable
  <2> QED
    BY <1>0, <2>1, QuietStep
<1>1. CASE HibernateLowPriority
  BY <1>0, <1>1, HibernateStep DEF IInv, TypeOK, HibernateLowPriority, LadderAt, LadderNext
<1>2. CASE RecycleBloated
  BY <1>0, <1>2, RecycleStep DEF IInv, TypeOK, RecycleBloated, LadderAt, LadderNext
<1>3. CASE PreserveGitState
  BY <1>3, PreserveStep
<1>4. CASE TerminateVictim
  BY <1>0, <1>4, TerminateStep DEF IInv, TypeOK, TerminateVictim, LadderAt, LadderNext
<1>5. CASE LadderAdvisory
  BY <1>0, <1>5 DEF LadderAdvisory, LadderNext
<1>6. CASE LadderDone
  BY <1>0, <1>6 DEF LadderDone
<1> QED
  BY <1>1, <1>2, <1>3, <1>4, <1>5, <1>6 DEF LadderStep

(* Every request handler keeps the invariant.                              *)
LEMMA RequestIInvStep ==
  ASSUME IInv, TypeOK', RequestStep
  PROVE  IInv'
<1> USE DEF holder, environment, Unlocked
<1>1. CASE CreateTask
  BY <1>1, CreateStep
<1>2. ASSUME NEW t \in Tasks, StartTask(t) PROVE IInv'
  BY <1>2, StartStep
<1>3. ASSUME NEW t \in Tasks, RestartTask(t) PROVE IInv'
  BY <1>3, RestartStep
<1>4. ASSUME NEW t \in Tasks, ForgetTask(t) PROVE IInv'
  BY <1>4, ForgetStep
<1>5. ASSUME NEW t \in Tasks, TerminateTask(t) PROVE IInv'
  BY <1>5, TerminateStep DEF TerminateTask
<1>6. ASSUME NEW t \in Tasks, HibernateTask(t) PROVE IInv'
  BY <1>6, HibernateStep DEF HibernateTask
<1>7. ASSUME NEW t \in Tasks, ResumeTask(t) PROVE IInv'
  BY <1>7, ResumeStep
<1>8. ASSUME NEW t \in Tasks, RecycleTask(t) PROVE IInv'
  BY <1>8, RecycleStep DEF RecycleTask
<1> QED
  BY <1>1, <1>2, <1>3, <1>4, <1>5, <1>6, <1>7, <1>8 DEF RequestStep

(* So does every step of pump() and of the admission pass.                 *)
LEMMA HolderIInvStep ==
  ASSUME IInv, TypeOK', PumpBegin \/ HolderStep
  PROVE  IInv'
<1> USE DEF disk, registry, measured, holder, environment
<1>0. ASSUME UNCHANGED <<disk, registry, worktrees, inTree, issued>>,
             phase # "down", phase' \notin {"free", "launch", "down"}
      PROVE  IInv'
  <2>1. HibernatedIsRestorable'
    BY <1>0 DEF IInv, HibernatedIsRestorable
  <2> QED
    BY <1>0, <2>1, QuietStep
<1>1. CASE PumpBegin
  BY <1>0, <1>1 DEF PumpBegin, Unlocked
<1>2. CASE SampleTick
  BY <1>0, <1>2 DEF SampleTick
<1>3. CASE PressureTick
  BY <1>0, <1>3 DEF PressureTick
<1>4. CASE LadderStep
  BY <1>4, LadderIInvStep
<1>5. CASE RecycleTriggers
  BY <1>0, <1>5 DEF RecycleTriggers
<1>6. CASE RecycleDone
  BY <1>0, <1>6 DEF RecycleDone
<1>7. CASE AdmitPass
  BY <1>7, AdmitStep
<1>8. ASSUME NEW t \in Tasks, RetireExited(t) PROVE IInv'
  BY <1>8, TerminateStep DEF RetireExited
<1>9. ASSUME NEW t \in Tasks, RecycleTriggered(t) PROVE IInv'
  <2>1. CASE Recycle(t)
    BY <1>9, <2>1, RecycleStep DEF RecycleTriggered
  <2>2. CASE UNCHANGED <<stored, checkpoint, registry, alive, inTree>>
    BY <1>0, <1>9, <2>2 DEF RecycleTriggered
  <2> QED
    BY <1>9, <2>1, <2>2 DEF RecycleTriggered
<1>10. ASSUME NEW t \in Tasks, LaunchAdmitted(t) PROVE IInv'
  BY <1>10, LaunchAdmittedStep
<1> QED
  BY <1>1, <1>2, <1>3, <1>4, <1>5, <1>6, <1>7, <1>8, <1>9, <1>10 DEF HolderStep

(* The invariant is inductive.                                             *)
LEMMA IInvStep == IInv /\ [Next]_vars => IInv'
<1> SUFFICES ASSUME IInv, [Next]_vars PROVE IInv'
  OBVIOUS
<1>0. TypeOK'
  BY TypeStep DEF IInv
<1>1. CASE RequestStep
  BY <1>0, <1>1, RequestIInvStep
<1>2. CASE PumpBegin \/ HolderStep
  BY <1>0, <1>2, HolderIInvStep
<1>3. CASE ProviderStep
  BY <1>0, <1>3, ProviderIInvStep
<1>4. CASE Crash
  BY <1>0, <1>4, CrashStep
<1>5. CASE Boot
  BY <1>0, <1>5, BootStep
<1>6. CASE UNCHANGED vars
  BY <1>6
  DEF vars, IInv, TypeOK, StoreAgrees, DownIsEmpty, UnissuedIsAbsent, AdmittedIsQueued,
      LiveIsReserved, LeaksOnlyByFailedRecycle, HibernatedIsRestorable,
      CheckpointSeesTheWork, DeferralIsExplained, Unlocked
<1> QED
  BY <1>1, <1>2, <1>3, <1>4, <1>5, <1>6 DEF Next

-----------------------------------------------------------------------------
(* The theorems.                                                           *)

(* Every variable keeps its type in every behaviour of the daemon.         *)
THEOREM TypeCorrect == Spec => []TypeOK
<1>1. TypeOK /\ [Next]_vars => TypeOK'
  BY TypeStep
<1> QED
  BY InitType, <1>1, PTL DEF Spec

(* The inductive invariant holds throughout.                               *)
THEOREM Inductive == Spec => []IInv
BY InitIInv, IInvStep, PTL DEF Spec

(* Every live provider, whichever handler installed it, belongs to an      *)
(* Active task that holds a budget reservation.                            *)
THEOREM EveryLiveProviderIsPaidFor == Spec => []LiveIsReserved
<1>1. IInv => LiveIsReserved
  BY DEF IInv
<1> QED
  BY Inductive, <1>1, PTL

(* Budget without a live provider is held only by, or after, a task whose  *)
(* recycle failed.                                                         *)
THEOREM BudgetLeaksOnlyByFailedRecycle == Spec => []LeaksOnlyByFailedRecycle
<1>1. IInv => LeaksOnlyByFailedRecycle
  BY DEF IInv
<1> QED
  BY Inductive, <1>1, PTL

(* A task whose row says Hibernated has the fresh, intact checkpoint of    *)
(* its last provider on disk, through crashes and failing writes.          *)
THEOREM HibernatedTasksAreRestorable == Spec => []HibernatedIsRestorable
<1>1. IInv => HibernatedIsRestorable
  BY DEF IInv
<1> QED
  BY Inductive, <1>1, PTL

(* The directory a checkpoint hashes is the one the provider works in.     *)
THEOREM CheckpointsSeeTheWork == Spec => []CheckpointSeesTheWork
<1>1. IInv => CheckpointSeesTheWork
  BY DEF IInv
<1> QED
  BY Inductive, <1>1, PTL

(* Every start request left in the admission queue shows its reason.       *)
THEOREM DeferralsAreExplained == Spec => []DeferralIsExplained
<1>1. IInv => DeferralIsExplained
  BY DEF IInv
<1> QED
  BY Inductive, <1>1, PTL

-----------------------------------------------------------------------------
(* What no step does.                                                      *)

(* A walk is only ever started by a task that is not Terminated, teardown  *)
(* and forgetting excepted.                                                *)
LEMMA TerminatedStep ==
  ASSUME IInv, [Next]_vars, NEW u \in Tasks, stored[u] = "Terminated"
  PROVE  stored'[u] \in {"Terminated", Absent}
<1> USE DEF disk, registry
<1>0. /\ stored \in [Tasks -> TaskState \cup {Absent}]
      /\ task \in [Tasks -> TaskState \cup {Absent}]
      /\ phase # "down" => task[u] = "Terminated"
  BY DEF IInv, TypeOK, StoreAgrees
<1>1. ASSUME NEW t \in Tasks, NEW s, SetState(t, s), phase # "down",
             task[t] # "Terminated" \/ s \in {"Terminated", Absent}
      PROVE  stored'[u] \in {"Terminated", Absent}
  BY <1>0, <1>1 DEF SetState
<1>2. ASSUME UNCHANGED stored PROVE stored'[u] \in {"Terminated", Absent}
  BY <1>2
<1>3. ASSUME NEW t \in Tasks, Terminate(t), phase # "down"
      PROVE  stored'[u] \in {"Terminated", Absent}
  <2>1. TerminateWalk(task[t]) = "Terminated"
    BY <1>0, <1>3, Walks DEF Terminate
  <2> QED
    BY <1>1, <1>3, <2>1 DEF Terminate
<1>4. ASSUME NEW t \in Tasks, Hibernate(t) \/ Recycle(t), phase # "down"
      PROVE  stored'[u] \in {"Terminated", Absent}
  <2>1. task[t] = "Active"
    BY <1>4 DEF Hibernate, Recycle, IInv, LiveIsReserved
  <2> QED
    BY <1>1, <1>2, <1>4, <2>1 DEF Hibernate, Recycle
<1>5. ASSUME NEW t \in Tasks, NEW s, LaunchQueued(t, s), phase # "down",
             task[t] # "Terminated"
      PROVE  stored'[u] \in {"Terminated", Absent}
  BY <1>1, <1>5 DEF LaunchQueued
<1>6. CASE CreateTask
  <2>1. issued + 1 \in Tasks /\ task[issued + 1] # "Terminated"
    BY <1>6, NumTasksAssumption DEF CreateTask, IInv, TypeOK, UnissuedIsAbsent, Tasks, Absent
  <2> QED
    BY <1>1, <1>6, <2>1 DEF CreateTask, Unlocked
<1>7. ASSUME NEW t \in Tasks, RestartTask(t) PROVE stored'[u] \in {"Terminated", Absent}
  BY <1>5, <1>7 DEF RestartTask, Unlocked
<1>8. ASSUME NEW t \in Tasks, ForgetTask(t) PROVE stored'[u] \in {"Terminated", Absent}
  BY <1>1, <1>8 DEF ForgetTask, Unlocked
<1>9. ASSUME NEW t \in Tasks, ResumeTask(t) PROVE stored'[u] \in {"Terminated", Absent}
  BY <1>1, <1>9 DEF ResumeTask, Unlocked
<1>10. ASSUME NEW t \in Tasks, LaunchAdmitted(t) PROVE stored'[u] \in {"Terminated", Absent}
  <2>1. task[t] = "Queued"
    BY <1>10 DEF LaunchAdmitted, IInv, AdmittedIsQueued
  <2> QED
    BY <1>5, <1>10, <2>1 DEF LaunchAdmitted
<1>11. CASE RequestStep
  <2>1. ASSUME NEW t \in Tasks, StartTask(t) PROVE UNCHANGED stored
    BY <2>1 DEF StartTask
  <2>2. ASSUME NEW t \in Tasks, TerminateTask(t) \/ HibernateTask(t) \/ RecycleTask(t)
        PROVE  stored'[u] \in {"Terminated", Absent}
    BY <1>3, <1>4, <2>2 DEF TerminateTask, HibernateTask, RecycleTask, Unlocked
  <2> QED
    BY <1>2, <1>6, <1>7, <1>8, <1>9, <1>11, <2>1, <2>2 DEF RequestStep
<1>12. CASE LadderStep
  <2>1. CASE HibernateLowPriority
    BY <1>2, <1>4, <2>1 DEF HibernateLowPriority, LadderAt, IInv, TypeOK
  <2>2. CASE RecycleBloated
    BY <1>2, <1>4, <2>2 DEF RecycleBloated, LadderAt, IInv, TypeOK
  <2>3. CASE TerminateVictim
    BY <1>2, <1>3, <2>3 DEF TerminateVictim, LadderAt, IInv, TypeOK
  <2>4. CASE PreserveGitState \/ LadderAdvisory \/ LadderDone
    BY <1>2, <2>4 DEF PreserveGitState, LadderAdvisory, LadderDone
  <2> QED
    BY <1>12, <2>1, <2>2, <2>3, <2>4 DEF LadderStep
<1>13. CASE PumpBegin \/ HolderStep
  <2>1. CASE PumpBegin \/ SampleTick \/ PressureTick \/ RecycleTriggers \/ RecycleDone \/ AdmitPass
    BY <1>2, <2>1
    DEF PumpBegin, SampleTick, PressureTick, RecycleTriggers, RecycleDone, AdmitPass
  <2>2. ASSUME NEW t \in Tasks, RetireExited(t) PROVE stored'[u] \in {"Terminated", Absent}
    BY <1>3, <2>2 DEF RetireExited
  <2>3. ASSUME NEW t \in Tasks, RecycleTriggered(t)
        PROVE  stored'[u] \in {"Terminated", Absent}
    BY <1>2, <1>4, <2>3 DEF RecycleTriggered
  <2> QED
    BY <1>10, <1>12, <1>13, <2>1, <2>2, <2>3 DEF HolderStep
<1>14. CASE ProviderStep \/ Crash \/ Boot \/ UNCHANGED vars
  BY <1>2, <1>14 DEF ProviderStep, ProviderExits, ProviderEdits, Crash, Boot, vars
<1> QED
  BY <1>11, <1>13, <1>14 DEF Next

(* A task torn down never comes back to life, also across crashes.         *)
THEOREM TerminatedForGood == Spec => TerminatedIsFinal
<1>1. IInv /\ [Next]_vars =>
        [\A t \in Tasks : stored[t] = "Terminated" => stored'[t] \in {"Terminated", Absent}]_vars
  BY TerminatedStep
<1> QED
  BY Inductive, <1>1, PTL DEF Spec, TerminatedIsFinal

(* The worktree of a task is only written by the cutting, the cleanup and  *)
(* the provider, and none of them takes a dirty tree away.                 *)
LEMMA DirtyStep ==
  ASSUME TypeOK, [Next]_vars, NEW u \in Tasks, tree[u] = "dirty"
  PROVE  tree'[u] # "none"
<1> USE DEF disk
<1>0. tree \in [Tasks -> {"none", "clean", "dirty"}]
  BY DEF TypeOK
<1>1. ASSUME UNCHANGED tree PROVE tree'[u] # "none"
  BY <1>1
<1>2. ASSUME NEW t \in Tasks, Terminate(t) PROVE tree'[u] # "none"
  BY <1>0, <1>2 DEF Terminate, CleanupWorktree
<1>3. ASSUME NEW t \in Tasks, NEW s, LaunchQueued(t, s) PROVE tree'[u] # "none"
  BY <1>0, <1>3 DEF LaunchQueued, EnsureWorktree
<1>4. CASE RequestStep
  <2>1. CASE CreateTask
    BY <1>1, <2>1 DEF CreateTask
  <2>2. ASSUME NEW t \in Tasks,
               StartTask(t) \/ ForgetTask(t) \/ HibernateTask(t) \/ ResumeTask(t) \/ RecycleTask(t)
        PROVE  tree'[u] # "none"
    BY <1>1, <2>2 DEF StartTask, ForgetTask, HibernateTask, ResumeTask, RecycleTask
  <2>3. ASSUME NEW t \in Tasks, RestartTask(t) \/ TerminateTask(t) PROVE tree'[u] # "none"
    BY <1>2, <1>3, <2>3 DEF RestartTask, TerminateTask
  <2> QED
    BY <1>4, <2>1, <2>2, <2>3 DEF RequestStep
<1>5. CASE LadderStep
  <2>1. CASE TerminateVictim
    BY <1>1, <1>2, <2>1 DEF TerminateVictim, TypeOK
  <2>2. CASE \/ HibernateLowPriority \/ RecycleBloated \/ PreserveGitState
             \/ LadderAdvisory \/ LadderDone
    BY <1>1, <2>2
    DEF HibernateLowPriority, RecycleBloated, PreserveGitState, LadderAdvisory, LadderDone
  <2> QED
    BY <1>5, <2>1, <2>2 DEF LadderStep
<1>6. CASE PumpBegin \/ HolderStep
  <2>1. CASE PumpBegin \/ SampleTick \/ PressureTick \/ RecycleTriggers \/ RecycleDone \/ AdmitPass
    BY <1>1, <2>1
    DEF PumpBegin, SampleTick, PressureTick, RecycleTriggers, RecycleDone, AdmitPass
  <2>2. ASSUME NEW t \in Tasks, RecycleTriggered(t) PROVE tree'[u] # "none"
    BY <1>1, <2>2 DEF RecycleTriggered
  <2>3. ASSUME NEW t \in Tasks, RetireExited(t) \/ LaunchAdmitted(t) PROVE tree'[u] # "none"
    BY <1>2, <1>3, <2>3 DEF RetireExited, LaunchAdmitted
  <2> QED
    BY <1>5, <1>6, <2>1, <2>2, <2>3 DEF HolderStep
<1>7. ASSUME NEW t \in Tasks, ProviderEdits(t) PROVE tree'[u] # "none"
  BY <1>0, <1>7 DEF ProviderEdits
<1>8. CASE ProviderStep \/ Crash \/ Boot \/ UNCHANGED vars
  BY <1>1, <1>7, <1>8 DEF ProviderStep, ProviderExits, Crash, Boot, vars
<1> QED
  BY <1>4, <1>6, <1>8 DEF Next

(* No step deletes a worktree that holds uncommitted changes.              *)
THEOREM DirtyWorkIsKept == Spec => DirtyWorkSurvives
<1>1. TypeOK /\ [Next]_vars =>
        [\A t \in Tasks : tree[t] = "dirty" => tree'[t] # "none"]_vars
  BY DirtyStep
<1> QED
  BY TypeCorrect, <1>1, PTL DEF Spec, DirtyWorkSurvives

-----------------------------------------------------------------------------
(* The low-priority hold.                                                  *)

(* What an admission pass has still to launch is not held: the stage       *)
(* cannot rise between the plan and the launches.                          *)
AdmittedIsNotHeld ==
  phase = "launch" =>
    \A t \in todo : ~(Priority(t) = "Low" /\ AtLeast(stage, "High"))

(* Nothing but the end of an admission pass enters the launch phase, and   *)
(* nothing but a launch or a crash moves inside it.                        *)
LEMMA LaunchPhase ==
  ASSUME TypeOK, [Next]_vars
  PROVE  \/ AdmitPass
         \/ \E t \in todo : LaunchAdmitted(t)
         \/ Crash
         \/ phase = "launch" /\ UNCHANGED <<phase, todo, stage, request, runtimes, reservations>>
         \/ phase # "launch" /\ phase' # "launch"
<1> USE DEF disk, registry, measured, holder, environment
<1> DEFINE Elsewhere == phase # "launch" /\ phase' # "launch"
<1>1. CASE RequestStep
  <2>1. CreateTask => Elsewhere
    BY DEF CreateTask, Unlocked
  <2>2. \A t \in Tasks : StartTask(t) \/ RestartTask(t) \/ ForgetTask(t) => Elsewhere
    BY DEF StartTask, RestartTask, ForgetTask, Unlocked
  <2>3. \A t \in Tasks : TerminateTask(t) \/ HibernateTask(t) => Elsewhere
    BY DEF TerminateTask, HibernateTask, Unlocked
  <2>4. \A t \in Tasks : ResumeTask(t) \/ RecycleTask(t) => Elsewhere
    BY DEF ResumeTask, RecycleTask, Unlocked
  <2> QED
    BY <1>1, <2>1, <2>2, <2>3, <2>4 DEF RequestStep
<1>2. CASE LadderStep
  <2>1. HibernateLowPriority \/ RecycleBloated => Elsewhere
    BY DEF HibernateLowPriority, RecycleBloated, LadderAt, LadderNext
  <2>2. PreserveGitState \/ TerminateVictim => Elsewhere
    BY DEF PreserveGitState, TerminateVictim, LadderAt, LadderNext
  <2>3. LadderAdvisory \/ LadderDone => Elsewhere
    BY DEF LadderAdvisory, LadderDone, LadderNext
  <2> QED
    BY <1>2, <2>1, <2>2, <2>3 DEF LadderStep
<1>3. CASE PumpBegin \/ HolderStep
  <2>1. PumpBegin \/ SampleTick \/ PressureTick \/ RecycleTriggers \/ RecycleDone => Elsewhere
    BY DEF PumpBegin, SampleTick, PressureTick, RecycleTriggers, RecycleDone, Unlocked
  <2>2. \A t \in Tasks : RetireExited(t) \/ RecycleTriggered(t) => Elsewhere
    BY DEF RetireExited, RecycleTriggered
  <2>3. \A t \in Tasks : LaunchAdmitted(t) => t \in todo
    BY DEF LaunchAdmitted
  <2> QED
    BY <1>2, <1>3, <2>1, <2>2, <2>3 DEF HolderStep
<1>4. CASE ProviderStep \/ Boot \/ UNCHANGED vars
  <2>1. CASE ProviderStep \/ UNCHANGED vars
    BY <2>1 DEF ProviderStep, ProviderExits, ProviderEdits, vars
  <2>2. CASE Boot
    BY <2>2 DEF Boot
  <2> QED
    BY <1>4, <2>1, <2>2
<1> QED
  BY <1>1, <1>3, <1>4 DEF Next

(* The launches of a pass respect the hold to the end of the pass.         *)
LEMMA HoldStep == TypeOK /\ AdmittedIsNotHeld /\ [Next]_vars => AdmittedIsNotHeld'
<1> SUFFICES ASSUME TypeOK, AdmittedIsNotHeld, [Next]_vars PROVE AdmittedIsNotHeld'
  OBVIOUS
<1> USE DEF measured, holder, environment, Priority
<1>1. CASE AdmitPass
  BY <1>1 DEF AdmitPass, AdmittedIsNotHeld, Eligible, Held
<1>2. ASSUME NEW t \in todo, LaunchAdmitted(t) PROVE AdmittedIsNotHeld'
  BY <1>2 DEF LaunchAdmitted, AdmittedIsNotHeld
<1>3. CASE Crash
  BY <1>3 DEF Crash, AdmittedIsNotHeld
<1>4. CASE phase = "launch" /\ UNCHANGED <<phase, todo, stage, request, runtimes, reservations>>
  BY <1>4 DEF AdmittedIsNotHeld
<1>5. CASE phase' # "launch"
  BY <1>5 DEF AdmittedIsNotHeld
<1> QED
  BY <1>1, <1>2, <1>3, <1>4, <1>5, LaunchPhase

(* From High pressure up, an admission pass starts no low-priority task.   *)
THEOREM LowPriorityStaysHeld == Spec => LowPriorityIsHeld
<1>1. Init => AdmittedIsNotHeld
  BY DEF Init, AdmittedIsNotHeld
<1>2. TypeOK /\ AdmittedIsNotHeld /\ [Next]_vars =>
        [\A t \in runtimes' \ runtimes :
           phase = "launch" /\ Priority(t) = "Low" => ~AtLeast(stage, "High")]_vars
  <2> SUFFICES ASSUME TypeOK, AdmittedIsNotHeld, [Next]_vars, phase = "launch",
                      NEW t \in runtimes' \ runtimes, Priority(t) = "Low"
               PROVE  ~AtLeast(stage, "High")
    OBVIOUS
  <2>1. ~AdmitPass /\ ~Crash
    BY DEF AdmitPass, Crash
  <2>2. PICK u \in todo : LaunchAdmitted(u)
    BY <2>1, LaunchPhase
  <2>3. runtimes' \subseteq runtimes \cup {u}
    BY <2>2 DEF LaunchAdmitted, LaunchQueued, InstallRuntime
  <2> QED
    BY <2>2, <2>3 DEF AdmittedIsNotHeld
<1> QED
  BY <1>1, <1>2, HoldStep, TypeCorrect, PTL DEF Spec, LowPriorityIsHeld

-----------------------------------------------------------------------------
(* The ladder.                                                             *)

(* The two actions that follow the checkpoint of the Emergency stage.      *)
Endgame == <<"TerminateLowestPriorityTree", "NotifyOperator">>

(* A victim is named only by the first action of the Emergency stage.      *)
LadderInOrder ==
  phase = "ladder" =>
    /\ \A i \in 2..Len(ladder) : ladder[i] # "PreserveGitState"
    /\ ladder # <<>> /\ Head(ladder) = "PreserveGitState" => Tail(ladder) = Endgame

(* Between its checkpoint and its end nothing happens to the victim: it    *)
(* keeps the fresh checkpoint, and nothing of lower priority is launched.  *)
VictimIsSpared ==
  preserved # {} =>
    /\ phase = "ladder" /\ ladder = Endgame
    /\ \A t \in preserved :
         /\ checkpoint[t] = "fresh"
         /\ \A u \in runtimes : PriorityRank[Priority(t)] <= PriorityRank[Priority(u)]

(* Every stage lines its actions up that way.                              *)
LEMMA ActionsInOrder ==
  \A s \in Stages :
    /\ \A i \in 2..Len(Actions(s)) : Actions(s)[i] # "PreserveGitState"
    /\ Actions(s) # <<>> /\ Head(Actions(s)) = "PreserveGitState" => Tail(Actions(s)) = Endgame
<1> DEFINE StageOrdered(s) ==
      /\ \A i \in 2..Len(Actions(s)) : Actions(s)[i] # "PreserveGitState"
      /\ Actions(s) # <<>> /\ Head(Actions(s)) = "PreserveGitState" => Tail(Actions(s)) = Endgame
<1>1. StageOrdered("Normal") /\ StageOrdered("Critical")
  BY DEF Actions
<1>2. StageOrdered("Elevated")
  BY DEF Actions
<1>3. StageOrdered("High")
  BY DEF Actions
<1>4. StageOrdered("Emergency")
  <2>1. Actions("Emergency") =
          <<"PreserveGitState", "TerminateLowestPriorityTree", "NotifyOperator">>
    BY DEF Actions
  <2>2. Tail(Actions("Emergency")) = Endgame
    <3>0. Actions("Emergency") \in Seq(PressureActions) /\ Actions("Emergency") # <<>>
      <4>1. Actions("Emergency") \in Seq(PressureActions)
        BY LadderTypes DEF Stages
      <4>2. Len(Actions("Emergency")) = 3
        BY <2>1
      <4> QED
        BY <4>1, <4>2
    <3>1. Tail(Actions("Emergency")) \in Seq(PressureActions) /\ Endgame \in Seq(PressureActions)
      BY <3>0 DEF Endgame, PressureActions
    <3>2. Len(Tail(Actions("Emergency"))) = 2 /\ Len(Endgame) = 2
      BY <2>1 DEF Endgame
    <3>3. \A i \in 1..2 : Tail(Actions("Emergency"))[i] = Endgame[i]
      BY <2>1 DEF Endgame
    <3> QED
      BY <3>1, <3>2, <3>3, SeqEqual
  <2>3. \A i \in 2..3 : Actions("Emergency")[i] # "PreserveGitState"
    BY <2>1
  <2>4. Len(Actions("Emergency")) = 3
    BY <2>1
  <2> QED
    BY <2>2, <2>3, <2>4
<1> HIDE DEF StageOrdered
<1>5. \A s \in Stages : StageOrdered(s)
  BY <1>1, <1>2, <1>3, <1>4 DEF Stages
<1> QED
  BY <1>5 DEF StageOrdered

(* A step from a rung of the ladder to the next leaves the order.          *)
LEMMA NextInOrder ==
  ASSUME TypeOK, LadderInOrder, phase = "ladder", ladder # <<>>, LadderNext
  PROVE  LadderInOrder'
<1>1. ladder \in Seq(PressureActions) /\ ladder' = Tail(ladder) /\ Len(ladder) \in Nat
  BY DEF TypeOK, LadderNext
<1>2. /\ Len(ladder') = Len(ladder) - 1
      /\ \A i \in 1..Len(ladder') : ladder'[i] = ladder[i + 1]
  BY <1>1
<1>3. \A i \in 1..Len(ladder') : ladder'[i] # "PreserveGitState"
  BY <1>1, <1>2 DEF LadderInOrder
<1>4. ladder' # <<>> => Head(ladder') = ladder'[1] /\ 1 \in 1..Len(ladder')
  BY <1>1, <1>2
<1> QED
  BY <1>1, <1>2, <1>3, <1>4 DEF LadderInOrder

(* Nothing but the ladder and a crash takes a step inside its phase that   *)
(* touches a provider or a checkpoint.                                     *)
LEMMA LadderPhase ==
  ASSUME TypeOK, [Next]_vars
  PROVE  \/ PressureTick
         \/ LadderStep
         \/ Crash
         \/ UNCHANGED <<phase, ladder, preserved, runtimes, checkpoint, request>>
         \/ phase # "ladder" /\ phase' # "ladder" /\ UNCHANGED preserved
<1> USE DEF disk, registry, measured, holder, environment
<1> DEFINE Elsewhere == phase # "ladder" /\ phase' # "ladder" /\ UNCHANGED preserved
<1>1. CASE RequestStep
  <2>1. CreateTask => Elsewhere
    BY DEF CreateTask, Unlocked
  <2>2. \A t \in Tasks : StartTask(t) \/ RestartTask(t) \/ ForgetTask(t) => Elsewhere
    BY DEF StartTask, RestartTask, ForgetTask, Unlocked
  <2>3. \A t \in Tasks : TerminateTask(t) \/ HibernateTask(t) => Elsewhere
    BY DEF TerminateTask, HibernateTask, Unlocked
  <2>4. \A t \in Tasks : ResumeTask(t) \/ RecycleTask(t) => Elsewhere
    BY DEF ResumeTask, RecycleTask, Unlocked
  <2> QED
    BY <1>1, <2>1, <2>2, <2>3, <2>4 DEF RequestStep
<1>2. CASE PumpBegin \/ HolderStep
  <2>1. PumpBegin \/ SampleTick \/ RecycleTriggers \/ RecycleDone => Elsewhere
    BY DEF PumpBegin, SampleTick, RecycleTriggers, RecycleDone, Unlocked
  <2>2. AdmitPass => Elsewhere
    BY DEF AdmitPass
  <2>3. \A t \in Tasks : RetireExited(t) \/ RecycleTriggered(t) \/ LaunchAdmitted(t) => Elsewhere
    BY DEF RetireExited, RecycleTriggered, LaunchAdmitted
  <2> QED
    BY <1>2, <2>1, <2>2, <2>3 DEF HolderStep
<1>3. CASE ProviderStep \/ Boot \/ UNCHANGED vars
  <2>1. CASE ProviderStep \/ UNCHANGED vars
    BY <2>1 DEF ProviderStep, ProviderExits, ProviderEdits, vars
  <2>2. CASE Boot
    BY <2>2 DEF Boot
  <2> QED
    BY <1>3, <2>1, <2>2
<1> QED
  BY <1>1, <1>2, <1>3 DEF Next

(* The order of the ladder is kept.                                        *)
LEMMA OrderStep == TypeOK /\ LadderInOrder /\ [Next]_vars => LadderInOrder'
<1> SUFFICES ASSUME TypeOK, LadderInOrder, [Next]_vars PROVE LadderInOrder'
  OBVIOUS
<1>1. CASE PressureTick
  <2>1. CASE phase' = "triggers"
    BY <2>1 DEF LadderInOrder
  <2>2. ASSUME NEW swapGrowing \in BOOLEAN,
               stage' = Classify(used, Budget, swapGrowing),
               phase' = IF stage' = "Normal" THEN "triggers" ELSE "ladder",
               ladder' = IF stage' = "Normal" THEN <<>> ELSE Actions(stage')
        PROVE  LadderInOrder'
    <3>1. stage' \in Stages
      BY <2>2, LadderTypes, BudgetAssumption DEF TypeOK
    <3>2. CASE stage' = "Normal"
      BY <2>1, <2>2, <3>2
    <3>3. CASE stage' # "Normal"
      <4>1. ladder' = Actions(stage')
        BY <2>2, <3>3
      <4> QED
        BY <3>1, <4>1, ActionsInOrder DEF LadderInOrder
    <3> QED
      BY <3>2, <3>3
  <2> QED
    BY <1>1, <2>1, <2>2 DEF PressureTick
<1>2. CASE LadderStep
  <2>1. CASE LadderDone
    BY <2>1 DEF LadderDone, LadderInOrder
  <2>2. CASE ~LadderDone
    <3>1. phase = "ladder" /\ ladder # <<>> /\ LadderNext
      BY <1>2, <2>2
      DEF LadderStep, HibernateLowPriority, RecycleBloated, PreserveGitState,
          TerminateVictim, LadderAdvisory, LadderAt
    <3> QED
      BY <3>1, NextInOrder
  <2> QED
    BY <2>1, <2>2
<1>3. CASE Crash
  BY <1>3 DEF Crash, LadderInOrder
<1>4. CASE UNCHANGED <<phase, ladder, preserved, runtimes, checkpoint, request>>
  BY <1>4 DEF LadderInOrder
<1>5. CASE phase' # "ladder"
  BY <1>5 DEF LadderInOrder
<1> QED
  BY <1>1, <1>2, <1>3, <1>4, <1>5, LadderPhase

(* The ranks compare as numbers.                                           *)
LEMMA RanksCompare ==
  ASSUME TypeOK, NEW t \in Tasks, NEW u \in Tasks
  PROVE  /\ PriorityRank[Priority(t)] \in Nat
         /\ PriorityRank[Priority(t)] = PriorityRank[Priority(u)]
              \/ PriorityRank[Priority(t)] < PriorityRank[Priority(u)]
              => PriorityRank[Priority(t)] <= PriorityRank[Priority(u)]
<1>1. \A v \in Tasks : Priority(v) \in Priorities
  BY RequestsAssumption DEF TypeOK, Priority
<1>2. \A p \in Priorities : PriorityRank[p] \in Nat
  BY DEF Priorities, PriorityRank
<1> QED
  BY <1>1, <1>2

(* What pressure takes first has the lowest priority of its candidates.    *)
LEMMA FirstIsLowest ==
  ASSUME TypeOK, NEW t, NEW C \in SUBSET Tasks, FirstVictim(t, C)
  PROVE  t \in C /\ \A u \in C : PriorityRank[Priority(t)] <= PriorityRank[Priority(u)]
  BY RanksCompare DEF FirstVictim

(* The victim named by a checkpoint that succeeded is spared to the end.   *)
LEMMA VictimStep ==
  TypeOK /\ LadderInOrder /\ VictimIsSpared /\ [Next]_vars => VictimIsSpared'
<1> SUFFICES ASSUME TypeOK, LadderInOrder, VictimIsSpared, [Next]_vars PROVE VictimIsSpared'
  OBVIOUS
<1> USE DEF registry, environment, Priority
<1>1. CASE PressureTick
  BY <1>1 DEF PressureTick, VictimIsSpared
<1>2. CASE HibernateLowPriority \/ RecycleBloated \/ LadderAdvisory \/ LadderDone
  <2>1. /\ phase = "ladder" /\ UNCHANGED preserved
        /\ ladder = <<>> \/ Head(ladder) # "TerminateLowestPriorityTree"
    BY <1>2
    DEF HibernateLowPriority, RecycleBloated, LadderAdvisory, LadderDone, LadderAt
  <2>2. preserved = {}
    BY <2>1 DEF VictimIsSpared, Endgame
  <2> QED
    BY <2>1, <2>2 DEF VictimIsSpared
<1>3. CASE PreserveGitState
  <2>1. CASE preserved' = {}
    BY <2>1 DEF VictimIsSpared
  <2>2. ASSUME NEW t \in runtimes, FirstVictim(t, runtimes), PersistCheckpoint(t),
               preserved' = {t}
        PROVE  VictimIsSpared'
    <3>1. phase' = "ladder" /\ ladder' = Endgame /\ UNCHANGED <<runtimes, request>>
      BY <1>3 DEF PreserveGitState, LadderAt, LadderNext, LadderInOrder
    <3>2. checkpoint'[t] = "fresh"
      BY <2>2 DEF TypeOK, PersistCheckpoint
    <3>3. \A u \in runtimes : PriorityRank[Priority(t)] <= PriorityRank[Priority(u)]
      BY <2>2, FirstIsLowest DEF TypeOK
    <3> QED
      BY <2>2, <3>1, <3>2, <3>3 DEF VictimIsSpared
  <2> QED
    BY <1>3, <2>1, <2>2 DEF PreserveGitState
<1>4. CASE TerminateVictim \/ Crash
  BY <1>4 DEF TerminateVictim, Crash, VictimIsSpared
<1>5. CASE UNCHANGED <<phase, ladder, preserved, runtimes, checkpoint, request>>
  BY <1>5 DEF VictimIsSpared
<1>6. CASE phase # "ladder" /\ UNCHANGED preserved
  BY <1>6 DEF VictimIsSpared
<1> QED
  BY <1>1, <1>2, <1>3, <1>4, <1>5, <1>6, LadderPhase DEF LadderStep

(* Whom the ladder takes down has the lowest priority and a fresh          *)
(* checkpoint; a task without a fresh one is left running.                 *)
THEOREM LadderTakesTheSpared == Spec => LadderSparesWork
<1>1. Init => LadderInOrder /\ VictimIsSpared
  BY DEF Init, LadderInOrder, VictimIsSpared
<1>2. IInv /\ VictimIsSpared /\ [Next]_vars =>
        [\A t \in runtimes \ runtimes' :
           phase = "ladder" /\ Head(ladder) # "RecycleBloatedProviders" /\ phase' # "down" =>
             /\ checkpoint'[t] = "fresh"
             /\ \A u \in runtimes : PriorityRank[Priority(t)] <= PriorityRank[Priority(u)]]_vars
  <2> SUFFICES ASSUME IInv, VictimIsSpared, [Next]_vars, NEW t \in runtimes \ runtimes',
                      phase = "ladder", Head(ladder) # "RecycleBloatedProviders",
                      phase' # "down"
               PROVE  /\ checkpoint'[t] = "fresh"
                      /\ \A u \in runtimes : PriorityRank[Priority(t)] <= PriorityRank[Priority(u)]
    OBVIOUS
  <2>0. TypeOK /\ runtimes \subseteq Tasks
    BY DEF IInv, TypeOK
  <2>1. LadderStep
    <3>1. ~PressureTick /\ ~Crash
      BY DEF PressureTick, Crash
    <3> QED
      BY <2>0, <3>1, LadderPhase
  <2>2. HibernateLowPriority \/ TerminateVictim
    BY <2>1
    DEF LadderStep, RecycleBloated, PreserveGitState, LadderAdvisory, LadderDone, LadderAt, registry
  <2>3. CASE HibernateLowPriority
    <3>1. {u \in runtimes : AtSafePoint(task[u])} = runtimes
      BY DEF IInv, LiveIsReserved, AtSafePoint
    <3>2. PICK v \in runtimes : FirstVictim(v, runtimes) /\ Hibernate(v)
      BY <2>3, <3>1 DEF HibernateLowPriority, registry
    <3>3. PersistCheckpoint(v) /\ runtimes' = runtimes \ {v}
      BY <3>2 DEF Hibernate, StopProvider, registry
    <3>4. t = v /\ checkpoint'[v] = "fresh"
      BY <2>0, <3>3 DEF TypeOK, PersistCheckpoint
    <3> QED
      BY <2>0, <3>2, <3>4, FirstIsLowest
  <2>4. CASE TerminateVictim
    <3>1. PICK v \in preserved : Terminate(v)
      BY <2>4 DEF TerminateVictim, registry
    <3>2. t = v /\ UNCHANGED checkpoint
      BY <3>1 DEF Terminate, StopProvider
    <3> QED
      BY <3>2 DEF VictimIsSpared
  <2> QED
    BY <2>2, <2>3, <2>4
<1>3. Init /\ [][Next]_vars => [](IInv /\ VictimIsSpared)
  BY <1>1, InitIInv, IInvStep, OrderStep, VictimStep, PTL DEF IInv
<1> QED
  BY <1>2, <1>3, PTL DEF Spec, LadderSparesWork

-----------------------------------------------------------------------------
(* The budget.                                                             *)

(* What is reserved and what the pass has still to launch fit together.    *)
LaunchesFit ==
  phase = "launch" => ReservedBytes(reservations \cup todo, Peak) <= Budget

LEMMA PeakOK ==
  ASSUME TypeOK
  PROVE  /\ IsFiniteSet(Tasks) /\ Tasks \subseteq Int
         /\ Peak \in [Tasks -> Nat] /\ \A t \in Tasks : Peak[t] > 0 /\ Priority(t) \in Priorities
<1>1. IsFiniteSet(Tasks) /\ Tasks \subseteq Int
  BY NumTasksAssumption, FS_Interval DEF Tasks
<1>2. \A c \in Classes : PeakOf[c] \in Nat /\ PeakOf[c] > 0
  BY DEF PeakOf, Classes
<1>3. \A t \in Tasks : request[t].class \in Classes /\ request[t].priority \in Priorities
  <2>. SUFFICES ASSUME NEW t \in Tasks
       PROVE request[t].class \in Classes /\ request[t].priority \in Priorities
    OBVIOUS
  <2>1. request[t] \in [priority : Priorities, class : Classes]
    BY RequestsAssumption DEF TypeOK
  <2>. QED
    BY <2>1
<1>. QED
  BY <1>1, <1>2, <1>3 DEF Peak, Priority

(* What an admission pass admits fits beside the reservations.             *)
LEMMA AdmittedFit ==
  ASSUME TypeOK, NEW age \in Ages, NEW admitted,
         admitted = Eligible \cap PlanAdmission(Candidates(age), Available), admitted # {}
  PROVE  ReservedBytes(reservations \cup admitted, Peak) <= Budget
<1>. DEFINE A == PlanAdmission(Candidates(age), Available)
            Sum(T) == SumFunctionOnSet(Peak, T)
            Entry(t) == [id |-> t, peak |-> Peak[t],
                         score |-> Score(Priority(t), age[t], Peak[t], AgeUnit, Budget)]
<1>1. /\ IsFiniteSet(Tasks) /\ Tasks \subseteq Int
      /\ Peak \in [Tasks -> Nat] /\ \A t \in Tasks : Peak[t] > 0 /\ Priority(t) \in Priorities
  BY PeakOK
<1>2. Eligible \subseteq Tasks /\ reservations \in SUBSET Tasks
  BY DEF Eligible, StillWaiting, TypeOK
<1>3. \A t \in Tasks : age[t] \in Nat /\ AgeUnit \in Nat /\ Budget \in Nat
  BY BoundsAssumption, BudgetAssumption DEF Ages
<1>4. \A t \in Tasks : Entry(t).id = t /\ Entry(t).peak = Peak[t] /\ Entry(t) \in CandidatesOf(Tasks)
  <2>. SUFFICES ASSUME NEW t \in Tasks PROVE Entry(t) \in CandidatesOf(Tasks)
    OBVIOUS
  <2>1. Peak[t] \in Nat /\ Priority(t) \in Priorities
    BY <1>1
  <2>2. Score(Priority(t), age[t], Peak[t], AgeUnit, Budget) \in Int
    BY <1>3, <2>1, ScoreOK
  <2>. QED
    BY <2>1, <2>2 DEF CandidatesOf
<1>5. Candidates(age) = {Entry(t) : t \in Eligible}
  BY DEF Candidates
<1>. HIDE DEF Entry
<1>6. /\ Candidates(age) \subseteq CandidatesOf(Tasks)
      /\ \A c \in Candidates(age) : \A d \in Candidates(age) : c.id = d.id => c = d
      /\ \A c \in Candidates(age) : c.peak = Peak[c.id]
  BY <1>2, <1>4, <1>5
<1>7. /\ Sum({}) = 0
      /\ \A T \in SUBSET Tasks : Sum(T) \in Nat
      /\ \A T \in SUBSET Tasks : \A x \in T : Sum(T) = Peak[x] + Sum(T \ {x})
  <2>1. /\ SumFunctionOnSet(Peak, {}) = 0
        /\ \A T \in SUBSET Tasks : SumFunctionOnSet(Peak, T) \in Nat
        /\ \A T \in SUBSET Tasks : \A x \in T :
             SumFunctionOnSet(Peak, T) = Peak[x] + SumFunctionOnSet(Peak, T \ {x})
    <3>1. IsFiniteSet(Tasks) /\ Peak \in [Tasks -> Nat]
      BY <1>1
    <3>. QED
      BY ONLY <3>1, SumOK
  <2>. QED
    BY <2>1, Zenon
<1>8. Sum(reservations) \in Nat /\ Budget \in Nat
  BY <1>2, <1>7, BudgetAssumption
<1>9. Available \in Nat /\ (Available > 0 => Available = Budget - Sum(reservations))
  <2>1. Available = Max({Budget - Sum(reservations), 0})
    BY DEF Available, Headroom, ReservedBytes
  <2>. HIDE DEF Sum
  <2>2. Max({Budget - Sum(reservations), 0}) =
          IF Budget - Sum(reservations) >= 0 THEN Budget - Sum(reservations) ELSE 0
    BY <1>8, MaxPair
  <2>. QED
    BY <1>8, <2>1, <2>2
<1>10. A \subseteq {c.id : c \in Candidates(age)} /\ Sum(A) <= Available
  <2>1. A = PlanAdmission(Candidates(age), Available)
    OBVIOUS
  <2>. HIDE DEF A, Sum
  <2>2. A \subseteq {c.id : c \in Candidates(age)} /\ ReservedBytes(A, Peak) <= Available
    BY <1>1, <1>6, <1>9, <2>1, PlanOK
  <2>. QED
    BY <2>2 DEF Sum, ReservedBytes
<1>11. A \in SUBSET Tasks /\ admitted \in SUBSET Tasks /\ admitted \subseteq A
  <2>1. \A c \in Candidates(age) : c.id \in Tasks
    BY <1>6 DEF CandidatesOf
  <2>. HIDE DEF A
  <2>2. A \in SUBSET Tasks
    BY <1>10, <2>1
  <2>3. admitted \subseteq A
    BY DEF A
  <2>. QED
    BY <2>2, <2>3
<1>. HIDE DEF A
<1>12. Sum(admitted) <= Sum(A) /\ Sum(reservations \cup admitted) <= Sum(reservations) + Sum(admitted)
  BY ONLY <1>1, <1>2, <1>11, SumGrows
<1>. HIDE DEF Sum
<1>13. Sum(admitted) > 0 /\ Sum(admitted) \in Nat /\ Sum(A) \in Nat /\ Sum(reservations \cup admitted) \in Nat
  <2>1. PICK x \in admitted : TRUE
    OBVIOUS
  <2>2. Sum(admitted) = Peak[x] + Sum(admitted \ {x}) /\ admitted \ {x} \in SUBSET Tasks
    BY <1>7, <1>11
  <2>3. Peak[x] > 0 /\ Peak[x] \in Nat /\ Sum(admitted \ {x}) \in Nat
    BY <1>1, <1>7, <1>11, <2>2
  <2>4. reservations \cup admitted \in SUBSET Tasks
    BY <1>2, <1>11
  <2>. QED
    BY <1>7, <1>11, <2>2, <2>3, <2>4
<1>14. Sum(reservations \cup admitted) <= Budget
  BY <1>8, <1>9, <1>10, <1>12, <1>13
<1>. QED
  BY <1>14 DEF Sum, ReservedBytes

(* A launch reserves for a task of the pass, or reserves nothing.          *)
LEMMA LaunchReserves ==
  ASSUME TypeOK, LaunchesFit, NEW t \in todo, LaunchAdmitted(t)
  PROVE  /\ Peak' = Peak
         /\ ReservedBytes(reservations', Peak) <= Budget
         /\ ReservedBytes(reservations' \cup todo', Peak) <= Budget
<1>1. phase = "launch" /\ todo' = todo \ {t} /\ request' = request
  BY DEF LaunchAdmitted, environment
<1>2. reservations' \subseteq reservations \cup {t}
  BY DEF LaunchAdmitted, LaunchQueued
<1>3. Peak' = Peak
  BY <1>1 DEF Peak
<1>. DEFINE all == reservations \cup todo
<1>4. all \in SUBSET Tasks /\ reservations' \in SUBSET all /\ reservations' \cup todo' \in SUBSET all
  BY <1>1, <1>2 DEF TypeOK
<1>5. ReservedBytes(all, Peak) <= Budget
  BY <1>1 DEF LaunchesFit
<1>. HIDE DEF all
<1>6. ASSUME NEW part \in SUBSET all PROVE ReservedBytes(part, Peak) <= Budget
  <2>1. IsFiniteSet(Tasks) /\ Peak \in [Tasks -> Nat] /\ part \in SUBSET Tasks /\ part \subseteq all
    BY <1>4, PeakOK
  <2>2. SumFunctionOnSet(Peak, part) <= SumFunctionOnSet(Peak, all)
    BY ONLY <1>4, <2>1, SumGrows
  <2>3. SumFunctionOnSet(Peak, part) \in Nat /\ SumFunctionOnSet(Peak, all) \in Nat
    BY ONLY <1>4, <2>1, SumOK
  <2>. QED
    BY <1>5, <2>2, <2>3, BudgetAssumption DEF ReservedBytes
<1>. QED
  BY <1>3, <1>4, <1>6

LEMMA FitStep == TypeOK /\ LaunchesFit /\ [Next]_vars => LaunchesFit'
<1>. SUFFICES ASSUME TypeOK, LaunchesFit, [Next]_vars PROVE LaunchesFit'
  OBVIOUS
<1>1. CASE AdmitPass
  <2>1. PICK age \in Ages :
          LET admitted == Eligible \cap PlanAdmission(Candidates(age), Available) IN
          todo' = admitted /\ phase' = IF admitted = {} THEN "free" ELSE "launch"
    BY <1>1 DEF AdmitPass
  <2>2. reservations' = reservations /\ Peak' = Peak
    BY <1>1 DEF AdmitPass, environment, Peak
  <2>3. phase' = "launch" => ReservedBytes(reservations \cup todo', Peak) <= Budget
    BY <2>1, AdmittedFit
  <2>. QED
    BY <2>2, <2>3 DEF LaunchesFit
<1>2. ASSUME NEW t \in todo, LaunchAdmitted(t) PROVE LaunchesFit'
  <2>1. Peak' = Peak /\ ReservedBytes(reservations' \cup todo', Peak) <= Budget
    BY <1>2, LaunchReserves
  <2>. QED
    BY <2>1 DEF LaunchesFit
<1>3. CASE phase = "launch" /\ UNCHANGED <<phase, todo, stage, request, runtimes, reservations>>
  BY <1>3 DEF LaunchesFit, Peak
<1>4. CASE phase' # "launch"
  BY <1>4 DEF LaunchesFit
<1>. QED
  BY <1>1, <1>2, <1>3, <1>4, LaunchPhase DEF Crash

(* What an admission pass launches fits the budget, with all that was      *)
(* reserved before, for any budget and any mix of tasks.                   *)
THEOREM AdmissionNeverOvercommits == Spec => AdmissionFitsBudget
<1>1. Init => LaunchesFit
  BY DEF Init, LaunchesFit
<1>2. TypeOK /\ LaunchesFit /\ [Next]_vars =>
        [phase = "launch" /\ reservations' # reservations =>
           ReservedBytes(reservations', Peak) <= Budget]_vars
  <2>. SUFFICES ASSUME TypeOK, LaunchesFit, [Next]_vars, phase = "launch",
                       reservations' # reservations
                PROVE  ReservedBytes(reservations', Peak) <= Budget
    OBVIOUS
  <2>1. CASE Crash
    <3>1. reservations' = {} /\ {} \in SUBSET Tasks
      BY <2>1 DEF Crash
    <3>2. IsFiniteSet(Tasks) /\ Peak \in [Tasks -> Nat]
      BY PeakOK
    <3>3. SumFunctionOnSet(Peak, {}) = 0
      BY ONLY <3>2, SumOK
    <3>. QED
      BY <3>1, <3>3, BudgetAssumption DEF ReservedBytes
  <2>2. ASSUME NEW t \in todo, LaunchAdmitted(t)
        PROVE  ReservedBytes(reservations', Peak) <= Budget
    BY <2>2, LaunchReserves
  <2>3. ~AdmitPass
    BY DEF AdmitPass
  <2>. QED
    BY <2>1, <2>2, <2>3, LaunchPhase
<1>. QED
  BY <1>1, <1>2, FitStep, TypeCorrect, PTL DEF Spec, AdmissionFitsBudget

=============================================================================
