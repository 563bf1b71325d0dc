---------------------------- MODULE MemMuxDaemon ----------------------------
(***************************************************************************)
(* The daemon (memmuxd): the task registry, the live providers, the budget *)
(* reservations, the admission queue, the per-task worktrees and           *)
(* checkpoints, the pressure ladder, and the durable store they share.     *)
(*                                                                         *)
(* Every request handler and the whole of pump() run under one mutex.  A   *)
(* request handler is one step.  pump() is a sequence of steps that holds  *)
(* the mutex from PumpBegin to the end of its admission pass; `phase` says *)
(* how far the holder has come and is "free" when nobody holds it.         *)
(* Providers exit and write files concurrently with all of it, and the     *)
(* daemon may crash between any two steps.                                 *)
(***************************************************************************)
EXTENDS Integers, FiniteSets, Sequences, TaskLifecycle, Admission, PressureLadder

CONSTANTS
  NumTasks,      \* bound: how many tasks are ever created
  Requests,      \* what a CreateTask request carries: [priority, class]
  Budget,        \* agent_budget_bytes of the envelope, in MiB
  UsedLevels,    \* the totals a sampling tick may measure, in MiB
  AgeUnit,       \* bound: resolution of a task's age in the score
  MaxCrashes     \* bound: how many times the daemon crashes

ASSUME NumTasksAssumption == NumTasks \in Nat
ASSUME RequestsAssumption == Requests \subseteq [priority : Priorities, class : Classes]
ASSUME BudgetAssumption   == Budget \in Nat /\ UsedLevels \subseteq Nat
ASSUME BoundsAssumption   == AgeUnit \in Nat \ {0} /\ MaxCrashes \in Nat

(* Task ids sort by creation time, so the n-th task created has id n.      *)
Tasks == 1..NumTasks

VARIABLES
  (* the durable store, and what else is on disk *)
  stored,        \* the state of each task row
  checkpoint,    \* the checkpoint row and its artifact
  tree,          \* each task's worktree directory: "none", "clean" or "dirty"
  (* the daemon's memory *)
  task,          \* the state of each task in the registry
  runtimes,      \* the tasks with a RuntimeInstance
  reservations,  \* the tasks holding a budget reservation
  pending,       \* pending_admission
  reasons,       \* the tasks with a queued_reason
  worktrees,     \* the tasks with a WorktreeHandle
  samples,       \* the tasks with a memory sample
  used,          \* used_bytes
  stage,         \* pressure_stage
  (* the mutex holder *)
  phase,         \* where the holder of the mutex is
  todo,          \* the tasks its current loop has left
  ladder,        \* the pressure actions it has left
  preserved,     \* preserved_victim of the Emergency stage
  (* the providers and the environment *)
  alive,         \* the runtimes whose provider process is still running
  inTree,        \* the runtimes whose provider works in its task's worktree
  request,       \* the request that creates each task
  issued,        \* how many task ids have been handed out
  crashes        \* how many times the daemon has crashed

disk        == <<stored, checkpoint, tree>>
registry    == <<task, runtimes, reservations, pending, reasons>>
measured    == <<samples, used, stage>>
holder      == <<phase, todo, ladder, preserved>>
environment == <<request, issued, crashes>>
vars == <<stored, checkpoint, tree, task, runtimes, reservations, pending, reasons,
          worktrees, samples, used, stage, phase, todo, ladder, preserved,
          alive, inTree, request, issued, crashes>>

(* "free" and "down" aside, the phases are the loops of pump() in order:   *)
(* retire the exited, sample, classify, run the ladder, look for providers *)
(* to recycle, recycle them, plan admission, launch what was admitted.     *)
Phases == {"free", "retire", "pressure", "ladder", "triggers", "recycle",
           "admit", "launch", "down"}

(* A checkpoint is "fresh" when it was captured from the task's last       *)
(* provider, "stale" when a provider was launched since, "torn" when the   *)
(* artifact is not the one the row vouches for, "none" without a row.      *)
Checkpoints == {"none", "fresh", "stale", "torn"}

TypeOK ==
  /\ stored \in [Tasks -> TaskState \cup {Absent}]
  /\ checkpoint \in [Tasks -> Checkpoints]
  /\ tree \in [Tasks -> {"none", "clean", "dirty"}]
  /\ task \in [Tasks -> TaskState \cup {Absent}]
  /\ runtimes \in SUBSET Tasks
  /\ reservations \in SUBSET Tasks
  /\ pending \in SUBSET Tasks
  /\ reasons \in SUBSET Tasks
  /\ worktrees \in SUBSET Tasks
  /\ samples \in SUBSET Tasks
  /\ used \in Nat
  /\ stage \in Stages
  /\ phase \in Phases
  /\ todo \in SUBSET Tasks
  /\ ladder \in Seq(PressureActions)
  /\ preserved \in SUBSET Tasks
  /\ alive \in SUBSET Tasks
  /\ inTree \in SUBSET Tasks
  /\ request \in [Tasks -> Requests]
  /\ issued \in 0..NumTasks
  /\ crashes \in 0..MaxCrashes

Priority(t) == request[t].priority
Peak        == [t \in Tasks |-> PeakOf[request[t].class]]
Unlocked    == phase = "free"

Init ==
  /\ stored = [t \in Tasks |-> Absent]
  /\ checkpoint = [t \in Tasks |-> "none"]
  /\ tree = [t \in Tasks |-> "none"]
  /\ task = [t \in Tasks |-> Absent]
  /\ runtimes = {} /\ reservations = {} /\ pending = {} /\ reasons = {}
  /\ worktrees = {} /\ samples = {} /\ used = 0 /\ stage = "Normal"
  /\ phase = "free" /\ todo = {} /\ ladder = <<>> /\ preserved = {}
  /\ alive = {} /\ inTree = {}
  /\ request \in [Tasks -> Requests]
  /\ issued = 0 /\ crashes = 0

-----------------------------------------------------------------------------
(* Pieces the handlers share.                                              *)

(* The end of every handler that drives a task: the registry entry and its *)
(* row both take the new state.  Store writes are taken to succeed.        *)
SetState(t, s) ==
  /\ task' = [task EXCEPT ![t] = s]
  /\ stored' = [stored EXCEPT ![t] = s]

(* Forgets the budget.                                                     *)
ReleaseAdmissionOnly(t) ==
  /\ pending' = pending \ {t}
  /\ reasons' = reasons \ {t}
  /\ UNCHANGED reservations

ReleaseReservation(t) ==
  /\ reservations' = reservations \ {t}
  /\ pending' = pending \ {t}
  /\ reasons' = reasons \ {t}

(* The provider is stopped and its RuntimeInstance dropped.                *)
StopProvider(t) ==
  /\ runtimes' = runtimes \ {t}
  /\ alive' = alive \ {t}
  /\ inTree' = inTree \ {t}

(* install_runtime with a provider that is running in directory `inside`:  *)
(* TRUE for the task's worktree, FALSE for the repository itself.          *)
InstallRuntime(t, inside) ==
  /\ runtimes' = runtimes \cup {t}
  /\ alive' = alive \cup {t}
  /\ inTree' = IF inside THEN inTree \cup {t} ELSE inTree \ {t}

(* ensure_worktree: the handle in memory is reused; without one, a new     *)
(* branch and directory are cut, which git refuses when the directory of   *)
(* an earlier life of the daemon is still there; any refusal (that one, a  *)
(* folder that is no repository, a lock that times out) falls back to the  *)
(* repository path.                                                        *)
EnsureWorktree(t, inside) ==
  \/ /\ t \in worktrees /\ inside
     /\ UNCHANGED <<worktrees, tree>>
  \/ /\ t \notin worktrees /\ inside /\ tree[t] = "none"
     /\ worktrees' = worktrees \cup {t}
     /\ tree' = [tree EXCEPT ![t] = "clean"]
  \/ /\ t \notin worktrees /\ ~inside
     /\ UNCHANGED <<worktrees, tree>>

(* Cleans up with `--force`.                                               *)
CleanupWorktreeForced(t) ==
  \/ /\ t \notin worktrees
     /\ UNCHANGED <<worktrees, tree>>
  \/ /\ t \in worktrees
     /\ worktrees' = worktrees \ {t}
     /\ tree' = [tree EXCEPT ![t] = "none"]

(* cleanup_worktree: the handle is dropped in every case; a dirty tree is  *)
(* retained, a clean one removed unless `git worktree remove` fails.       *)
CleanupWorktree(t) ==
  \/ /\ t \notin worktrees
     /\ UNCHANGED <<worktrees, tree>>
  \/ /\ t \in worktrees
     /\ worktrees' = worktrees \ {t}
     /\ \/ tree[t] = "clean" /\ tree' = [tree EXCEPT ![t] = "none"]
        \/ UNCHANGED tree

(* persist_checkpoint: first the artifact, then the row that vouches for   *)
(* it with its integrity hash.                                             *)
PersistCheckpoint(t) == checkpoint' = [checkpoint EXCEPT ![t] = "fresh"]

(* ... and its error returns: before the artifact was written, or between  *)
(* the two writes.                                                         *)
PersistCheckpointFails(t) ==
  \/ UNCHANGED checkpoint
  \/ checkpoint' = [checkpoint EXCEPT ![t] = IF @ = "none" THEN "none" ELSE "torn"]

(* load_checkpoint succeeds: a row, an artifact, and equal integrity.      *)
CheckpointLoads(t) == checkpoint[t] \in {"fresh", "stale"}

(* A launch makes an earlier checkpoint the checkpoint of an old provider. *)
AgeCheckpoint(t) ==
  checkpoint' = [checkpoint EXCEPT ![t] = IF @ = "fresh" THEN "stale" ELSE @]

(* launch_queued, from a task that is in state s: cut the worktree, spawn  *)
(* the provider there; reserve its peak on success, fail the task on error.*)
LaunchQueued(t, s) ==
  \E inside \in BOOLEAN :
    /\ EnsureWorktree(t, inside)
    /\ \/ /\ SetState(t, LaunchWalk(s))
          /\ InstallRuntime(t, inside)
          /\ AgeCheckpoint(t)
          /\ reservations' = reservations \cup {t}
       \/ /\ SetState(t, LaunchFailWalk(s))
          /\ UNCHANGED <<runtimes, alive, inTree, checkpoint, reservations>>

-----------------------------------------------------------------------------
(* Request handlers.                                                       *)

(* CreateTask: the task is queued, durably.                                *)
CreateTask ==
  /\ Unlocked /\ issued < NumTasks
  /\ issued' = issued + 1
  /\ SetState(issued + 1, Transition("Created", "Queued"))
  /\ UNCHANGED <<checkpoint, tree, runtimes, reservations, pending, reasons, worktrees,
                 measured, holder, alive, inTree, request, crashes>>

(* StartTask: register the intent, then run an admission pass (the mutex   *)
(* stays held through the "admit" and "launch" phases).                    *)
StartTask(t) ==
  /\ Unlocked /\ task[t] = "Queued" /\ t \notin runtimes
  /\ pending' = pending \cup {t}
  /\ phase' = "admit"
  /\ UNCHANGED <<disk, task, runtimes, reservations, reasons, worktrees, measured,
                 todo, ladder, preserved, alive, inTree, environment>>

(* Relaunches whatever the registry still knows.                           *)
RestartUnchecked(t) ==
  /\ Unlocked /\ t \notin runtimes /\ task[t] # Absent
  /\ LaunchQueued(t, "Queued")
  /\ UNCHANGED <<pending, reasons, measured, holder, environment>>

(* RestartTask: requeue and launch at once.  The handler neither asks the  *)
(* planner nor touches pending_admission.                                  *)
RestartTask(t) ==
  /\ Unlocked /\ t \notin runtimes
  /\ task[t] \notin {Absent, "Terminated"}
  /\ ForceRequeue(task[t]) = "Queued"
  /\ LaunchQueued(t, "Queued")
  /\ reasons' = IF t \in runtimes' THEN reasons \ {t} ELSE reasons
  /\ UNCHANGED <<pending, measured, holder, environment>>

(* ForgetTask: only a task that failed or was torn down.  Its budget entry *)
(* and its worktree handle are not looked at.                              *)
ForgetTask(t) ==
  /\ Unlocked /\ t \notin runtimes
  /\ task[t] \in {"Failed", "Terminated"}
  /\ SetState(t, Absent)
  /\ checkpoint' = [checkpoint EXCEPT ![t] = "none"]
  /\ UNCHANGED <<tree, runtimes, reservations, pending, reasons, worktrees, measured,
                 holder, alive, inTree, environment>>

(* terminate, called by the request and by the Emergency stage: reap the   *)
(* subtree, stop the provider, tear down the worktree, release the budget. *)
Terminate(t) ==
  /\ task[t] # Absent
  /\ StopProvider(t)
  /\ CleanupWorktree(t)
  /\ ReleaseReservation(t)
  /\ samples' = samples \ {t}
  /\ SetState(t, TerminateWalk(task[t]))
  /\ UNCHANGED checkpoint

TerminateTask(t) ==
  /\ Unlocked
  /\ Terminate(t)
  /\ UNCHANGED <<used, stage, holder, environment>>

(* Stops the provider before the checkpoint is known to be on disk.        *)
HibernateUnchecked(t) ==
  /\ t \in runtimes /\ AtSafePoint(task[t])
  /\ PersistCheckpoint(t) \/ PersistCheckpointFails(t)
  /\ StopProvider(t)
  /\ ReleaseReservation(t)
  /\ SetState(t, HibernateWalk(task[t]))

(* hibernate: persist a checkpoint, or give up with the task untouched;    *)
(* then stop the provider, release its budget and freeze the task.         *)
Hibernate(t) ==
  /\ t \in runtimes /\ AtSafePoint(task[t])
  /\ \/ /\ PersistCheckpoint(t)
        /\ StopProvider(t)
        /\ ReleaseReservation(t)
        /\ SetState(t, HibernateWalk(task[t]))
     \/ /\ PersistCheckpointFails(t)
        /\ UNCHANGED <<stored, registry, alive, inTree>>

HibernateTask(t) ==
  /\ Unlocked
  /\ Hibernate(t)
  /\ UNCHANGED <<tree, worktrees, measured, holder, environment>>

(* ResumeTask: relaunch from the checkpoint, reserve again, consume the    *)
(* checkpoint.  When the checkpoint does not load or the relaunch fails    *)
(* the handler returns with nothing changed.                               *)
ResumeTask(t) ==
  /\ Unlocked /\ task[t] = "Hibernated"
  /\ CheckpointLoads(t)
  /\ InstallRuntime(t, t \in worktrees)
  /\ SetState(t, ResumeWalk(task[t]))
  /\ reservations' = reservations \cup {t}
  /\ checkpoint' = [checkpoint EXCEPT ![t] = "none"]
  /\ UNCHANGED <<tree, worktrees, pending, reasons, measured, holder, environment>>

(* Relaunches in the repository.                                           *)
RecycleInRepository(t) ==
  /\ t \in runtimes /\ AtSafePoint(task[t])
  /\ \/ /\ PersistCheckpointFails(t)
        /\ UNCHANGED <<stored, task, runtimes, alive, inTree>>
     \/ /\ InstallRuntime(t, FALSE)
        /\ SetState(t, RecycleWalk(task[t]))
        /\ checkpoint' = [checkpoint EXCEPT ![t] = "none"]
     \/ /\ StopProvider(t)
        /\ SetState(t, RecycleFailWalk(task[t]))
        /\ PersistCheckpoint(t)
  /\ UNCHANGED <<reservations, pending, reasons>>

(* recycle: persist a checkpoint or give up; stop the provider and         *)
(* relaunch it from the checkpoint, which is then consumed; when the       *)
(* relaunch fails the task is Failed, the checkpoint is kept, and the      *)
(* reservation is not released.                                            *)
Recycle(t) ==
  /\ t \in runtimes /\ AtSafePoint(task[t])
  /\ \/ /\ PersistCheckpointFails(t)
        /\ UNCHANGED <<stored, task, runtimes, alive, inTree>>
     \/ /\ InstallRuntime(t, t \in worktrees)
        /\ SetState(t, RecycleWalk(task[t]))
        /\ checkpoint' = [checkpoint EXCEPT ![t] = "none"]
     \/ /\ StopProvider(t)
        /\ SetState(t, RecycleFailWalk(task[t]))
        /\ PersistCheckpoint(t)
  /\ UNCHANGED <<reservations, pending, reasons>>

RecycleTask(t) ==
  /\ Unlocked
  /\ Recycle(t)
  /\ UNCHANGED <<tree, worktrees, measured, holder, environment>>

-----------------------------------------------------------------------------
(* pump(): retire, sample, pressure ladder, recycle triggers, admission.   *)
(* The three throttled ticks may find their interval not yet over.         *)

(* Finds nobody dead.                                                      *)
PumpBeginBlind ==
  /\ Unlocked
  /\ phase' = "retire"
  /\ todo' = {}
  /\ UNCHANGED <<disk, registry, worktrees, measured, ladder, preserved, alive, inTree,
                 environment>>

(* The providers found dead are collected once, before any is retired.     *)
PumpBegin ==
  /\ Unlocked
  /\ phase' = "retire"
  /\ todo' = runtimes \ alive
  /\ UNCHANGED <<disk, registry, worktrees, measured, ladder, preserved, alive, inTree,
                 environment>>

(* Leaves the budget of the dead provider reserved.                        *)
RetireKeepingReservation(t) ==
  /\ phase = "retire" /\ t \in todo
  /\ todo' = todo \ {t}
  /\ StopProvider(t)
  /\ CleanupWorktree(t)
  /\ ReleaseAdmissionOnly(t)
  /\ samples' = samples \ {t}
  /\ SetState(t, TerminateWalk(task[t]))
  /\ UNCHANGED <<checkpoint, used, stage, phase, ladder, preserved, environment>>

(* One provider that exited on its own: reap what it left, terminate its   *)
(* task, tear down its worktree, release its budget.                       *)
RetireExited(t) ==
  /\ phase = "retire" /\ t \in todo
  /\ todo' = todo \ {t}
  /\ Terminate(t)
  /\ UNCHANGED <<used, stage, phase, ladder, preserved, environment>>

(* sample_tick: with no provider everything measured is cleared; otherwise *)
(* each one is sampled and their total becomes used_bytes.  The tick is    *)
(* skipped when throttled or when the process snapshot fails.              *)
SampleTick ==
  /\ phase = "retire" /\ todo = {}
  /\ phase' = "pressure"
  /\ \/ UNCHANGED <<samples, used>>
     \/ /\ samples' = runtimes
        /\ IF runtimes = {} THEN used' = 0 ELSE used' \in UsedLevels
  /\ UNCHANGED <<disk, registry, worktrees, stage, todo, ladder, preserved, alive, inTree,
                 environment>>

(* pressure_tick: classify, and above Normal line up the stage's actions.  *)
PressureTick ==
  /\ phase = "pressure"
  /\ \/ /\ UNCHANGED <<stage, ladder>>
        /\ phase' = "triggers"
     \/ \E swapGrowing \in BOOLEAN :
          /\ stage' = Classify(used, Budget, swapGrowing)
          /\ phase' = IF stage' = "Normal" THEN "triggers" ELSE "ladder"
          /\ ladder' = IF stage' = "Normal" THEN <<>> ELSE Actions(stage')
  /\ UNCHANGED <<disk, registry, worktrees, samples, used, todo, preserved, alive, inTree,
                 environment>>

(* The task that pressure takes first: the lowest priority, then the       *)
(* oldest, then the smallest id.                                           *)
FirstVictim(t, candidates) ==
  /\ t \in candidates
  /\ \A u \in candidates :
       \/ PriorityRank[Priority(t)] < PriorityRank[Priority(u)]
       \/ PriorityRank[Priority(t)] = PriorityRank[Priority(u)] /\ t <= u

LadderAt(action) == phase = "ladder" /\ ladder # <<>> /\ Head(ladder) = action

(* apply_pressure_stage's loop: the next action is the next step.          *)
LadderNext == ladder' = Tail(ladder) /\ UNCHANGED phase

(* act_hibernate_low_priority: at most one task per tick.                  *)
HibernateLowPriority ==
  LET candidates == {t \in runtimes : AtSafePoint(task[t])} IN
  /\ LadderAt("HibernateLowPriority")
  /\ LadderNext
  /\ \/ /\ candidates = {}
        /\ UNCHANGED <<disk, registry, alive, inTree, worktrees>>
     \/ /\ \E t \in candidates : FirstVictim(t, candidates) /\ Hibernate(t)
        /\ UNCHANGED <<tree, worktrees>>
  /\ UNCHANGED <<measured, todo, preserved, environment>>

(* act_recycle_bloated: the largest sample that still has a runtime (which *)
(* one is largest is open), and only if it is at a safe point.             *)
RecycleBloated ==
  /\ LadderAt("RecycleBloatedProviders")
  /\ LadderNext
  /\ \/ /\ \/ samples \cap runtimes = {}
           \/ \E t \in samples \cap runtimes : ~AtSafePoint(task[t])
        /\ UNCHANGED <<disk, registry, alive, inTree, worktrees>>
     \/ /\ \E t \in samples \cap runtimes : Recycle(t)
        /\ UNCHANGED <<tree, worktrees>>
  /\ UNCHANGED <<measured, todo, preserved, environment>>

(* Names a victim even when its checkpoint could not be persisted.         *)
PreserveGitStateUnchecked ==
  /\ LadderAt("PreserveGitState")
  /\ LadderNext
  /\ \/ runtimes = {} /\ preserved' = {} /\ UNCHANGED checkpoint
     \/ \E t \in runtimes :
          /\ FirstVictim(t, runtimes)
          /\ PersistCheckpoint(t) \/ PersistCheckpointFails(t)
          /\ preserved' = {t}
  /\ UNCHANGED <<stored, tree, registry, worktrees, measured, todo, alive, inTree, environment>>

(* act_preserve_git_state: checkpoint the victim; only a persisted         *)
(* checkpoint names it for termination.                                    *)
PreserveGitState ==
  /\ LadderAt("PreserveGitState")
  /\ LadderNext
  /\ \/ runtimes = {} /\ preserved' = {} /\ UNCHANGED checkpoint
     \/ \E t \in runtimes :
          /\ FirstVictim(t, runtimes)
          /\ \/ PersistCheckpoint(t) /\ preserved' = {t}
             \/ PersistCheckpointFails(t) /\ preserved' = {}
  /\ UNCHANGED <<stored, tree, registry, worktrees, measured, todo, alive, inTree, environment>>

(* TerminateLowestPriorityTree: consumes preserved_victim, if there is one.*)
TerminateVictim ==
  /\ LadderAt("TerminateLowestPriorityTree")
  /\ LadderNext
  /\ preserved' = {}
  /\ \/ /\ preserved = {}
        /\ UNCHANGED <<disk, registry, alive, inTree, worktrees, samples>>
     \/ \E t \in preserved : Terminate(t)
  /\ UNCHANGED <<used, stage, todo, environment>>

(* The actions that touch none of this state: the advisory ones, the       *)
(* operator notice, the passive low-priority block, and the reclaiming of  *)
(* escaped processes, which concerns processes no longer in any subtree.   *)
LadderAdvisory ==
  /\ phase = "ladder" /\ ladder # <<>>
  /\ Head(ladder) \notin {"HibernateLowPriority", "RecycleBloatedProviders",
                          "PreserveGitState", "TerminateLowestPriorityTree"}
  /\ LadderNext
  /\ UNCHANGED <<disk, registry, worktrees, measured, todo, preserved, alive, inTree,
                 environment>>

LadderDone ==
  /\ phase = "ladder" /\ ladder = <<>>
  /\ phase' = "triggers"
  /\ UNCHANGED <<disk, registry, worktrees, measured, todo, ladder, preserved, alive, inTree,
                 environment>>

(* check_recycle_triggers: collect the providers over their threshold (any *)
(* of the live ones, or none when throttled), then recycle each in turn.   *)
RecycleTriggers ==
  /\ phase = "triggers"
  /\ phase' = "recycle"
  /\ todo' \in SUBSET runtimes
  /\ UNCHANGED <<disk, registry, worktrees, measured, ladder, preserved, alive, inTree,
                 environment>>

(* recycle() checks the runtime and the safe point again.                  *)
RecycleTriggered(t) ==
  /\ phase = "recycle" /\ t \in todo
  /\ todo' = todo \ {t}
  /\ \/ Recycle(t)
     \/ /\ ~(t \in runtimes /\ AtSafePoint(task[t]))
        /\ UNCHANGED <<stored, checkpoint, registry, alive, inTree>>
  /\ UNCHANGED <<tree, worktrees, measured, phase, ladder, preserved, environment>>

RecycleDoneWithoutAdmission ==
  /\ phase = "recycle" /\ todo = {}
  /\ phase' = "free"
  /\ UNCHANGED <<disk, registry, worktrees, measured, todo, ladder, preserved, alive, inTree,
                 environment>>

RecycleDone ==
  /\ phase = "recycle" /\ todo = {}
  /\ phase' = "admit"
  /\ UNCHANGED <<disk, registry, worktrees, measured, todo, ladder, preserved, alive, inTree,
                 environment>>

-----------------------------------------------------------------------------
(* try_admit_pending, called by StartTask and at the end of pump().        *)

StillWaiting == {t \in pending : task[t] = "Queued" /\ t \notin runtimes}

(* Holds nothing.                                                          *)
HeldNever == {}

(* Low-priority starts are held under High pressure and above.             *)
Held == {t \in StillWaiting : Priority(t) = "Low" /\ AtLeast(stage, "High")}

Eligible == StillWaiting \ Held

(* The ages an admission pass may read, in AgeUnit-ths of the normaliser:  *)
(* a task created earlier is never younger.                                *)
Ages == {age \in [Tasks -> 0..AgeUnit] : \A t, u \in Tasks : t < u => age[t] >= age[u]}

Candidates(age) ==
  {[id |-> t, peak |-> Peak[t],
    score |-> Score(Priority(t), age[t], Peak[t], AgeUnit, Budget)] : t \in Eligible}

(* Plans against the whole budget.                                         *)
AvailableIgnoringReservations == Budget

(* What the reservations leave of the budget.                              *)
Available == Headroom(Budget, ReservedBytes(reservations, Peak))

(* Nothing is said about the tasks that did not fit.                       *)
AdmitPassSilently ==
  /\ phase = "admit"
  /\ \E age \in Ages :
       LET admitted == Eligible \cap PlanAdmission(Candidates(age), Available) IN
       /\ todo' = admitted
       /\ phase' = IF admitted = {} THEN "free" ELSE "launch"
       /\ reasons' = (reasons \ (pending \ StillWaiting)) \cup Held
  /\ pending' = StillWaiting
  /\ UNCHANGED <<disk, task, runtimes, reservations, worktrees, measured, ladder, preserved,
                 alive, inTree, environment>>

(* Prune what no longer waits, hold low-priority starts under pressure,    *)
(* plan the rest against the headroom; the deferred get a reason.          *)
AdmitPass ==
  /\ phase = "admit"
  /\ \E age \in Ages :
       LET admitted == Eligible \cap PlanAdmission(Candidates(age), Available) IN
       /\ todo' = admitted
       /\ phase' = IF admitted = {} THEN "free" ELSE "launch"
       /\ reasons' = (reasons \ (pending \ StillWaiting)) \cup Held \cup (Eligible \ admitted)
  /\ pending' = StillWaiting
  /\ UNCHANGED <<disk, task, runtimes, reservations, worktrees, measured, ladder, preserved,
                 alive, inTree, environment>>

(* Each admitted task is launched; it leaves the queue even when its       *)
(* launch fails.                                                           *)
LaunchAdmitted(t) ==
  /\ phase = "launch" /\ t \in todo
  /\ LaunchQueued(t, task[t])
  /\ pending' = pending \ {t}
  /\ reasons' = reasons \ {t}
  /\ todo' = todo \ {t}
  /\ phase' = IF todo' = {} THEN "free" ELSE "launch"
  /\ UNCHANGED <<measured, ladder, preserved, environment>>

-----------------------------------------------------------------------------
(* Providers, and the life of the daemon process.                          *)

(* A provider exits on its own; the daemon learns of it in pump().         *)
ProviderExits(t) ==
  /\ t \in alive
  /\ alive' = alive \ {t}
  /\ UNCHANGED <<disk, registry, worktrees, measured, holder, inTree, environment>>

(* A provider working in its worktree leaves uncommitted changes there, or *)
(* commits them.                                                           *)
ProviderEdits(t) ==
  /\ t \in alive \cap inTree
  /\ tree' = [tree EXCEPT ![t] = IF @ = "dirty" THEN "clean" ELSE "dirty"]
  /\ UNCHANGED <<stored, checkpoint, registry, worktrees, measured, holder, alive, inTree,
                 environment>>

(* The process dies at any moment, in the middle of pump() too; everything *)
(* that was only in memory is gone and the PTYs of the providers close.    *)
Crash ==
  /\ phase # "down" /\ crashes < MaxCrashes
  /\ crashes' = crashes + 1
  /\ phase' = "down"
  /\ task' = [t \in Tasks |-> Absent]
  /\ runtimes' = {} /\ reservations' = {} /\ pending' = {} /\ reasons' = {}
  /\ worktrees' = {} /\ samples' = {} /\ used' = 0 /\ stage' = "Normal"
  /\ todo' = {} /\ ladder' = <<>> /\ preserved' = {}
  /\ alive' = {} /\ inTree' = {}
  /\ UNCHANGED <<disk, request, issued>>

(* Recovers only what may still run.                                       *)
BootResumable ==
  /\ phase = "down"
  /\ phase' = "free"
  /\ task' = [t \in {u \in Tasks : ~IsTerminal(stored[u])} |-> stored[t]]
  /\ UNCHANGED <<disk, runtimes, reservations, pending, reasons, worktrees, measured,
                 todo, ladder, preserved, alive, inTree, environment>>

(* boot: the tasks come back in the state their rows have; nothing else of *)
(* the registry is reconstructed.                                          *)
Boot ==
  /\ phase = "down"
  /\ phase' = "free"
  /\ task' = stored
  /\ UNCHANGED <<disk, runtimes, reservations, pending, reasons, worktrees, measured,
                 todo, ladder, preserved, alive, inTree, environment>>

-----------------------------------------------------------------------------
RequestStep ==
  \/ CreateTask
  \/ \E t \in Tasks :
       \/ StartTask(t) \/ RestartTask(t) \/ ForgetTask(t) \/ TerminateTask(t)
       \/ HibernateTask(t) \/ ResumeTask(t) \/ RecycleTask(t)

LadderStep ==
  \/ HibernateLowPriority \/ RecycleBloated \/ PreserveGitState \/ TerminateVictim
  \/ LadderAdvisory \/ LadderDone

(* The steps of whoever holds the mutex.                                   *)
HolderStep ==
  \/ SampleTick \/ PressureTick \/ LadderStep \/ RecycleTriggers \/ RecycleDone \/ AdmitPass
  \/ \E t \in Tasks : RetireExited(t) \/ RecycleTriggered(t) \/ LaunchAdmitted(t)

ProviderStep == \E t \in Tasks : ProviderExits(t) \/ ProviderEdits(t)

Next == RequestStep \/ PumpBegin \/ HolderStep \/ ProviderStep \/ Crash \/ Boot

Spec == Init /\ [][Next]_vars

-----------------------------------------------------------------------------
(* Invariants.                                                             *)

(* Everything that runs is paid for: a task with a live provider is Active *)
(* and holds a reservation, whichever of start, restart, resume, recycle   *)
(* or the pump installed the provider.  The admission planner's headroom   *)
(* is only as good as this.                                                *)
LiveIsReserved ==
  \A t \in runtimes : task[t] = "Active" /\ t \in reservations

(* A task whose row says Hibernated can be brought back: its checkpoint is *)
(* on disk, intact, and was captured from its last provider, not from one  *)
(* before a restart; and it holds no provider and no budget.  This has to  *)
(* survive a crash, a partly failed checkpoint and a restart in between.   *)
HibernatedIsRestorable ==
  \A t \in Tasks : stored[t] = "Hibernated" =>
    checkpoint[t] = "fresh" /\ t \notin runtimes /\ t \notin reservations

(* Budget is held for nothing else than a live provider, except after a    *)
(* recycle whose relaunch failed: its reservation stays with the failed    *)
(* task and, when that is forgotten, with no task at all.  No other path - *)
(* a death noticed late, a hibernation under pressure, a restart, a crash  *)
(* - leaks budget.                                                         *)
LeaksOnlyByFailedRecycle ==
  \A t \in reservations \ runtimes : task[t] \in {"Failed", Absent}

(* capture_checkpoint hashes the directory of the task's worktree handle,  *)
(* or the repository when there is none.  That is the directory in which   *)
(* the provider works, and a worktree handle always has its directory.     *)
CheckpointSeesTheWork ==
  /\ inTree = runtimes \cap worktrees
  /\ \A t \in worktrees : tree[t] # "none"

(* A start request that could not be honoured stays explained: a queued    *)
(* task in the admission queue shows a reason, and no task outside the     *)
(* queue shows one.                                                        *)
DeferralIsExplained ==
  /\ reasons \subseteq pending
  /\ Unlocked => \A t \in pending : task[t] = "Queued" => t \in reasons

-----------------------------------------------------------------------------
(* Action properties.                                                      *)

(* No step of the daemon deletes a worktree with uncommitted changes, also *)
(* not the teardown of a task it terminates under memory pressure or whose *)
(* provider died, nor anything after a crash.                              *)
DirtyWorkSurvives ==
  [][\A t \in Tasks : tree[t] = "dirty" => tree'[t] # "none"]_vars

(* What an admission pass launches fits: the reservations it adds, with    *)
(* all those already held, stay within the budget, whatever mix of         *)
(* priorities, ages and classes was waiting.                               *)
AdmissionFitsBudget ==
  [][phase = "launch" /\ reservations' # reservations =>
       ReservedBytes(reservations', Peak) <= Budget]_vars

(* From High pressure up, no low-priority task is started by an admission  *)
(* pass, also not one queued before the pressure rose.                     *)
LowPriorityIsHeld ==
  [][\A t \in runtimes' \ runtimes :
       phase = "launch" /\ Priority(t) = "Low" => ~AtLeast(stage, "High")]_vars

(* When the ladder takes a provider down it is the one of lowest priority, *)
(* and its state was checkpointed: a task terminated or frozen under       *)
(* pressure has a fresh checkpoint.  (A recycle may take any provider.)    *)
LadderSparesWork ==
  [][\A t \in runtimes \ runtimes' :
       phase = "ladder" /\ Head(ladder) # "RecycleBloatedProviders" /\ phase' # "down" =>
         /\ checkpoint'[t] = "fresh"
         /\ \A u \in runtimes : PriorityRank[Priority(t)] <= PriorityRank[Priority(u)]]_vars

(* Torn down is for good: a task whose row says Terminated never comes     *)
(* back to life, only out of the store, also across crashes.               *)
TerminatedIsFinal ==
  [][\A t \in Tasks : stored[t] = "Terminated" => stored'[t] \in {"Terminated", Absent}]_vars

-----------------------------------------------------------------------------
(* What comments of the source promise and the code does not keep.         *)

(* daemon.rs: an entry of the reservations ledger is "added on launch and  *)
(* removed on hibernate/terminate/exit", one per running task.             *)
OnlyRunningTasksReserve == Unlocked => reservations \subseteq runtimes

(* recycle's rollback: "fail the task but retain the checkpoint (no lost   *)
(* work - the user can resume later)".                                     *)
RolledBackRecycleResumes ==
  \A t \in Tasks :
    Unlocked /\ task[t] = "Failed" /\ checkpoint[t] = "fresh" => ENABLED ResumeTask(t)

(* reservation.rs: capacity is set aside for a task before it launches,    *)
(* "so admission never over-commits the host".                             *)
NeverOverCommitted == ReservedBytes(reservations, Peak) <= Budget

(* relaunch_from_checkpoint: "Resume/recycle into the same isolated        *)
(* worktree the task was launched in".  A relaunch is the step that        *)
(* consumes a checkpoint and leaves a live provider.                       *)
ResumesInItsWorktree ==
  [][\A t \in Tasks :
       /\ checkpoint[t] # "none" /\ checkpoint'[t] = "none"
       /\ t \in runtimes' /\ tree[t] # "none"
       => t \in inTree']_vars

=============================================================================
