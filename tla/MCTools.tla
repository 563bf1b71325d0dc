------------------------------ MODULE MCTools ------------------------------
(***************************************************************************)
(* What works beside the daemon's tasks, for TLC: the planner's queue, the *)
(* completion of worktrees, the tiling of the panes, the requests on the   *)
(* daemon's socket, the store's tables, the benchmark and its stub agent,  *)
(* the snapshots of processes that daemon and benchmark read, and the      *)
(* update of the binaries.  These share no state with each other, so one   *)
(* run explores each on its own: the initial state picks the part that     *)
(* steps.                                                                  *)
(***************************************************************************)
EXTENDS AdmissionQueue, WorktreeCompletion, PaneTree, BenchVerdict, RequestProtocol,
        StubAgent, ProcessAccounting, TaskStore, SelfUpdate

VARIABLE toolsPart

toolsVars == <<queueVars, completionVars, treeVars, benchVars, protocolVars, stubVars,
               accountingVars, storeVars, updateVars, toolsPart>>

(* Where the daemon and the providers are among five pids: a child of the  *)
(* second provider may be read before it or after it.                      *)
Layout == <<3, [t \in Owners |-> IF t = CHOOSE u \in Owners : TRUE THEN 4 ELSE 1]>>

(* No two sets of processes take the same memory.                          *)
PidSizes == [p \in 1..MaxPid |-> 2 ^ p]

(* One state to start from where another part is explored.  (Which of the  *)
(* targets is checked out at first makes no difference: they are alike.)   *)
Pinned(part, value, values) == toolsPart # part => value = CHOOSE v \in values : TRUE

ToolsInit ==
  /\ toolsPart \in {"planner", "completion", "panetree", "bench", "requests", "stub",
                   "accounting", "store", "update"}
  /\ QueueInit /\ Pinned("planner", available, Budgets)
  /\ CompletionInit /\ checkout = CHOOSE branch \in MergeTargets : TRUE
  /\ TreeInit /\ Pinned("panetree", grid, Areas)
  /\ BenchInit /\ Pinned("bench", plan, Plans)
  /\ ProtocolInit /\ Pinned("requests", store, Starts)
  /\ StubInit /\ Pinned("stub", script, Scripts)
  /\ AccountingInit /\ <<manager, providers>> = Layout /\ StoreInit
  /\ UpdateInit

ToolsNext ==
  /\ UNCHANGED toolsPart
  /\ \/ /\ toolsPart = "planner" /\ QueueNext
        /\ UNCHANGED <<completionVars, treeVars, benchVars, protocolVars, stubVars, accountingVars,
                       storeVars, updateVars>>
     \/ /\ toolsPart = "completion" /\ CompletionNext
        /\ UNCHANGED <<queueVars, treeVars, benchVars, protocolVars, stubVars, accountingVars,
                       storeVars, updateVars>>
     \/ /\ toolsPart = "panetree" /\ TreeNext
        /\ UNCHANGED <<queueVars, completionVars, benchVars, protocolVars, stubVars, accountingVars,
                       storeVars, updateVars>>
     \/ /\ toolsPart = "bench" /\ BenchNext
        /\ UNCHANGED <<queueVars, completionVars, treeVars, protocolVars, stubVars, accountingVars,
                       storeVars, updateVars>>
     \/ /\ toolsPart = "requests" /\ ProtocolNext
        /\ UNCHANGED <<queueVars, completionVars, treeVars, benchVars, stubVars, accountingVars,
                       storeVars, updateVars>>
     \/ /\ toolsPart = "stub" /\ StubNext
        /\ UNCHANGED <<queueVars, completionVars, treeVars, benchVars, protocolVars, accountingVars,
                       storeVars, updateVars>>
     \/ /\ toolsPart = "accounting" /\ AccountingNext
        /\ UNCHANGED <<queueVars, completionVars, treeVars, benchVars, protocolVars, stubVars,
                       storeVars, updateVars>>
     \/ /\ toolsPart = "store" /\ StoreNext
        /\ UNCHANGED <<queueVars, completionVars, treeVars, benchVars, protocolVars, stubVars,
                       accountingVars, updateVars>>
     \/ /\ toolsPart = "update" /\ UpdateNext
        /\ UNCHANGED <<queueVars, completionVars, treeVars, benchVars, protocolVars, stubVars,
                       accountingVars, storeVars>>

ToolsSpec == ToolsInit /\ [][ToolsNext]_toolsVars

-----------------------------------------------------------------------------
SmallBudgets == {0, 600, 1320, 2600, 4000}
MixedKinds ==
  {<<"Low", "Small">>, <<"Normal", "Small">>, <<"Normal", "Standard">>,
   <<"High", "BrowserHeavy">>, <<"Urgent", "BuildHeavy">>}

SmallGrid == {[w |-> 5, h |-> 4]}

BenchCell(launcher, agents, scenario, rounds) ==
  [launcher |-> launcher, agents |-> agents, scenario |-> scenario, samples |-> rounds, trials |-> 1]
Twice(cell) == [cell EXCEPT !.trials = 2]
SmallPlans ==
  {<<BenchCell("raw", 2, "escape", 1)>>,
   <<BenchCell("tmux", 1, "escape", 1), BenchCell("tmux", 1, "escape", 1)>>,
   <<BenchCell("herdr", 1, "escape", 1), BenchCell("herdr", 1, "hold", 1),
     BenchCell("external", 2, "hold", 1)>>,
   <<BenchCell("memmux", 2, "overcommit", 1)>>,
   <<Twice(BenchCell("memmux", 1, "overcommit", 1))>>,
   <<BenchCell("memmux", 1, "escape", 1)>>,
   <<BenchCell("memmux", 1, "soak", 2), BenchCell("memmux", 1, "hold", 1)>>}
SmallEventStreams ==
  {<<>>, <<"deferred", "preserve_dirty", "terminate">>, <<"preserve_clean", "terminate">>}


FewRounds == [burst |-> 3, soak |-> 4, idle |-> 2, leak |-> 3]
SmallSteps == {Allocate(3), Free(2), Emit(2, 0), Leak(1, 2), SpawnChild(1), Orphan}
SmallScripts ==
  {ScriptOf(s, "Generic", 1, 120) :
     s \in {"burst", "soak", "idle", "leak", "hold", "escape", "overcommit"}}
  \cup [base : {1}, steps : [1..3 -> SmallSteps]]

=============================================================================
