-------------------------- MODULE ProcessOwnership --------------------------
(***************************************************************************)
(* The processes of the running tasks as the operating system sees them,   *)
(* and what the daemon does about them: sampling the tree, recording whom  *)
(* it saw under each provider, flagging the escaped, and ending a subtree  *)
(* when a task is terminated, hibernated or recycled, when its provider    *)
(* exits, or under pressure.  A daemon operation holds the daemon's lock   *)
(* from its first step to its last; processes fork and exit in between.    *)
(***************************************************************************)
EXTENDS Integers, Sequences, FiniteSets, SequencesExt, Functions

CONSTANTS
  RunTasks,       \* the tasks
  Pids,           \* the process ids the system hands out; they are reused
  None,           \* no pid, no task
  MaxSnapshotFailures,  \* bound: snapshots that fail while survivors are to be killed
  MaxStarts       \* bound: processes ever started

InitPid   == "init"     \* adopts orphans
DaemonPid == "daemon"   \* parent of every provider
Foreign   == "foreign"  \* owner of the processes that are none of ours

ASSUME OwnershipAssumption ==
  /\ IsFiniteSet(Pids) /\ {None, InitPid, DaemonPid} \cap Pids = {}
  /\ RunTasks \cap {None, Foreign} = {} /\ MaxSnapshotFailures \in Nat /\ MaxStarts \in Nat

VARIABLES
  process,     \* per pid: absent, alive or a zombie; parent, true owner, terminal, sampled
  root,        \* runtimes: the provider's pid of each task, or None
  seenPids,    \* DaemonState::seen_pids
  escaped,     \* DaemonState::escaped_reported
  daemon,      \* the operation in progress: its task, pid, targets and remaining steps
  unnoticed,   \* pids whose process of the task ended and was not missed by a sample since
  unsafeStops, \* tasks stopped by hibernate, or whose reaping had no snapshot
  snapshotFailures, starts

ownVars == <<process, root, seenPids, escaped, daemon, unnoticed, unsafeStops, snapshotFailures,
             starts>>

NoProcess == [status |-> "absent", parent |-> InitPid, owner |-> Foreign, tty |-> FALSE,
           sampled |-> FALSE]
Idle   == [task |-> None, pid |-> None, targets |-> {}, under |-> {}, steps |-> <<>>]

Steps == {"target", "verify", "kill", "killAndForget", "killEscaped", "close", "join", "relaunch"}

OwnershipTypeOK ==
  /\ process \in [Pids -> [status : {"absent", "alive", "zombie"},
                           parent : Pids \cup {InitPid, DaemonPid},
                           owner : RunTasks \cup {Foreign}, tty : BOOLEAN, sampled : BOOLEAN]]
  /\ root \in [RunTasks -> Pids \cup {None}]
  /\ seenPids \in [RunTasks -> SUBSET Pids] /\ unnoticed \in [RunTasks -> SUBSET Pids]
  /\ escaped \subseteq Pids /\ unsafeStops \subseteq RunTasks
  /\ daemon \in [task : RunTasks \cup {None}, pid : Pids \cup {None}, targets : SUBSET Pids,
                 under : SUBSET Pids, steps : Seq(Steps)]
  /\ snapshotFailures \in 0..MaxSnapshotFailures /\ starts \in 0..MaxStarts

OwnershipInit ==
  /\ process = [p \in Pids |-> NoProcess]
  /\ root = [t \in RunTasks |-> None] /\ seenPids = [t \in RunTasks |-> {}]
  /\ escaped = {} /\ daemon = Idle /\ unsafeStops = {}
  /\ snapshotFailures = 0 /\ starts = 0
  /\ unnoticed = [t \in RunTasks |-> {}]

Present == {p \in Pids : process[p].status # "absent"}
Alive   == {p \in Pids : process[p].status = "alive"}
Free    == Pids \ Present
Roots   == {root[t] : t \in RunTasks} \ {None}

(* ProcessTree::descendants, plus the pids it starts from: what every set  *)
(* holds that holds those pids and, with a process, its children.          *)
Subtree(from) ==
  LET Closed == {S \in SUBSET Present : /\ from \cap Present \subseteq S
                                        /\ \A p \in Present : process[p].parent \in S => p \in S}
  IN  {p \in Present : \A S \in Closed : p \in S}

(* What dies leaves its children to init; a provider stays a zombie until  *)
(* the daemon waits for it.                                                *)
AfterDeath(dead, waited) ==
  [p \in Pids |->
     IF p \in dead /\ p \in Roots \ waited
       THEN [process[p] EXCEPT !.status = "zombie", !.tty = FALSE]
     ELSE IF p \in dead THEN NoProcess
     ELSE IF process[p].parent \in dead THEN [process[p] EXCEPT !.parent = InitPid]
     ELSE process[p]]

Die(dead, waited) ==
  /\ process' = AfterDeath(dead, waited)
  /\ unnoticed' = [t \in RunTasks |->
       unnoticed[t] \cup {p \in dead \ (Roots \ waited) : process[p].owner = t}]

-----------------------------------------------------------------------------
(* The operating system.                                                   *)

Started(p, parent, owner, tty) ==
  /\ starts < MaxStarts /\ starts' = starts + 1
  /\ process' = [process EXCEPT ![p] = [status |-> "alive", parent |-> parent, owner |-> owner,
                                        tty |-> tty, sampled |-> FALSE]]

Fork(p) ==
  /\ process[p].status = "alive" /\ process[p].owner # Foreign
  /\ \E child \in Free, tty \in {FALSE, process[p].tty} : Started(child, p, process[p].owner, tty)
  /\ UNCHANGED <<root, seenPids, escaped, daemon, unnoticed, unsafeStops, snapshotFailures>>

ForeignStarts ==
  /\ \E p \in Free : Started(p, InitPid, Foreign, FALSE)
  /\ UNCHANGED <<root, seenPids, escaped, daemon, unnoticed, unsafeStops, snapshotFailures>>

ProcessExits(p) ==
  /\ process[p].status = "alive"
  /\ Die({p}, {})
  /\ UNCHANGED <<root, seenPids, escaped, daemon, unsafeStops, snapshotFailures, starts>>

-----------------------------------------------------------------------------
(* Operations that take one step.                                          *)

LaunchAs(t, p) ==
  /\ root' = [root EXCEPT ![t] = p]
  /\ Started(p, DaemonPid, t, TRUE)

Launch(t) ==
  /\ daemon = Idle /\ root[t] = None
  /\ \E p \in Free : LaunchAs(t, p)
  /\ UNCHANGED <<seenPids, escaped, daemon, unnoticed, unsafeStops, snapshotFailures>>

(* Seen and no longer under any provider.                                  *)
Escapees(seen) == UNION {seen[t] : t \in RunTasks} \ Subtree(Roots)

(* Never lets go of what it recorded.                                      *)
SampleTickKeepsGone ==
  /\ daemon = Idle /\ Roots # {}
  /\ seenPids' = [t \in RunTasks |->
       IF root[t] = None THEN {} ELSE seenPids[t] \cup Subtree({root[t]})]
  /\ escaped' = Escapees(seenPids')
  /\ process' = [p \in Pids |->
       IF p \in Subtree(Roots) THEN [process[p] EXCEPT !.sampled = TRUE] ELSE process[p]]
  /\ unnoticed' = [t \in RunTasks |-> unnoticed[t] \cap Present]
  /\ UNCHANGED <<root, daemon, unsafeStops, snapshotFailures, starts>>

(* sample_tick with a snapshot (without one it returns early).             *)
SampleTick ==
  /\ daemon = Idle
  /\ \/ /\ Roots = {}
        /\ seenPids' = [t \in RunTasks |-> {}] /\ escaped' = {} /\ UNCHANGED process
        /\ unnoticed' = [t \in RunTasks |-> {}]
     \/ /\ Roots # {}
        /\ seenPids' = [t \in RunTasks |->
             IF root[t] = None THEN {} ELSE (seenPids[t] \cup Subtree({root[t]})) \cap Present]
        /\ escaped' = Escapees(seenPids')
        /\ process' = [p \in Pids |->
             IF p \in Subtree(Roots) THEN [process[p] EXCEPT !.sampled = TRUE] ELSE process[p]]
        /\ unnoticed' = [t \in RunTasks |-> unnoticed[t] \cap Present]
  /\ UNCHANGED <<root, daemon, unsafeStops, snapshotFailures, starts>>

-----------------------------------------------------------------------------
(* Operations that take several, under the lock all along.                 *)

Begin(t, pid, steps) ==
  daemon' = [task |-> t, pid |-> pid, targets |-> {}, under |-> {}, steps |-> steps]

(* terminate: reap while the provider is alive, then stop it.              *)
TerminateTree(t) ==
  /\ daemon = Idle
  /\ Begin(t, root[t], <<"target", "killAndForget", "close", "join">>)
  /\ UNCHANGED <<process, root, seenPids, escaped, unnoticed, unsafeStops, snapshotFailures,
                 starts>>

(* pump: the wait finds the provider dead; the instance is dropped before  *)
(* its recorded processes are reaped.                                      *)
RetireTree(t) ==
  /\ daemon = Idle /\ root[t] # None /\ process[root[t]].status = "zombie"
  /\ Die({root[t]}, {root[t]})
  /\ root' = [root EXCEPT ![t] = None]
  /\ Begin(t, root[t], <<"join", "target", "killAndForget">>)
  /\ UNCHANGED <<seenPids, escaped, unsafeStops, snapshotFailures, starts>>

(* shutdown_runtime, from hibernate and recycle: stop the provider, then   *)
(* end what its pid still leads to.                                        *)
StopTree(t, again) ==
  /\ daemon = Idle /\ root[t] # None
  /\ Die({root[t]}, {root[t]})
  /\ root' = [root EXCEPT ![t] = None]
  /\ Begin(t, root[t], IF again THEN <<"verify", "kill", "join", "relaunch">>
                       ELSE <<"verify", "kill", "join">>)
  /\ unsafeStops' = unsafeStops \cup {t}
  /\ UNCHANGED <<seenPids, escaped, snapshotFailures, starts>>

(* act_reclaim_escaped, under pressure.                                    *)
ReclaimEscaped ==
  /\ daemon = Idle /\ escaped # {}
  /\ daemon' = [Idle EXCEPT !.targets = escaped, !.steps = <<"killEscaped">>]
  /\ UNCHANGED <<process, root, seenPids, escaped, unnoticed, unsafeStops, snapshotFailures,
                 starts>>

At(step)   == daemon.steps # <<>> /\ Head(daemon.steps) = step
Done(d)    == IF Tail(d.steps) = <<>> THEN Idle ELSE [d EXCEPT !.steps = Tail(@)]

(* The pid a dead provider had may lead to somebody else's subtree.        *)
Targets(more) ==
  daemon' = [Done(daemon) EXCEPT
               !.targets = (({daemon.pid} \ {None}) \cup Subtree({daemon.pid})) \cup more,
               !.under = Subtree({q \in {daemon.pid} \cap Present : process[q].owner # daemon.task})]

(* Forgets what was recorded while the provider was alive.                 *)
TargetSubtreeOnly ==
  /\ At("target") /\ Targets({})
  /\ UNCHANGED <<process, root, seenPids, escaped, unnoticed, unsafeStops, snapshotFailures,
                 starts>>

(* reap_task_processes: the subtree and everything recorded, SIGTERM.      *)
TargetRecorded ==
  /\ At("target") /\ Targets(seenPids[daemon.task])
  /\ UNCHANGED <<process, root, seenPids, escaped, unnoticed, unsafeStops, snapshotFailures,
                 starts>>

(* verify_subtree_gone: the subtree of the pid alone.                      *)
TargetSubtree ==
  /\ At("verify") /\ Targets({})
  /\ UNCHANGED <<process, root, seenPids, escaped, unnoticed, unsafeStops, snapshotFailures,
                 starts>>

(* terminate_pids after the grace period: whatever still has a targeted    *)
(* pid is killed; without a second snapshot nothing is.                    *)
KillSurvivors ==
  /\ At("kill") \/ At("killAndForget") \/ At("killEscaped")
  /\ \/ /\ Die(daemon.targets \cap Alive, {})
        /\ UNCHANGED <<unsafeStops, snapshotFailures>>
     \/ /\ snapshotFailures < MaxSnapshotFailures
        /\ snapshotFailures' = snapshotFailures + 1
        /\ unsafeStops' = unsafeStops \cup ({daemon.task} \ {None})
        /\ UNCHANGED <<process, unnoticed>>
  /\ seenPids' = IF At("killAndForget") THEN [seenPids EXCEPT ![daemon.task] = {}] ELSE seenPids
  /\ escaped' = IF At("killEscaped") THEN escaped \ daemon.targets ELSE escaped
  /\ daemon' = Done([daemon EXCEPT !.targets = {}, !.under = {}])
  /\ UNCHANGED <<root, starts>>

CloseRuntime ==
  LET t == daemon.task IN
  /\ At("close")
  /\ Die({root[t]} \ {None}, {root[t]} \ {None})
  /\ root' = [root EXCEPT ![t] = None]
  /\ daemon' = Done(daemon)
  /\ UNCHANGED <<seenPids, escaped, unsafeStops, snapshotFailures, starts>>

(* The drop of the PTY session joins its reader, which reads until nobody  *)
(* holds the terminal any more.                                            *)
TtyHolders(t) == {p \in Alive : process[p].owner = t /\ process[p].tty}

(* Waits for every process of the task, terminal or not.                   *)
JoinEverybody ==
  /\ At("join") /\ ~\E p \in Alive : process[p].owner = daemon.task
  /\ daemon' = Done(daemon)
  /\ UNCHANGED <<process, root, seenPids, escaped, unnoticed, unsafeStops, snapshotFailures,
                 starts>>

JoinReader ==
  /\ At("join") /\ TtyHolders(daemon.task) = {}
  /\ daemon' = Done(daemon)
  /\ UNCHANGED <<process, root, seenPids, escaped, unnoticed, unsafeStops, snapshotFailures,
                 starts>>

Relaunch ==
  /\ At("relaunch")
  /\ \/ \E p \in Free : LaunchAs(daemon.task, p)
     \/ UNCHANGED <<process, root, starts>>
  /\ daemon' = Done(daemon)
  /\ UNCHANGED <<seenPids, escaped, unnoticed, unsafeStops, snapshotFailures>>

DaemonStep ==
  TargetRecorded \/ TargetSubtree \/ KillSurvivors \/ CloseRuntime \/ JoinReader \/ Relaunch

OwnershipNext ==
  \/ \E p \in Pids : Fork(p) \/ ProcessExits(p)
  \/ ForeignStarts \/ SampleTick \/ ReclaimEscaped \/ DaemonStep
  \/ \E t \in RunTasks :
       Launch(t) \/ TerminateTree(t) \/ RetireTree(t) \/ \E again \in BOOLEAN : StopTree(t, again)

OwnershipSpec == OwnershipInit /\ [][OwnershipNext]_ownVars

(* An operation under way goes on, and the pump finds a dead provider.     *)
OwnershipFairness ==
  /\ WF_ownVars(DaemonStep)
  /\ \A t \in RunTasks : SF_ownVars(RetireTree(t))

-----------------------------------------------------------------------------
(* Properties.                                                             *)

(* A process of ours that a sample has recorded and that is no longer      *)
(* under its task's provider is still tracked, so that it will be reaped   *)
(* or flagged, unless its task was stopped by a path that resolves the     *)
(* subtree after the provider is gone, or a snapshot failed.               *)
LeaksAreExplained ==
  daemon = Idle =>
    \A p \in Alive : \A t \in RunTasks :
      (process[p].owner = t /\ process[p].sampled /\ p \notin Subtree({root[t]}))
        => p \in seenPids[t] \/ t \in unsafeStops

(* Whom the daemon signals: the processes of the task at hand; a stranger   *)
(* only where the pid changed hands behind the daemon's back, since the    *)
(* last sample that would have missed the process it had recorded; and     *)
(* what runs under a provider's pid that was handed to somebody else.      *)
VictimsWereOwned ==
  LET whose == IF daemon.task = None THEN RunTasks ELSE {daemon.task} IN
  \A p \in daemon.targets \cap Alive :
    \/ process[p].owner \in whose
    \/ \E t \in whose : p \in unnoticed[t]
    \/ p \in daemon.under

(* An operation never holds the lock for ever, unless a process keeps the  *)
(* terminal of the task open.                                              *)
DaemonBlocksOnlyOnTerminal ==
  (daemon # Idle) ~> (daemon = Idle \/ TtyHolders(daemon.task) # {})

=============================================================================
