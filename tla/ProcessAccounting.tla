-------------------------- MODULE ProcessAccounting --------------------------
(***************************************************************************)
(* How a snapshot of the process tree is taken and what is read off it.    *)
(* The sampler walks /proc pid by pid, and reads a process's parent and    *)
(* its memory in two steps, while processes fork and exit: a snapshot is   *)
(* a tree that may never have existed.  The daemon attributes it to its    *)
(* tasks and flags the escaped, the benchmark divides it between agents    *)
(* and their manager.  Pids are numbers, in the order of the walk.         *)
(***************************************************************************)
EXTENDS Integers, Sequences, FiniteSets, Functions

CONSTANTS
  MaxPid,         \* the pids are 1..MaxPid
  Owners,         \* the tasks whose providers run
  Size,           \* the memory of a process, by its pid; sizes differ
  MaxForks,       \* bound: processes started
  MaxWalks        \* bound: snapshots taken

PidSlots == 1..MaxPid
NoPid    == 0     \* no pid; also that of init, outside the slots

ASSUME AccountingAssumption ==
  /\ {MaxPid, MaxForks, MaxWalks} \subseteq Nat /\ MaxPid > Cardinality(Owners)
  /\ IsFiniteSet(Owners) /\ Owners # {} /\ NoPid \notin Owners
  /\ Size \in [PidSlots -> Nat]

VARIABLES
  proc,          \* the processes: pid -> parent, owner, zombie
  providers,     \* the roots: the provider's pid of each task
  manager,       \* the daemon's own pid, the manager of the benchmark's topology
  cursor,        \* the next slot of /proc to look at
  halfRead,      \* the process whose stat is read and whose memory is not, or NoPid
  samples,       \* what the walk has gathered: pid -> parent, bytes
  recorded,      \* DaemonState::seen_pids
  reused,        \* pids handed out anew although recorded, or read in this walk,
                 \* as a process or as the parent of one
  forks, walks

accountingVars == <<proc, providers, manager, cursor, halfRead, samples, recorded, reused, forks, walks>>

AccountingTypeOK ==
  /\ \A p \in DOMAIN proc : p \in PidSlots /\ proc[p].parent \in PidSlots \cup {NoPid}
  /\ cursor \in 1..(MaxPid + 1) /\ halfRead \in PidSlots \cup {NoPid}
  /\ DOMAIN samples \cup reused \subseteq PidSlots
  /\ recorded \in [Owners -> SUBSET PidSlots]
  /\ forks \in 0..MaxForks /\ walks \in 0..MaxWalks

AccountingInit ==
  /\ providers \in {f \in [Owners -> PidSlots] : IsInjective(f)}
  /\ manager \in PidSlots \ Range(providers)
  /\ proc = [p \in Range(providers) \cup {manager} |->
               [parent |-> IF p = manager THEN NoPid ELSE manager, zombie |-> FALSE,
                owner |-> IF p = manager THEN NoPid ELSE CHOOSE t \in Owners : providers[t] = p]]
  /\ cursor = MaxPid + 1 /\ halfRead = NoPid /\ samples = <<>>
  /\ recorded = [t \in Owners |-> {}] /\ reused = {}
  /\ forks = 0 /\ walks = 0

-----------------------------------------------------------------------------
(* ProcessTree, of a snapshot: pid -> [parent, bytes].                     *)

ChildrenIn(s, p) == {c \in DOMAIN s : s[c].parent = p}

(* descendants: breadth first, each pid visited once, the first excluded;  *)
(* the pid it starts from need not be in the snapshot.                     *)
DescendantsIn(s, p) ==
  LET Reached[n \in 0..MaxPid] ==
        LET seen == IF n = 0 THEN {p} ELSE Reached[n - 1]
        IN  seen \cup UNION {ChildrenIn(s, q) : q \in seen}
  IN  Reached[MaxPid] \ {p}

(* ancestors: nearest first; a parent that was not sampled ends the walk,  *)
(* and so does one already seen.                                           *)
AncestorsIn(s, p) ==
  LET Walk[n \in 0..MaxPid] ==
        LET up     == IF n = 0 THEN <<p>> ELSE Walk[n - 1]
            parent == s[up[Len(up)]].parent
        IN  IF n > 0 /\ parent \in DOMAIN s \ Range(up) THEN Append(up, parent) ELSE up
  IN  IF p \in DOMAIN s THEN Tail(Walk[MaxPid]) ELSE <<>>

BytesOf(s, pids) == SumFunctionOnSet([p \in DOMAIN s |-> s[p].bytes], pids \cap DOMAIN s)

(* subtree_sum.                                                            *)
SubtreeBytes(s, p) == BytesOf(s, {p} \cup DescendantsIn(s, p))

(* nearest_ancestor_in: the pid itself comes first.                        *)
NearestIn(s, p, roots) ==
  LET up == <<p>> \o AncestorsIn(s, p)
      i  == {k \in DOMAIN up : up[k] \in roots}
  IN  IF i = {} THEN NoPid ELSE up[CHOOSE k \in i : \A j \in i : k <= j]

(* attribute: by root, else by who reported the pid, else unknown.         *)
Attribution(s, roots, expected) ==
  [p \in DOMAIN s |->
     LET r == NearestIn(s, p, DOMAIN roots)
     IN  IF r # NoPid THEN [class |-> "Owned", task |-> roots[r]]
         ELSE IF p \in DOMAIN expected THEN [class |-> "Escaped", task |-> expected[p]]
         ELSE [class |-> "Unknown", task |-> NoPid]]

(* AttributionReport, as reconcile_tree reads it; an escaped process is    *)
(* attributed, though misplaced.                                           *)
ClassOf(report, class) == {p \in DOMAIN report : report[p].class = class}
Accounted(report)      == DOMAIN report \ ClassOf(report, "Unknown")

(* TimeSeriesRecord::from_snapshot: the bytes of each class, and of the    *)
(* tree of one root how many processes and bytes, and how many of them     *)
(* nobody owns.  The root is counted even when it is not there any more.   *)
RecordOf(s, report, root) ==
  LET tree  == {root} \cup DescendantsIn(s, root)
      bytes == [class \in {"Owned", "Escaped", "Unknown"} |-> BytesOf(s, ClassOf(report, class))]
  IN  [processes |-> Cardinality(DOMAIN s), bytes |-> bytes,
       total     |-> bytes["Owned"] + bytes["Escaped"] + bytes["Unknown"],
       rootBytes |-> SubtreeBytes(s, root), rootProcesses |-> Cardinality(tree),
       rootLost  |-> BytesOf(s, tree \ Accounted(report))]

(* managed_reconcile: only what runs under a sampled provider and what was *)
(* recorded and is still there; a pid two tasks recorded is either's.      *)
RootsOf == [p \in Range(providers) |-> CHOOSE t \in Owners : providers[t] = p]
EverRecorded(rec) == UNION Range(rec)
Managed(s, rec) ==
  LET below == UNION {{r} \cup DescendantsIn(s, r) : r \in Range(providers) \cap DOMAIN s}
  IN  Restrict(s, (below \cup EverRecorded(rec)) \cap DOMAIN s)
ManagedReport(s, rec) ==
  Attribution(Managed(s, rec), RootsOf,
              [p \in EverRecorded(rec) |-> CHOOSE t \in Owners : p \in rec[t]])

(* Takes the agents of a manager for overhead, too.                        *)
ManagerAndAgents(s) == ({manager} \cap DOMAIN s) \cup DescendantsIn(s, manager)

(* The benchmark's partition: a process under an agent is the provider's,  *)
(* any other under the manager is overhead.                                *)
ProviderPids(s) ==
  UNION {({r} \cap DOMAIN s) \cup DescendantsIn(s, r) : r \in Range(providers)}
ManagerPids(s) ==
  (({manager} \cap DOMAIN s) \cup DescendantsIn(s, manager)) \ ProviderPids(s)

(* classify and tagged_processes: the totals, and a row per process.       *)
Classified(s) ==
  [provider |-> BytesOf(s, ProviderPids(s)), manager |-> BytesOf(s, ManagerPids(s)),
   total    |-> BytesOf(s, ProviderPids(s)) + BytesOf(s, ManagerPids(s))]
Tagged(s) ==
  [p \in (ProviderPids(s) \cup ManagerPids(s)) \cap DOMAIN s |->
     IF p \in ProviderPids(s) THEN "Provider" ELSE "Manager"]

-----------------------------------------------------------------------------
(* The operating system.  Orphans go to init; a provider whose parent has  *)
(* not waited is a zombie.                                                 *)

(* The pids a walk has read so far.                                        *)
Named(s) == DOMAIN s \cup {s[p].parent : p \in DOMAIN s}

ForkProcess(p) ==
  /\ forks < MaxForks /\ forks' = forks + 1
  /\ ~proc[p].zombie /\ p # manager
  /\ \E child \in PidSlots \ DOMAIN proc :
       /\ proc' = [q \in DOMAIN proc \cup {child} |->
                     IF q = child THEN [parent |-> p, owner |-> proc[p].owner, zombie |-> FALSE]
                     ELSE proc[q]]
       /\ reused' = IF child \in Named(samples) \cup EverRecorded(recorded) THEN reused \cup {child}
                    ELSE reused
  /\ UNCHANGED <<providers, manager, cursor, halfRead, samples, recorded, walks>>

ExitProcess(p) ==
  /\ ~proc[p].zombie /\ p # manager
  /\ LET left == IF p \in Range(providers) THEN DOMAIN proc ELSE DOMAIN proc \ {p}
     IN  proc' = [q \in left |->
                    IF q = p THEN [proc[q] EXCEPT !.zombie = TRUE]
                    ELSE IF proc[q].parent = p THEN [proc[q] EXCEPT !.parent = NoPid]
                    ELSE proc[q]]
  /\ UNCHANGED <<providers, manager, cursor, halfRead, samples, recorded, reused,
                 forks, walks>>

-----------------------------------------------------------------------------
(* LinuxSampler::snapshot: entry by entry; sample_one drops what has gone  *)
(* and what is a zombie.                                                   *)

BeginWalk ==
  /\ cursor = MaxPid + 1 /\ halfRead = NoPid /\ walks < MaxWalks /\ samples = <<>>
  /\ walks' = walks + 1 /\ cursor' = 1
  /\ UNCHANGED <<proc, providers, manager, halfRead, samples, recorded, reused, forks>>

ReadStat ==
  /\ cursor <= MaxPid /\ halfRead = NoPid
  /\ cursor' = cursor + 1
  /\ IF cursor \in DOMAIN proc /\ ~proc[cursor].zombie
       THEN /\ halfRead' = cursor
            /\ samples' = [q \in DOMAIN samples \cup {cursor} |->
                             IF q = cursor THEN [parent |-> proc[cursor].parent, bytes |-> 0]
                             ELSE samples[q]]
       ELSE UNCHANGED <<halfRead, samples>>
  /\ UNCHANGED <<proc, providers, manager, recorded, reused, forks, walks>>

(* The proportional size where the system tells it, else the resident one; *)
(* a process that has exited since has neither.                            *)
AccountedBytes(p) == IF p \in DOMAIN proc /\ ~proc[p].zombie THEN Size[p] ELSE 0
ReadMemory ==
  /\ halfRead # NoPid /\ halfRead' = NoPid
  /\ samples' = [samples EXCEPT ![halfRead].bytes = AccountedBytes(halfRead)]
  /\ UNCHANGED <<proc, providers, manager, cursor, recorded, reused, forks, walks>>

(* sample_tick: what runs under each provider is recorded, and what has    *)
(* gone is dropped.                                                        *)
Complete == cursor = MaxPid + 1 /\ halfRead = NoPid /\ samples # <<>>
Recording(s) ==
  [t \in Owners |-> (recorded[t] \cup {providers[t]} \cup DescendantsIn(s, providers[t])) \cap DOMAIN s]
SnapshotTaken ==
  /\ Complete
  /\ recorded' = Recording(samples) /\ samples' = <<>>
  /\ UNCHANGED <<proc, providers, manager, cursor, halfRead, reused, forks, walks>>

(* An entry of /proc that cannot be read fails the whole snapshot.         *)
SnapshotFails ==
  /\ cursor <= MaxPid
  /\ cursor' = MaxPid + 1 /\ halfRead' = NoPid /\ samples' = <<>>
  /\ UNCHANGED <<proc, providers, manager, recorded, reused, forks, walks>>

AccountingNext ==
  \/ \E p \in DOMAIN proc : ForkProcess(p) \/ ExitProcess(p)
  \/ BeginWalk \/ ReadStat \/ ReadMemory \/ SnapshotTaken \/ SnapshotFails

AccountingSpec == AccountingInit /\ [][AccountingNext]_accountingVars

-----------------------------------------------------------------------------
(* The tree as it is, zombies included.                                    *)
Truth == [p \in DOMAIN proc |-> [parent |-> proc[p].parent, bytes |-> 0]]

(* Downwards and upwards, a snapshot tells one story, torn as it may be: a *)
(* pid is below a sampled process exactly when that process is above it.   *)
WalksAgree(s) ==
  LET below == [r \in DOMAIN s |-> DescendantsIn(s, r)]
      above == [p \in DOMAIN s |-> Range(AncestorsIn(s, p))]
  IN  \A p, r \in DOMAIN s : p # r => (p \in below[r] <=> r \in above[p])

(* The daemon's view restricted to its own loses nothing: what the whole   *)
(* snapshot has under a sampled provider is owned by its task, and what    *)
(* was recorded otherwise is escaped: nothing is ever unknown.             *)
ViewLosesNothing(s, report) ==
  /\ \A t \in Owners : providers[t] \in DOMAIN s =>
       \A p \in {providers[t]} \cup DescendantsIn(s, providers[t]) :
         report[p] = [class |-> "Owned", task |-> t]
  /\ ClassOf(report, "Unknown") = {}

(* The bytes a task is charged are those of what it owns, once; the        *)
(* benchmark's two sides share no process, and its rows give its totals.   *)
(* A record's classes make up the snapshot, and nothing is lost of a tree  *)
(* whose root is in it (below a root that is gone, all is unknown).        *)
BytesAddUp(s, report) ==
  /\ LET whole == Attribution(s, RootsOf, <<>>)
     IN  \A t \in Owners :
           LET record == RecordOf(s, whole, providers[t])
           IN  /\ record.total = BytesOf(s, DOMAIN s)
               /\ providers[t] \in DOMAIN s =>
                    /\ record.rootLost = 0 /\ record.rootBytes <= record.bytes["Owned"]
                    /\ record.rootProcesses = Cardinality({p \in DOMAIN s : whole[p].task = t})
  /\ Range(providers) \subseteq DOMAIN s =>
       BytesOf(s, ClassOf(report, "Owned")) =
         SumFunction([t \in Owners |-> SubtreeBytes(s, providers[t])])
  /\ Classified(s).total = BytesOf(s, DOMAIN Tagged(s))

(* Whom a walk that was not atomic accuses: a process flagged as escaped   *)
(* is under no living provider by the time the walk has ended, unless its  *)
(* pid or that of one above it was handed out anew; and what is recorded   *)
(* for a task is that task's, unless some pid was.                         *)
Anew == UNION {{p} \cup DescendantsIn(Truth, p) : p \in reused}
FlagsAreTrue(s, report) ==
  /\ \A t \in Owners : ~proc[providers[t]].zombie =>
       (({providers[t]} \cup DescendantsIn(Truth, providers[t])) \cap ClassOf(report, "Escaped")) \subseteq Anew
  /\ reused = {} =>
       LET seen == Recording(s) IN \A t \in Owners : \A p \in seen[t] \cap DOMAIN proc : proc[p].owner = t

(* What is read off a snapshot (tree.rs:66 against tree.rs:84,             *)
(* daemon.rs:1997, bench sampler.rs:41) is explained by the processes that *)
(* were there, although it was read one by one while they came and went.   *)
SnapshotsAreExplained ==
  Complete =>
    LET report == ManagedReport(samples, Recording(samples))
    IN  /\ WalksAgree(samples)
        /\ ViewLosesNothing(samples, report)
        /\ BytesAddUp(samples, report)
        /\ FlagsAreTrue(samples, report)

=============================================================================
