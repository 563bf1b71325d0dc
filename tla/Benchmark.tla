------------------------------ MODULE Benchmark ------------------------------
(***************************************************************************)
(* The benchmark harness: for every cell of its plan (a launcher, a count  *)
(* of agents, a scenario) it runs trials that start the agents under the   *)
(* launcher, sample the process tree, measure what escaped and what the    *)
(* launcher's own teardown leaves behind, and kill the rest.  The agents   *)
(* fork, exit and escape while the harness looks; snapshots, spawns,       *)
(* commands and writes fail.  Memory is counted in processes.  What the    *)
(* report makes of the trials is BenchVerdict.                             *)
(***************************************************************************)
EXTENDS Integers, Sequences, FiniteSets

CONSTANTS
  Plans,         \* the plans explored: sequences of [launcher, agents, scenario, samples, trials]
  CpuReadings,   \* the manager CPU percentages a run may read
  EventStreams,  \* what the events of an overcommitted daemon may be
  GracePolls,    \* how often measure_cleanup polls
  MaxMishaps     \* bound: spawns, commands, snapshots and writes that fail

BuiltinLaunchers == {"raw", "tmux", "herdr", "memmux"}
BenchScenarios   == {"hold", "escape", "overcommit", "soak"}
Cells ==
  [launcher : BuiltinLaunchers \cup {"external"}, agents : Nat \ {0}, scenario : BenchScenarios,
   samples : Nat \ {0}, trials : Nat \ {0}]

ASSUME BenchAssumption ==
  /\ Plans \subseteq Seq(Cells) /\ \A p \in Plans : \A i \in DOMAIN p : p[i].trials = p[1].trials
  /\ CpuReadings \subseteq Nat /\ EventStreams \subseteq Seq(STRING)
  /\ GracePolls \in Nat \ {0} /\ MaxMishaps \in Nat

VARIABLES
  plan,          \* the cells, in order
  at,            \* the cell and the trial under way
  bench,         \* where run_launcher_scenario_measured is
  launched,      \* agents started in this trial
  roots,         \* LaunchTopology::agent_roots
  running,       \* the processes the benchmark caused to exist
  reparented,    \* those of them that init adopted
  forked,        \* the agents that forked their child
  measured,      \* what the trial measured: TrialResult
  everSeen,      \* ever_seen_under_root
  owned,         \* the owned set
  survivors,     \* owned and still there at the last poll
  polls,
  report,        \* per cell: the trials kept, whether one failed
  caught,        \* processes of this benchmark the harness captured or confirmed
  ownKills,      \* the kills the harness sent itself, each with its trial
  unkilled,      \* processes whose kill failed
  unstopped,     \* trials whose kill-server failed
  mishaps

processVars == <<running, reparented, forked>>
trialVars   == <<launched, roots, measured, everSeen, owned, survivors, polls>>
killVars    == <<ownKills, unkilled, unstopped>>
benchVars   == <<plan, at, bench, processVars, trialVars, report, caught, killVars, mishaps>>

Cell        == plan[at.cell]
AgentCount  == Cell.agents
MaxSamples  == Cell.samples
Overcommits == Cell.launcher = "memmux" /\ Cell.scenario = "overcommit"
Agent(i)    == [cell |-> at.cell, trial |-> at.trial, agent |-> i, part |-> "agent"]
Server      == [Agent(0) EXCEPT !.part = "server"]
AgentOf(p)  == [p EXCEPT !.part = "agent"]
IsBelow(p)  == p.part \in {"child", "escapee"}
Mine        == {p \in running : p.cell = at.cell /\ p.trial = at.trial}

(* The agents among `tops` that live, and what is still below them.        *)
Below(tops) ==
  {p \in running : p \in tops \/ (IsBelow(p) /\ p \notin reparented /\ AgentOf(p) \in tops \cap running)}

(* What runs under the multiplexer of this trial.  tmux and herdr sessions *)
(* are named after the benchmark process, so a leftover one is found again.*)
Hosted ==
  CASE Cell.launcher = "raw"               -> {}
    [] Cell.launcher \in {"tmux", "herdr"} -> {p \in running : plan[p.cell].launcher = Cell.launcher}
    [] OTHER                               -> Mine

BenchTypeOK ==
  /\ plan \in Plans /\ at.cell \in 1..Len(plan) + 1 /\ at.trial \in Nat \ {0}
  /\ bench \in {"next", "starting", "sampling", "checking", "capturing", "escapes", "stopping",
                "polling", "writing", "finished", "aborted"}
  /\ launched \in Nat /\ polls \in 0..GracePolls
  /\ reparented \subseteq running /\ survivors \subseteq owned
  /\ \A p \in running \cup roots \cup everSeen \cup owned \cup caught \cup forked :
       p.part \in {"agent", "child", "escapee", "server"}
  /\ \A i \in DOMAIN report : Len(report[i].trials) \in 0..plan[i].trials /\ report[i].failed \in BOOLEAN
  /\ unkilled \subseteq {x.process : x \in ownKills}
  /\ \A trial \in unstopped \cup {x.by : x \in ownKills} : trial.cell \in 1..Len(plan) /\ trial.trial \in Nat \ {0}
  /\ mishaps \in 0..MaxMishaps

NothingMeasured == [records |-> <<>>, cpu |-> {}, cleanup |-> {}, escape |-> {}, h4 |-> {}]

BenchInit ==
  /\ plan \in Plans /\ at = [cell |-> 1, trial |-> 1] /\ bench = "next"
  /\ launched = 0 /\ roots = {} /\ running = {} /\ reparented = {} /\ forked = {}
  /\ measured = NothingMeasured /\ everSeen = {} /\ owned = {} /\ survivors = {} /\ polls = 0
  /\ report = <<>> /\ caught = {} /\ ownKills = {} /\ unkilled = {} /\ unstopped = {}
  /\ mishaps = 0

Mishap == mishaps < MaxMishaps /\ mishaps' = mishaps + 1
Either(mishap) == IF mishap THEN Mishap ELSE UNCHANGED mishaps

-----------------------------------------------------------------------------
(* The processes.                                                          *)

Dies(ps) ==
  /\ running' = running \ ps
  /\ reparented' = (reparented \cup {p \in running : IsBelow(p) /\ AgentOf(p) \in ps}) \ ps

(* The hold and overcommit recordings spawn a child; escape double-forks;  *)
(* soak only writes.                                                       *)
AgentForks(a) ==
  /\ a.part = "agent" /\ a \in running \ forked /\ plan[a.cell].scenario # "soak"
  /\ forked' = forked \cup {a}
  /\ running' = running \cup
       {[a EXCEPT !.part = IF plan[a.cell].scenario = "escape" THEN "escapee" ELSE "child"]}
  /\ UNCHANGED <<reparented, plan, at, bench, trialVars, report, caught, killVars, mishaps>>

(* The intermediate process exits.                                         *)
Escapes(p) ==
  /\ p.part = "escapee" /\ p \in running \ reparented
  /\ reparented' = reparented \cup {p}
  /\ UNCHANGED <<running, forked, plan, at, bench, trialVars, report, caught, killVars, mishaps>>

(* An agent waits for its child, and not for what escaped.  herdr's roots  *)
(* are the shells of its panes, which stay.                                *)
Exits(p) ==
  /\ p \in running /\ p.part # "server"
  /\ p.part = "agent" => plan[p.cell].launcher # "herdr"
  /\ p.part = "agent" => (/\ p \in forked \/ plan[p.cell].scenario = "soak"
                         /\ ~\E c \in running : AgentOf(c) = p /\ c.part = "child")
  /\ p.part = "escapee" => p \in reparented
  /\ Dies({p})
  /\ UNCHANGED <<forked, plan, at, bench, trialVars, report, caught, killVars, mishaps>>

-----------------------------------------------------------------------------
(* Launcher::start.                                                        *)

SkipUnavailable ==
  /\ bench = "next" /\ at.cell <= Len(plan) /\ Cell.launcher = "external"
  /\ report' = Append(report, [trials |-> <<>>, failed |-> TRUE])
  /\ at' = [cell |-> at.cell + 1, trial |-> 1]
  /\ UNCHANGED <<plan, bench, processVars, trialVars, caught, killVars, mishaps>>

BeginTrial ==
  /\ bench = "next" /\ at.cell <= Len(plan) /\ Cell.launcher # "external"
  /\ bench' = "starting" /\ launched' = 0 /\ roots' = {} /\ measured' = NothingMeasured
  /\ everSeen' = {} /\ owned' = {} /\ survivors' = {} /\ polls' = 0
  /\ report' = IF at.trial = 1 THEN Append(report, [trials |-> <<>>, failed |-> FALSE]) ELSE report
  /\ UNCHANGED <<plan, at, processVars, caught, killVars, mishaps>>

(* One agent more.  The first of a multiplexer comes with its server, or   *)
(* joins the one a failed start left.  memmuxd may defer a start when its  *)
(* budget is set.                                                          *)
LaunchAgent ==
  /\ bench = "starting" /\ launched < AgentCount
  /\ launched' = launched + 1
  /\ LET server == IF Cell.launcher = "raw" \/ \E p \in Hosted : p.part = "server" THEN {} ELSE {Server}
     IN  \/ running' = running \cup server \cup {Agent(launched + 1)}
         \/ /\ Overcommits
            /\ running' = running \cup server
  /\ UNCHANGED <<reparented, forked, plan, at, bench, roots, measured, everSeen, owned, survivors,
                 polls, report, caught, killVars, mishaps>>

(* A deferred agent is admitted after the topology was read.               *)
AdmitsLate ==
  /\ bench \in {"sampling", "checking"} /\ Overcommits
  /\ \E i \in 1..AgentCount :
       /\ Agent(i) \notin roots \cup running \cup forked
       /\ running' = running \cup {Agent(i)}
  /\ UNCHANGED <<reparented, forked, plan, at, bench, trialVars, report, caught, killVars, mishaps>>

(* The end of a terminal: its processes get SIGHUP, which what an agent    *)
(* started may ignore.                                                     *)
HangsUp(ps) == \E deaf \in SUBSET {p \in ps : IsBelow(p)} : Dies(ps \ deaf)

(* What an error on the way leaves: herdr and memmux tear down, the other  *)
(* two return at the `?`.                                                  *)
AbandonUnguarded == Dies({})

AbandonStart == IF Cell.launcher \in {"raw", "tmux"} THEN Dies({}) ELSE HangsUp(Hosted)

TrialFails ==
  /\ report' = [report EXCEPT ![Len(report)].failed = TRUE]
  /\ bench' = "next" /\ at' = [cell |-> at.cell + 1, trial |-> 1]

(* A spawn, a command or a request failed, or no agent is there.           *)
StartFails ==
  /\ bench = "starting"
  /\ Mishap /\ AbandonStart /\ TrialFails
  /\ UNCHANGED <<plan, forked, trialVars, caught, killVars>>

(* The roots are the children spawned, the panes listed, the daemon's      *)
(* children.                                                               *)
Topology == IF Cell.launcher = "raw" THEN {Agent(i) : i \in 1..AgentCount}
            ELSE {p \in Hosted : p.part = "agent"}

(* An overcommitted daemon whose children cannot be read is taken for one  *)
(* that deferred them all.                                                 *)
StartReturns ==
  /\ bench = "starting" /\ launched = AgentCount
  /\ \/ (Topology # {} \/ Overcommits) /\ roots' = Topology /\ UNCHANGED mishaps
     \/ Overcommits /\ roots' = {} /\ Mishap
  /\ bench' = "sampling"
  /\ UNCHANGED <<plan, at, processVars, launched, measured, everSeen, owned, survivors, polls, report,
                 caught, killVars>>

(* A kill-server whose failure nobody looks at.                            *)
KillServerFails == Cell.launcher = "tmux" /\ Mishap /\ Dies({})

(* tmux and memmux find nobody, clean up and say so.                       *)
StartFindsNobody ==
  /\ bench = "starting" /\ launched = AgentCount /\ Topology = {}
  /\ ~Overcommits
  /\ (HangsUp(Hosted) /\ UNCHANGED mishaps) \/ KillServerFails
  /\ TrialFails
  /\ UNCHANGED <<plan, forked, trialVars, caught, killVars>>

-----------------------------------------------------------------------------
(* The sampling loop.                                                      *)

(* classify: what is below a root is the provider's; the rest below the    *)
(* manager, agents admitted late included, is overhead.                    *)
ManagerOnly == IF Cell.launcher = "raw" THEN {} ELSE (Hosted \ reparented) \ Below(roots)

FirstRoot == {r \in roots : \A q \in roots : r.cell < q.cell \/ (r.cell = q.cell /\ r.agent <= q.agent)}

Accounting ==
  [provider |-> Cardinality(Below(roots)), manager |-> Cardinality(ManagerOnly),
   first |-> Cardinality(Below(FirstRoot))]

Sample ==
  /\ bench = "sampling"
  /\ measured' = [measured EXCEPT !.records = Append(@, Accounting)] /\ bench' = "checking"
  /\ everSeen' = IF Cell.scenario = "escape" THEN everSeen \cup Below(roots) ELSE everSeen
  /\ UNCHANGED <<plan, at, processVars, launched, roots, owned, survivors, polls, report, caught,
                 killVars, mishaps>>

SampleFails ==
  /\ bench = "sampling" /\ Mishap /\ bench' = "checking"
  /\ UNCHANGED <<plan, at, processVars, trialVars, report, caught, killVars>>

AllAgentsGone == roots # {} /\ roots \cap running = {}

LoopAgain ==
  /\ bench = "checking" /\ Len(measured.records) < MaxSamples
  /\ Either(AllAgentsGone)
  /\ bench' = "sampling"
  /\ UNCHANGED <<plan, at, processVars, trialVars, report, caught, killVars>>

(* manager_cpu_pct, of sum_cpu_seconds before and after: raw has no        *)
(* manager, and where neither or only one of the two can be read there is  *)
(* no percentage.                                                          *)
ManagerCpu == IF Cell.launcher = "raw" THEN {{}} ELSE {{}} \cup {{pct} : pct \in CpuReadings}

LoopEnds ==
  /\ bench = "checking"
  /\ Len(measured.records) = MaxSamples \/ AllAgentsGone
  /\ \E cpu \in ManagerCpu : measured' = [measured EXCEPT !.cpu = cpu]
  /\ bench' = "capturing"
  /\ UNCHANGED <<plan, at, processVars, launched, roots, everSeen, owned, survivors, polls, report,
                 caught, killVars, mishaps>>

-----------------------------------------------------------------------------
(* The measurements around teardown.                                       *)

(* capture_owned_set, or nothing when the snapshot fails.                  *)
CaptureOwned ==
  /\ bench = "capturing"
  /\ \/ owned' = Below(roots) /\ UNCHANGED mishaps
     \/ owned' = {} /\ Mishap
  /\ caught' = caught \cup owned' /\ survivors' = owned'
  /\ bench' = IF Cell.scenario = "escape" THEN "escapes" ELSE "stopping"
  /\ UNCHANGED <<plan, at, processVars, launched, roots, measured, everSeen, polls, report, killVars>>

(* confirm_reparented, against a second snapshot.                          *)
Confirmed == {p \in everSeen \cap running : p \notin Below(roots)}

(* What the launcher itself detected: memmuxd's events, of which none are  *)
(* read when the call fails.                                               *)
Detections == IF Cell.launcher = "memmux" THEN SUBSET (Mine \cap reparented) ELSE {{}}

(* kill_survivors: a `kill -9` each, which does nothing where it cannot be *)
(* run, and nobody looks.                                                  *)
KillSurvivors(pids, spared) ==
  /\ Dies(pids \ spared)
  /\ ownKills' = ownKills \cup [by : {at}, process : pids]
  /\ unkilled' = unkilled \cup spared /\ UNCHANGED unstopped

(* The confirmed ones are killed.                                          *)
MeasureEscape ==
  /\ bench = "escapes"
  /\ \E confirmed \in {Confirmed, {}}, detected \in Detections :
       /\ measured' = [measured EXCEPT !.escape =
            {[injected |-> AgentCount, confirmed |-> Cardinality(confirmed),
              detected |-> IF Cell.launcher = "memmux" THEN {Cardinality(detected)} ELSE {}]}]
       /\ caught' = caught \cup confirmed
       /\ \E spared \in SUBSET confirmed :
            KillSurvivors(confirmed, spared) /\ Either(confirmed # Confirmed \/ spared # {})
  /\ bench' = "stopping"
  /\ UNCHANGED <<plan, at, forked, launched, roots, everSeen, owned, survivors, polls, report>>

(* classify_events over memmuxd's event stream.                            *)
Tally(events, kinds) == Cardinality({i \in DOMAIN events : events[i] \in kinds})

ClassifyEvents(events) ==
  [deferrals    |-> Tally(events, {"deferred"}),
   reclamations |-> Tally(events, {"hibernate", "preserve_dirty", "preserve_clean", "terminate"}),
   victims      |-> Tally(events, {"terminate"}),
   captured     |-> Tally(events, {"preserve_dirty"})]

Governance == IF Overcommits THEN {{ClassifyEvents(events)} : events \in EventStreams} ELSE {{}}

(* LaunchedSession::stop: raw kills its children; the multiplexers' ends   *)
(* hang up the terminals; memmuxd is asked to terminate the tasks first,   *)
(* subtrees and what it saw of escaped processes included; when a request  *)
(* fails, killing the daemon ends the terminals.                           *)
StopRaw == Cell.launcher = "raw" /\ Dies(roots) /\ UNCHANGED <<mishaps, unstopped>>
StopMultiplexer ==
  \/ Cell.launcher \in {"tmux", "herdr"} /\ HangsUp(Hosted) /\ UNCHANGED <<mishaps, unstopped>>
  \/ KillServerFails /\ unstopped' = unstopped \cup {at}
StopMemMux ==
  /\ Cell.launcher = "memmux" /\ UNCHANGED unstopped
  /\ \/ \E missed \in SUBSET (Mine \cap reparented) : Dies(Mine \ missed) /\ UNCHANGED mishaps
     \/ HangsUp(Hosted) /\ Mishap

StopSession ==
  /\ bench = "stopping" /\ bench' = "polling"
  /\ \E h4 \in Governance : measured' = [measured EXCEPT !.h4 = h4]
  /\ StopRaw \/ StopMultiplexer \/ StopMemMux
  /\ UNCHANGED <<plan, at, forked, launched, roots, everSeen, owned, survivors, polls, report, caught,
                 ownKills, unkilled>>

(* current_survivors; all of them when the snapshot fails.                 *)
PollSurvivors ==
  /\ bench = "polling" /\ survivors # {} /\ polls < GracePolls
  /\ \/ survivors' = owned \cap running /\ UNCHANGED mishaps
     \/ survivors' = owned /\ Mishap
  /\ polls' = polls + 1
  /\ UNCHANGED <<plan, at, bench, processVars, launched, roots, measured, everSeen, owned, report,
                 caught, killVars>>

(* CleanupResult: n/a when nothing was owned.                              *)
Reclaimed == IF owned = {} THEN {}
             ELSE {[owned |-> Cardinality(owned), leaked |-> Cardinality(survivors)]}

EndCleanupUnreaped ==
  /\ bench = "polling"
  /\ survivors = {} \/ polls = GracePolls
  /\ measured' = [measured EXCEPT !.cleanup = Reclaimed] /\ bench' = "writing"
  /\ UNCHANGED <<plan, at, processVars, launched, roots, everSeen, owned, survivors, polls, report,
                 caught, killVars, mishaps>>

(* The rest is for kill_survivors.                                         *)
EndCleanup ==
  /\ bench = "polling"
  /\ survivors = {} \/ polls = GracePolls
  /\ measured' = [measured EXCEPT !.cleanup = Reclaimed] /\ bench' = "writing"
  /\ \E spared \in SUBSET (survivors \cap running) :
       KillSurvivors(survivors, spared) /\ Either(spared # {})
  /\ UNCHANGED <<plan, at, forked, launched, roots, everSeen, owned, survivors, polls, report, caught>>

-----------------------------------------------------------------------------
(* run_benchmark keeps the trial.                                          *)

KeepTrial ==
  /\ bench = "writing"
  /\ report' = [report EXCEPT ![Len(report)].trials = Append(@, measured)]
  /\ at' = IF at.trial < Cell.trials THEN [at EXCEPT !.trial = @ + 1] ELSE [cell |-> at.cell + 1, trial |-> 1]
  /\ bench' = "next"
  /\ UNCHANGED <<plan, processVars, trialVars, caught, killVars, mishaps>>

(* The rows of the processes cannot be written: the trial fails.  The      *)
(* series cannot: the `?` is run_benchmark's.                              *)
WriteFails ==
  /\ bench = "writing" /\ Mishap
  /\ TrialFails \/ (bench' = "aborted" /\ UNCHANGED <<at, report>>)
  /\ UNCHANGED <<plan, processVars, trialVars, caught, killVars>>

Finish ==
  /\ bench = "next" /\ at.cell > Len(plan) /\ bench' = "finished"
  /\ UNCHANGED <<plan, at, processVars, trialVars, report, caught, killVars, mishaps>>

HarnessStep ==
  \/ SkipUnavailable \/ BeginTrial \/ LaunchAgent \/ StartFails \/ StartReturns \/ StartFindsNobody
  \/ Sample \/ SampleFails \/ LoopAgain \/ LoopEnds
  \/ CaptureOwned \/ MeasureEscape \/ StopSession \/ PollSurvivors \/ EndCleanup
  \/ KeepTrial \/ WriteFails \/ Finish

BenchNext ==
  \/ HarnessStep \/ AdmitsLate
  \/ \E p \in running : AgentForks(p) \/ Escapes(p) \/ Exits(p)

BenchSpec == BenchInit /\ [][BenchNext]_benchVars

-----------------------------------------------------------------------------
(* Properties.                                                             *)

Over     == bench \in {"next", "writing", "finished", "aborted"}
Attempts == {[cell |-> p.cell, trial |-> p.trial] : p \in running}

(* What the harness had to kill of a trial, the trial's result says: what  *)
(* the teardown left is leaked, and what was killed before it had escaped. *)
OwnsUpTo(killed, trial) ==
  \E leaked    \in {0} \cup {c.leaked : c \in trial.cleanup},
     confirmed \in {0} \cup {e.confirmed : e \in trial.escape} :
    /\ Cardinality({p \in killed : p.part # "escapee"}) <= leaked
    /\ Cardinality(killed) <= leaked + confirmed

KilledBy(trial) == {x.process : x \in {y \in ownKills : y.by = trial}}

(* Its own teardown did not work.                                          *)
LeftBehind(p) == [cell |-> p.cell, trial |-> p.trial] \in unstopped
HalfStarted(p) == plan[p.cell].launcher \in {"raw", "tmux"} /\ report[p.cell].failed

(* "never leaves strays behind" (launcher.rs:145): between trials a server *)
(* or an agent still runs only because raw or tmux failed half-way through *)
(* starting or a kill-server failed, and what the harness captured or      *)
(* confirmed only because its kill failed.  Nor does it tidy up for a      *)
(* launcher unseen: in a trial that is kept, it has sent no more kills     *)
(* than the trial's cleanup and escape results count.                      *)
StraysAreExplained ==
  /\ Over => \A p \in running :
       /\ p.part \in {"server", "agent"} => HalfStarted(p) \/ LeftBehind(p)
       /\ p \in caught => p \in unkilled
  /\ \A i \in DOMAIN report : \A k \in DOMAIN report[i].trials :
       OwnsUpTo(KilledBy([cell |-> i, trial |-> k]), report[i].trials[k])

(* The agents a trial measures are the ones it started: strangers only     *)
(* from a tmux server that a failed start or a failed kill-server left,    *)
(* absences only among the agents memmuxd admitted after the topology was  *)
(* read, or when it could not be read.                                     *)
MeasuresItsOwn ==
  bench \in {"sampling", "checking"} =>
    /\ \A p \in roots : \/ p \in {Agent(i) : i \in 1..AgentCount}
                        \/ /\ Cell.launcher = "tmux" /\ plan[p.cell].launcher = "tmux"
                           /\ report[p.cell].failed \/ LeftBehind(p)
    /\ {p \in Mine : p.part = "agent"} \subseteq roots \/ Cell.scenario = "overcommit"

=============================================================================
