------------------------------ MODULE StubAgent ------------------------------
(***************************************************************************)
(* The deterministic agent the benchmark launches: a script of steps that  *)
(* can be simulated, which computes its memory and its output, or          *)
(* executed, which allocates, writes, spawns workers and injects an        *)
(* escaped process.  The executed run is a process among others: its       *)
(* workers end when they like, a spawn fails, and the terminal it writes   *)
(* to may be gone.  Memory is in MiB.                                      *)
(***************************************************************************)
EXTENDS Integers, Sequences, FiniteSets, SequencesExt

CONSTANTS
  Scripts,         \* the recordings explored: [base, steps]
  Rounds,          \* rounds of a scenario's loop: 20, 100, 10 and 10 in the code
  MaxStubFailures  \* bound: spawns and writes that fail

Allocate(mib)        == [op |-> "Allocate", mib |-> mib, times |-> 1]
Free(mib)            == [op |-> "Free", mib |-> mib, times |-> 1]
Emit(lines, bytes)   == [op |-> "Emit", mib |-> bytes, times |-> lines]
Leak(mib, ticks)     == [op |-> "Leak", mib |-> mib, times |-> ticks]
Sleep                == [op |-> "Sleep", mib |-> 0, times |-> 1]
SpawnChild(mib)      == [op |-> "SpawnChild", mib |-> mib, times |-> 1]
Orphan               == [op |-> "Orphan", mib |-> 2, times |-> 1]
Step == [op : {"Allocate", "Free", "Emit", "Leak", "Sleep", "SpawnChild", "Orphan"},
         mib : Nat, times : Nat]

ASSUME StubAssumption ==
  /\ MaxStubFailures \in Nat /\ Rounds \in [{"burst", "soak", "idle", "leak"} -> Nat \ {0}]
  /\ \A s \in Scripts : s.base \in Nat /\ s.steps \in Seq(Step)

-----------------------------------------------------------------------------
(* Scenario::recording: the script of a scenario at an intensity.          *)

Times(n, steps) == FlattenSeq([i \in 1..n |-> steps])

BaseOf == [ClaudeCode |-> 320, Codex |-> 300, GeminiCli |-> 280, OpenCode |-> 260, Generic |-> 64]

ScenarioSteps(scenario, intensity, hold) ==
  CASE scenario = "burst" ->
         <<Allocate(40), SpawnChild(30)>> \o Times(Rounds.burst * intensity, <<Emit(500, 120)>>) \o <<Free(40)>>
    [] scenario = "soak"  -> Times(Rounds.soak * intensity, <<Emit(200, 100), Sleep>>)
    [] scenario = "idle"  -> Times(Rounds.idle * intensity, <<Sleep>>) \o <<Emit(1, 40)>>
    [] scenario = "leak"  -> <<SpawnChild(24), Leak(8, Rounds.leak * intensity)>>
    [] scenario = "hold"  -> <<Allocate(40), SpawnChild(30), Sleep, Free(40)>>
    [] scenario = "escape" -> <<Allocate(20), Orphan, Sleep, Free(20)>>
    [] scenario = "overcommit" -> <<Allocate(hold), SpawnChild(30), Sleep, Free(hold)>>

ScriptOf(scenario, provider, intensity, hold) ==
  [base |-> BaseOf[provider], steps |-> ScenarioSteps(scenario, intensity, hold)]

EscapesPerAgent(script) ==
  Cardinality({i \in DOMAIN script.steps : script.steps[i].op = "Orphan"})

-----------------------------------------------------------------------------
(* simulate: the model's memory and output after each step; saturating.    *)

Less(a, b) == IF a > b THEN a - b ELSE 0

Simulated(script) ==
  LET steps == script.steps
      point[i \in 0..Len(steps)] ==
        IF i = 0 THEN [resident |-> script.base, emitted |-> 0]
        ELSE LET before == point[i - 1]
                 s == steps[i]
             IN  CASE s.op = "Allocate" -> [before EXCEPT !.resident = @ + s.mib]
                   [] s.op = "Free"     -> [before EXCEPT !.resident = Less(@, s.mib)]
                   [] s.op = "Leak"     -> [before EXCEPT !.resident = @ + s.mib * s.times]
                   [] s.op = "Emit"     -> [before EXCEPT !.emitted = @ + s.mib * s.times]
                   [] OTHER             -> before
  IN  [i \in 0..Len(steps) |-> point[i]]

(* Trajectory::is_monotonic_growth: what the leak detector must catch.     *)
MonotonicGrowth(trajectory) ==
  LET last == Cardinality(DOMAIN trajectory) - 1
  IN  /\ \A i \in 1..last : trajectory[i].resident >= trajectory[i - 1].resident
      /\ trajectory[last].resident > trajectory[0].resident

-----------------------------------------------------------------------------
VARIABLES
  script, trajectory,  \* the recording, and what simulate says of it
  ip,            \* steps executed
  ballast,       \* blocks of one MiB held
  peak,          \* what execute will return
  written,       \* bytes written to the output
  workers,       \* children spawned and not waited for: step -> "runs" or "ended"
  orphans,       \* grandchildren that outlive their parent
  stubPhase,     \* "runs", "settles" in an Orphan step, "waits", "done", "broken"
  stubFailures

stubVars == <<script, trajectory, ip, ballast, peak, written, workers, orphans, stubPhase, stubFailures>>

StubInit ==
  /\ script \in Scripts /\ trajectory = Simulated(script)
  /\ ip = 0 /\ ballast = script.base /\ peak = script.base /\ written = 0
  /\ workers = <<>> /\ orphans = {} /\ stubPhase = "runs" /\ stubFailures = 0

StubTypeOK ==
  /\ ip \in 0..Len(script.steps) /\ {ballast, peak, written} \subseteq Nat
  /\ DOMAIN workers \subseteq 1..Len(script.steps) /\ orphans \subseteq 1..Len(script.steps)
  /\ stubPhase \in {"runs", "settles", "waits", "done", "broken"}
  /\ stubFailures \in 0..MaxStubFailures

MoreSteps == stubPhase = "runs" /\ ip < Len(script.steps)
Doing(op) == MoreSteps /\ script.steps[ip + 1].op = op
Now       == script.steps[ip + 1]

StepEnds(held) ==
  /\ ip' = ip + 1 /\ ballast' = held
  /\ peak' = IF held > peak THEN held ELSE peak
  /\ UNCHANGED <<script, trajectory>>

(* Ballast: a block per MiB; popping stops when there are none.            *)
Grow ==
  /\ Doing("Allocate") /\ StepEnds(ballast + Now.mib)
  /\ UNCHANGED <<written, workers, orphans, stubPhase, stubFailures>>
Shrink ==
  /\ Doing("Free") /\ StepEnds(Less(ballast, Now.mib))
  /\ UNCHANGED <<written, workers, orphans, stubPhase, stubFailures>>
LeakTicks ==
  /\ Doing("Leak") /\ StepEnds(ballast + Now.times * Now.mib)
  /\ UNCHANGED <<written, workers, orphans, stubPhase, stubFailures>>
Doze ==
  /\ Doing("Sleep") /\ StepEnds(ballast)
  /\ UNCHANGED <<written, workers, orphans, stubPhase, stubFailures>>

(* A line is never empty: its newline is written whatever its length.      *)
LineBytes(n) == IF n = 0 THEN 1 ELSE n
WriteLines ==
  /\ Doing("Emit") /\ StepEnds(ballast)
  /\ written' = written + Now.times * LineBytes(Now.mib)
  /\ UNCHANGED <<workers, orphans, stubPhase, stubFailures>>

(* write_all(..)?: execute returns at once, and the workers stay.          *)
WriteBreaks ==
  /\ Doing("Emit") /\ Now.times > 0 /\ stubFailures < MaxStubFailures
  /\ stubFailures' = stubFailures + 1 /\ stubPhase' = "broken"
  /\ UNCHANGED <<script, trajectory, ip, ballast, peak, written, workers, orphans>>

SpawnFails ==
  /\ Doing("SpawnChild") \/ Doing("Orphan")
  /\ stubFailures < MaxStubFailures /\ stubFailures' = stubFailures + 1
  /\ StepEnds(ballast) /\ UNCHANGED <<written, workers, orphans, stubPhase>>

SpawnWorker ==
  /\ Doing("SpawnChild") /\ StepEnds(ballast)
  /\ workers' = [i \in DOMAIN workers \cup {ip + 1} |-> IF i = ip + 1 THEN "runs" ELSE workers[i]]
  /\ UNCHANGED <<written, orphans, stubPhase, stubFailures>>

(* The intermediate forks a grandchild, stays for settle_ms and exits; the *)
(* agent waits for the intermediate only.  Its own fork may fail unseen.   *)
SpawnIntermediate ==
  /\ Doing("Orphan") /\ stubPhase' = "settles"
  /\ \/ orphans' = orphans \cup {ip + 1} /\ UNCHANGED stubFailures
     \/ /\ stubFailures < MaxStubFailures /\ stubFailures' = stubFailures + 1
        /\ UNCHANGED orphans
  /\ UNCHANGED <<script, trajectory, ip, ballast, peak, written, workers>>
IntermediateExits ==
  /\ stubPhase = "settles" /\ stubPhase' = "runs" /\ StepEnds(ballast)
  /\ UNCHANGED <<written, workers, orphans, stubFailures>>

WorkerEnds(i) ==
  /\ workers[i] = "runs" /\ workers' = [workers EXCEPT ![i] = "ended"]
  /\ UNCHANGED <<script, trajectory, ip, ballast, peak, written, orphans, stubPhase, stubFailures>>
OrphanEnds(i) ==
  /\ orphans' = orphans \ {i}
  /\ UNCHANGED <<script, trajectory, ip, ballast, peak, written, workers, stubPhase, stubFailures>>

(* Exits without waiting.                                                  *)
WaitForNobody ==
  /\ stubPhase = "waits" /\ stubPhase' = "done"
  /\ UNCHANGED <<script, trajectory, ip, ballast, peak, written, workers, orphans, stubFailures>>

(* Own what you launch: wait for each worker, in order, before exiting.    *)
ScriptEnds ==
  /\ stubPhase = "runs" /\ ip = Len(script.steps) /\ stubPhase' = "waits"
  /\ UNCHANGED <<script, trajectory, ip, ballast, peak, written, workers, orphans, stubFailures>>
WaitForAll ==
  /\ stubPhase = "waits" /\ \A i \in DOMAIN workers : workers[i] = "ended"
  /\ stubPhase' = "done"
  /\ UNCHANGED <<script, trajectory, ip, ballast, peak, written, workers, orphans, stubFailures>>

StubNext ==
  \/ Grow \/ Shrink \/ LeakTicks \/ Doze \/ WriteLines \/ WriteBreaks \/ SpawnFails
  \/ SpawnWorker \/ SpawnIntermediate \/ IntermediateExits \/ ScriptEnds \/ WaitForAll
  \/ \E i \in DOMAIN workers : WorkerEnds(i)
  \/ \E i \in orphans : OrphanEnds(i)

StubSpec == StubInit /\ [][StubNext]_stubVars

-----------------------------------------------------------------------------
PeakUpTo(trajectoryOf, upTo) ==
  CHOOSE n \in {trajectoryOf[i].resident : i \in 0..upTo} : \A i \in 0..upTo : n >= trajectoryOf[i].resident

(* A live run is what simulate predicted (stub.rs:179 against stub.rs:224) *)
(* whatever its workers do: after every step the same memory and the same  *)
(* output, but for the newline of a line scripted to have no bytes; the    *)
(* peak it reports is the trajectory's.  A script that leaks shows growth  *)
(* in both, and one that returns what it took does not.  Every worker has  *)
(* ended when a run ends, unless the run broke off in a write; an escaped  *)
(* process exists per Orphan step reached, failed spawns aside.            *)
RunMatchesSimulation ==
  /\ ballast = trajectory[ip].resident
  /\ peak = PeakUpTo(trajectory, ip)
  /\ (\A i \in 1..ip : script.steps[i].op = "Emit" => script.steps[i].mib > 0) =>
       written = trajectory[ip].emitted
  /\ MonotonicGrowth(trajectory) /\ stubPhase = "done" => ballast = peak /\ peak > script.base
  /\ stubPhase = "done" => \A i \in DOMAIN workers : workers[i] = "ended"
  /\ Cardinality(orphans) <= EscapesPerAgent(script)

=============================================================================
