---------------------------- MODULE BenchVerdict ----------------------------
(***************************************************************************)
(* What the benchmark reports: the summaries of a cell's trials and the    *)
(* launch gates over all of them.  An optional figure is a set of at most  *)
(* one element, a fraction is a percentage, memory is counted in           *)
(* processes.                                                              *)
(***************************************************************************)
EXTENDS Benchmark, FiniteSetsExt, SequencesExt

CONSTANTS
  GrowthLimit,   \* GateInputs::bounded_growth_limit_bytes
  AgentBudget,   \* RunConfig::agent_budget_bytes, or {}
  SampleCost     \* mean cost of a sample, in hundredths of a percent of the reference cadence

ASSUME VerdictAssumption == GrowthLimit \in Nat /\ SampleCost \in Nat /\ AgentBudget \subseteq Nat \ {0}

Least(S)    == IF S = {} THEN {} ELSE {Min(S)}
Greatest(S) == IF S = {} THEN {} ELSE {Max(S)}

(* TimeSeries: its peaks, its last record, its growth.                     *)
Totals(ts)      == [k \in DOMAIN ts |-> ts[k].provider + ts[k].manager]
Managers(ts)    == [k \in DOMAIN ts |-> ts[k].manager]
Firsts(ts)      == [k \in DOMAIN ts |-> ts[k].first]
Peak(figures)   == Max({0} \cup ToSet(figures))
Steady(figures) == IF figures = <<>> THEN 0 ELSE Last(figures)
Growth(ts)      == IF ts = <<>> THEN 0 ELSE Last(ts).first - Head(ts).first

(* A process below a root is attributed to it, and nothing is all of       *)
(* nothing.                                                                *)
TreeAttributed(r) == 100

(* The runs: the cells with a trial.                                       *)
Runs         == {i \in DOMAIN report : report[i].trials # <<>>}
MemMuxRuns   == {i \in Runs : plan[i].launcher = "memmux"}
TrialsOf(is) == UNION {ToSet(report[i].trials) : i \in is}
SeriesOf(i)  == Head(report[i].trials).records

(* The summaries of a cell.  A statistic is given as the values that       *)
(* `summarize` is handed, of the trials that have one.                     *)
Measured(i, part)  == {k \in DOMAIN report[i].trials : report[i].trials[k][part] # {}}
Figure(i, k, part) == CHOOSE figure \in report[i].trials[k][part] : TRUE

(* The manager's share of the processor: the mean of what could be read,   *)
(* in hundredths of a percent.                                             *)
CpuOf(i) ==
  LET read == Measured(i, "cpu")
  IN  IF read = {} THEN {}
      ELSE {SumFunctionOnSet([k \in read |-> 100 * Figure(i, k, "cpu")], read) \div Cardinality(read)}

CleanupSummary(i) ==
  LET present == Measured(i, "cleanup")
  IN  IF present = {} THEN {}
      ELSE {[owned  |-> [k \in present |-> Figure(i, k, "cleanup").owned],
             leaked |-> [k \in present |-> Figure(i, k, "cleanup").leaked]]}

(* What is there is taken at its worst.                                    *)
EscapeSummary(i) ==
  LET present == UNION {t.escape : t \in TrialsOf({i})}
  IN  IF present = {} THEN {}
      ELSE {[injected  |-> Max({e.injected : e \in present}),
             confirmed |-> Min({e.confirmed : e \in present}),
             detected  |-> Least(UNION {e.detected : e \in present})]}

(* preserved_fraction, n/a counting as all; the first of the lowest is the *)
(* worst.                                                                  *)
Preserved(h)    == IF h.victims = 0 THEN [of |-> 1, kept |-> 1] ELSE [of |-> h.victims, kept |-> h.captured]
AsGood(h, other) == Preserved(h).kept * Preserved(other).of >= Preserved(other).kept * Preserved(h).of
AsBad(h, other)  == Preserved(h).kept * Preserved(other).of <= Preserved(other).kept * Preserved(h).of
H4Summary(i) ==
  LET present == Measured(i, "h4")
      lowest  == {k \in present : \A j \in present : AsBad(Figure(i, k, "h4"), Figure(i, j, "h4"))}
      all     == UNION {t.h4 : t \in TrialsOf({i})}
  IN  IF present = {} THEN {}
      ELSE {[deferrals    |-> Max({h.deferrals : h \in all}),
             reclamations |-> Max({h.reclamations : h \in all}),
             worst        |-> Figure(i, Min(lowest), "h4")]}

(* RunSummary: the row of a cell; its shape is that of the first trial.    *)
RunSummary(i) ==
  LET trials == report[i].trials
  IN  [agents |-> plan[i].agents, trials |-> Len(trials), samples |-> Len(SeriesOf(i)),
       peakRoot      |-> Peak(Firsts(SeriesOf(i))),
       growth        |-> Growth(SeriesOf(i)),
       peakTotal     |-> [k \in DOMAIN trials |-> Peak(Totals(trials[k].records))],
       steadyTotal   |-> [k \in DOMAIN trials |-> Steady(Totals(trials[k].records))],
       peakManager   |-> [k \in DOMAIN trials |-> Peak(Managers(trials[k].records))],
       steadyManager |-> [k \in DOMAIN trials |-> Steady(Managers(trials[k].records))],
       attributed    |-> [k \in DOMAIN trials |->
                            Min({100} \cup {TreeAttributed(r) : r \in ToSet(trials[k].records)})],
       cpu     |-> CpuOf(i),
       cleanup |-> CleanupSummary(i), escape |-> EscapeSummary(i), h4 |-> H4Summary(i),
       budget  |-> IF plan[i].scenario = "overcommit" THEN AgentBudget ELSE {}]

(* derive_gate_inputs.                                                     *)
Attributed == Least({TreeAttributed(r) : r \in UNION {ToSet(SeriesOf(i)) : i \in Runs}})

Overhead ==
  LET read == UNION {CpuOf(i) : i \in MemMuxRuns}
  IN  IF \A i \in DOMAIN plan : plan[i].launcher # "memmux" THEN {}
      ELSE IF read # {} THEN Greatest(read)
      ELSE {Max({0} \cup {IF SeriesOf(i) = <<>> THEN 0 ELSE SampleCost : i \in MemMuxRuns})}

(* Only the first soak run and the first overcommitted one are looked at.  *)
FirstRunOf(scenario) == Least({i \in MemMuxRuns : plan[i].scenario = scenario})

SoakGrowth == {Growth(SeriesOf(i)) : i \in FirstRunOf("soak")}

Cleanups == UNION {t.cleanup : t \in TrialsOf(MemMuxRuns)}

Victimised == {h \in UNION {t.h4 : t \in TrialsOf(FirstRunOf("overcommit"))} : h.victims > 0}

SteadyUsage ==
  IF AgentBudget = {} THEN {}
  ELSE Greatest({Steady(Totals(t.records)) : t \in TrialsOf(FirstRunOf("overcommit"))})

(* evaluate_gates.                                                         *)
Gate(inputs, passing) ==
  IF inputs = {} THEN "Skipped" ELSE IF inputs \subseteq passing THEN "Pass" ELSE "Fail"

Gates ==
  [BoundedMemory     |-> Gate(SoakGrowth, {growth \in SoakGrowth : growth <= GrowthLimit}),
   Attribution       |-> Gate(Attributed, {pct \in Attributed : pct >= 95}),
   SamplingOverhead  |-> Gate(Overhead, {share \in Overhead : share <= 200}),
   Cleanup           |-> Gate(Cleanups, {c \in Cleanups : 1000 * (c.owned - c.leaked) >= 995 * c.owned}),
   NoLostWork        |-> Gate(Victimised, {h \in Victimised : h.captured >= h.victims}),
   PressureAvoidance |->
     Gate(SteadyUsage, {steady \in SteadyUsage : \A budget \in AgentBudget : 10 * steady <= 11 * budget}),
   Resume            |-> "Skipped"]

AllMeasuredGatesPass == \A name \in DOMAIN Gates : Gates[name] # "Fail"

-----------------------------------------------------------------------------
(* A tmux start or kill-server that failed left agents to the tmux trials  *)
(* after it.                                                               *)
HadStrangers(i) ==
  /\ plan[i].launcher = "tmux"
  /\ \/ \E j \in 1..i - 1 : plan[j].launcher = "tmux" /\ report[j].failed
     \/ \E trial \in unstopped : trial.cell <= i

(* The rows of the report say what the gates say, though each sums up the  *)
(* trials in its own way (report.rs:320, run.rs:851): where no work was    *)
(* lost, the worst trial shown lost none; where the gate is content with   *)
(* the cleanup, so is every trial of every row of memmux; and no row has   *)
(* more escapes confirmed than were injected (but for those of agents that *)
(* are not its own), a last sample above its peak, or, without a failure,  *)
(* fewer trials than were asked for.                                       *)
RowsAgree ==
  \A i \in Runs :
    LET row == RunSummary(i)
    IN  /\ {i} = FirstRunOf("soak") => (Gates.BoundedMemory = "Pass" <=> row.growth <= GrowthLimit)
        /\ {i} = FirstRunOf("overcommit") =>
             (Gates.NoLostWork = "Fail" <=> \E h \in row.h4 : h.worst.captured < h.worst.victims)
        /\ {i} = FirstRunOf("overcommit") /\ Gates.PressureAvoidance = "Pass" =>
             \A budget \in row.budget : \A k \in DOMAIN row.steadyTotal :
               10 * row.steadyTotal[k] <= 11 * budget
        /\ i \in MemMuxRuns /\ Gates.Cleanup = "Pass" =>
             \A c \in row.cleanup : \A k \in DOMAIN c.owned : 200 * c.leaked[k] <= c.owned[k]
        /\ i \in MemMuxRuns /\ Gates.SamplingOverhead = "Pass" => \A share \in row.cpu : share <= 200
        /\ \A e \in row.escape : e.confirmed <= e.injected \/ HadStrangers(i)
        /\ \A k \in DOMAIN row.peakTotal : row.steadyTotal[k] <= row.peakTotal[k]
                                           /\ row.peakManager[k] <= row.peakTotal[k]
        /\ row.trials <= plan[i].trials
        /\ (row.trials < plan[i].trials) => report[i].failed

(* Credit is only given where it is due.  A trial measures the agents it   *)
(* started; a cell without a trial says why; and the rows bear the gates   *)
(* out.  (That the cleanup result behind its gate hides nothing the        *)
(* harness killed is StraysAreExplained.)                                  *)
CreditsAreDue ==
  /\ MeasuresItsOwn
  /\ bench = "finished" => \A i \in DOMAIN plan : report[i].trials # <<>> \/ report[i].failed
  /\ bench = "finished" => RowsAgree

(* "the harness never reports a gate as *passed* on missing data"          *)
(* (gates.rs:5): a measured gate that passes has data of the launcher      *)
(* behind it.                                                              *)
GatesNeedData ==
  bench = "finished" =>
    /\ Gates.SamplingOverhead = "Pass" => MemMuxRuns # {}
    /\ Gates.Attribution = "Pass" => \E i \in Runs : \E r \in ToSet(SeriesOf(i)) : r.provider > 0
    /\ Gates.BoundedMemory = "Pass" => \E i \in MemMuxRuns : plan[i].scenario = "soak" /\ SeriesOf(i) # <<>>

=============================================================================
