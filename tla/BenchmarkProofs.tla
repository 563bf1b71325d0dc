-------------------------- MODULE BenchmarkProofs --------------------------
(***************************************************************************)
(* Proofs about the benchmark harness, for any plans, mishaps and any      *)
(* behaviour of the processes.  The argument: what still runs was started  *)
(* by an earlier trial or by this one; of an earlier one no agent and no   *)
(* server is left but after a failed start or a failed kill-server; a      *)
(* teardown that works leaves none of this one; and what was captured and  *)
(* still runs is among the survivors, or its kill failed.                  *)
(* A process is started once, so what was seen dead stays dead.  What the  *)
(* harness kills it has counted, what a trial counts is kept as it was     *)
(* counted, and the rows and the gates read the same trials.               *)
(* The last part is about the stub agent, for any scripts: the point of    *)
(* simulate after as many steps says what a live run holds and wrote.      *)
(***************************************************************************)
EXTENDS BenchVerdict, StubAgent, FoldLemmas, SequenceTheorems, TLAPS

Processes ==
  [cell : Nat \ {0}, trial : Nat \ {0}, agent : Nat, part : {"agent", "child", "escapee", "server"}]

(* A sequence, of whatever its elements are.                               *)
IsSeq(s) == s \in Seq({s[i] : i \in 1 .. Len(s)})

UnderWay == bench \notin {"next", "finished"}
Entered  == UnderWay \/ at.trial > 1

Current(p) == p.cell = at.cell /\ p.trial = at.trial
Before(p)  == p.cell < at.cell \/ (p.cell = at.cell /\ p.trial < at.trial)
IsTop(p)   == p.part \in {"server", "agent"}

USE DEF killVars

ReportOK ==
  /\ IsSeq(report) /\ Len(report) = (IF Entered THEN at.cell ELSE at.cell - 1)
  /\ Entered => at.cell <= Len(plan) /\ Cell.launcher # "external" /\ at.trial <= Cell.trials
  /\ \A i \in 1 .. Len(report) :
       /\ report[i] \in [trials : {report[i].trials}, failed : BOOLEAN] /\ IsSeq(report[i].trials)
       /\ Len(report[i].trials) <= (IF i = at.cell THEN at.trial - 1 ELSE plan[i].trials)

BenchTyped ==
  /\ plan \in Plans /\ at \in [cell : Nat \ {0}, trial : Nat \ {0}] /\ at.cell <= Len(plan) + 1
  /\ bench \in {"next", "starting", "sampling", "checking", "capturing", "escapes", "stopping",
                "polling", "writing", "finished", "aborted"}
  /\ launched \in Nat /\ polls \in 0..GracePolls /\ mishaps \in 0..MaxMishaps
  /\ running \cup roots \cup everSeen \cup owned \cup caught \cup forked \subseteq Processes
  /\ reparented \subseteq {p \in running : IsBelow(p)} /\ survivors \subseteq owned
  /\ ReportOK
  /\ \A trial \in unstopped :
       /\ trial \in [cell : 1..Len(plan), trial : Nat \ {0}]
       /\ trial.cell <= at.cell /\ plan[trial.cell].launcher = "tmux"

(* Who runs.                                                               *)
Explained(p) == HalfStarted(p) \/ LeftBehind(p)

RunnersOK ==
  \A p \in running :
    /\ Before(p) \/ (UnderWay /\ Current(p))
    /\ IsBelow(p) => AgentOf(p) \in forked
    /\ IsTop(p) /\ ~Current(p) => Explained(p)
    /\ IsTop(p) /\ Current(p) => bench \notin {"polling", "writing", "aborted"} \/ LeftBehind(p)
    /\ Current(p) /\ p.part = "agent" => p.agent \in 1..(IF bench = "starting" THEN launched ELSE AgentCount)
    /\ Current(p) /\ p.part = "server" => Cell.launcher # "raw"

RootsOK ==
  /\ bench = "starting" => launched <= AgentCount
  /\ bench \in {"sampling", "checking", "capturing", "escapes", "stopping"} /\ Cell.launcher = "raw"
       => roots = {Agent(i) : i \in 1..AgentCount}
  /\ bench \in {"sampling", "checking"} => \A p \in roots : p.cell <= at.cell
  /\ MeasuresItsOwn

CaughtOK ==
  /\ \A p \in caught :
       /\ Before(p) \/ (Current(p) /\ bench \in {"escapes", "stopping", "polling", "writing", "aborted"})
       /\ IsBelow(p) => AgentOf(p) \in forked
  /\ caught \cap running \subseteq
       unkilled \cup (IF bench \in {"escapes", "stopping", "polling"} THEN owned ELSE {})
  /\ bench \in {"escapes", "stopping", "polling"} => owned \subseteq caught
  /\ bench \in {"escapes", "stopping"} => survivors = owned
  /\ bench = "polling" => owned \cap running \subseteq survivors

StraysInv == BenchTyped /\ RunnersOK /\ RootsOK /\ CaughtOK

-----------------------------------------------------------------------------
LEMMA SeqIsSeq == ASSUME NEW S, NEW s \in Seq(S) PROVE IsSeq(s)
<1>. DEFINE E == {s[i] : i \in 1 .. Len(s)}
<1>1. Len(s) \in Nat /\ s \in [1 .. Len(s) -> S]
  BY LenProperties
<1>2. s \in [1 .. Len(s) -> E]
  BY <1>1
<1>3. s \in Seq(E)
  BY <1>1, <1>2
<1>. QED
  BY <1>3 DEF IsSeq

LEMMA IsSeqProperties == ASSUME NEW s, IsSeq(s) PROVE Len(s) \in Nat /\ DOMAIN s = 1 .. Len(s)
BY LenProperties DEF IsSeq

LEMMA IsSeqAppend ==
  ASSUME NEW s, IsSeq(s), NEW e
  PROVE  /\ IsSeq(Append(s, e)) /\ Len(Append(s, e)) = Len(s) + 1
         /\ \A i \in 1 .. Len(s) : Append(s, e)[i] = s[i]
         /\ Append(s, e)[Len(s) + 1] = e
<1>. DEFINE S == {s[i] : i \in 1 .. Len(s)} \cup {e}
<1>1. s \in Seq(S) /\ e \in S
  BY SeqMonotonic DEF IsSeq
<1>. HIDE DEF S
<1>2. /\ Append(s, e) \in Seq(S) /\ Len(Append(s, e)) = Len(s) + 1
      /\ \A i \in 1 .. Len(s) : Append(s, e)[i] = s[i]
      /\ Append(s, e)[Len(s) + 1] = e
  BY <1>1, AppendProperties
<1>3. IsSeq(Append(s, e))
  BY <1>2, SeqIsSeq
<1>. QED
  BY <1>2, <1>3

With(s, n, e) == [s EXCEPT ![n] = e]

LEMMA IsSeqWith ==
  ASSUME NEW s, IsSeq(s), NEW n \in 1 .. Len(s), NEW e
  PROVE  /\ IsSeq(With(s, n, e)) /\ Len(With(s, n, e)) = Len(s)
         /\ \A i \in 1 .. Len(s) : With(s, n, e)[i] = IF i = n THEN e ELSE s[i]
<1>. DEFINE S == {s[i] : i \in 1 .. Len(s)} \cup {e}
<1>1. s \in Seq(S) /\ e \in S
  BY SeqMonotonic DEF IsSeq
<1>. HIDE DEF S
<1>2. /\ With(s, n, e) \in Seq(S) /\ Len(With(s, n, e)) = Len(s)
      /\ \A i \in 1 .. Len(s) : With(s, n, e)[i] = IF i = n THEN e ELSE s[i]
  BY <1>1, ExceptSeq DEF With
<1>3. IsSeq(With(s, n, e))
  BY <1>2, SeqIsSeq
<1>. QED
  BY <1>2, <1>3

(* The cell of a trial.                                                    *)
LEMMA PlanOK ==
  ASSUME plan \in Plans
  PROVE  Len(plan) \in Nat /\ \A i \in 1 .. Len(plan) : plan[i] \in Cells
<1>1. plan \in Seq(Cells)
  BY BenchAssumption
<1>. QED
  BY <1>1, LenProperties, ElementOfSeq

LEMMA EnteredCell ==
  ASSUME BenchTyped, Entered
  PROVE  /\ at.cell \in 1 .. Len(plan) /\ Cell \in Cells /\ AgentCount \in Nat \ {0}
         /\ Cell.launcher \in BuiltinLaunchers /\ Cell.trials \in Nat \ {0}
<1>1. at.cell \in 1 .. Len(plan)
  BY PlanOK DEF BenchTyped, ReportOK
<1>2. Cell \in Cells
  BY <1>1, PlanOK DEF BenchTyped, Cell
<1>. QED
  BY <1>1, <1>2 DEF BenchTyped, ReportOK, Cells, AgentCount

LEMMA SameReport ==
  ASSUME ReportOK, UNCHANGED <<report, at, plan>>, Entered' <=> Entered
  PROVE  ReportOK'
BY DEF ReportOK, Entered, Cell

(* The processes go, or are adopted, on their own.                         *)
LEMMA Shrinks ==
  ASSUME StraysInv, running' \subseteq running, reparented' \subseteq {p \in running' : IsBelow(p)},
         UNCHANGED <<forked, plan, at, bench, trialVars, report, caught, killVars, mishaps>>
  PROVE  StraysInv'
<1>. USE DEF StraysInv, trialVars
<1>1. Entered' = Entered /\ UnderWay' = UnderWay /\ Cell' = Cell /\ AgentCount' = AgentCount
  BY DEF Entered, UnderWay, Cell, AgentCount
<1>2. BenchTyped'
  <2>1. ReportOK'
    BY <1>1, SameReport DEF BenchTyped
  <2>. QED
    BY <2>1 DEF BenchTyped
<1>3. RunnersOK'
  BY <1>1 DEF RunnersOK, Before, Current, Explained, HalfStarted, LeftBehind
<1>4. RootsOK'
  BY <1>1 DEF RootsOK, MeasuresItsOwn, LeftBehind, Mine, Agent
<1>5. CaughtOK'
  BY DEF CaughtOK, Before, Current
<1>. QED
  BY <1>2, <1>3, <1>4, <1>5

LEMMA DeathsShrink ==
  ASSUME BenchTyped, NEW ps, Dies(ps)
  PROVE  running' = running \ ps /\ reparented' \subseteq {p \in running' : IsBelow(p)}
BY DEF BenchTyped, Dies

LEMMA Offspring ==
  ASSUME NEW a \in Processes, a.part = "agent", NEW part \in {"child", "escapee"}
  PROVE  LET c == [a EXCEPT !.part = part]
         IN  /\ c \in Processes /\ IsBelow(c) /\ ~IsTop(c) /\ AgentOf(c) = a
             /\ c.cell = a.cell /\ c.trial = a.trial
BY DEF Processes, IsBelow, IsTop, AgentOf

LEMMA ForkStep == ASSUME StraysInv, NEW a \in running, AgentForks(a) PROVE StraysInv'
<1>. USE DEF StraysInv
<1>1. PICK part \in {"child", "escapee"} : running' = running \cup {[a EXCEPT !.part = part]}
  BY DEF AgentForks
<1>. DEFINE c == [a EXCEPT !.part = part]
<1>2. a \in Processes /\ a.part = "agent" /\ a \notin forked /\ forked' = forked \cup {a}
  BY DEF AgentForks, BenchTyped
<1>3. /\ c \in Processes /\ IsBelow(c) /\ ~IsTop(c) /\ AgentOf(c) = a
      /\ c.cell = a.cell /\ c.trial = a.trial
  BY <1>2, Offspring
<1>4. running' = running \cup {c}
  BY <1>1
<1>5. UNCHANGED <<reparented, plan, at, bench, trialVars, report, caught, killVars, mishaps>>
  BY DEF AgentForks
<1>. HIDE DEF c
<1>6. Entered' = Entered /\ UnderWay' = UnderWay /\ Cell' = Cell /\ AgentCount' = AgentCount
  BY <1>5 DEF Entered, UnderWay, Cell, AgentCount
<1>7. BenchTyped'
  <2>1. ReportOK'
    BY <1>5, <1>6, SameReport DEF BenchTyped
  <2>. QED
    BY <2>1, <1>2, <1>3, <1>4, <1>5 DEF BenchTyped, trialVars
<1>8. RunnersOK'
  <2>1. ~(c.part \in {"agent", "server"})
    BY <1>3 DEF IsTop
  <2>. QED
    BY <2>1, <1>2, <1>3, <1>4, <1>5, <1>6 DEF RunnersOK, Before, Current, Explained, HalfStarted, LeftBehind, trialVars
<1>9. RootsOK'
  <2>1. c.part # "agent"
    BY <1>3 DEF IsTop
  <2>2. MeasuresItsOwn'
    BY <2>1, <1>4, <1>5, <1>6 DEF RootsOK, MeasuresItsOwn, LeftBehind, Mine, Agent, trialVars
  <2>. QED
    BY <2>2, <1>5, <1>6 DEF RootsOK, Agent, trialVars
<1>10. CaughtOK'
  <2>1. c \notin caught
    BY <1>2, <1>3 DEF CaughtOK
  <2>2. c \notin owned \/ bench # "polling"
    BY <2>1 DEF CaughtOK
  <2>. QED
    BY <2>1, <2>2, <1>2, <1>4, <1>5 DEF CaughtOK, Before, Current, trialVars
<1>. QED
  BY <1>7, <1>8, <1>9, <1>10

LEMMA EscapeStep == ASSUME StraysInv, NEW p \in running, Escapes(p) PROVE StraysInv'
<1>1. reparented' \subseteq {q \in running' : IsBelow(q)}
  BY DEF StraysInv, BenchTyped, Escapes, IsBelow
<1>. QED
  BY <1>1, Shrinks DEF Escapes

LEMMA ExitStep == ASSUME StraysInv, NEW p \in running, Exits(p) PROVE StraysInv'
<1>1. Dies({p})
  BY DEF Exits
<1>2. running' \subseteq running /\ reparented' \subseteq {q \in running' : IsBelow(q)}
  BY <1>1, DeathsShrink DEF StraysInv
<1>. QED
  BY <1>2, Shrinks DEF Exits

-----------------------------------------------------------------------------
(* Between trials.                                                         *)
LEMMA InitStrays == BenchInit => StraysInv
<1>. SUFFICES ASSUME BenchInit PROVE StraysInv
  OBVIOUS
<1>. USE DEF BenchInit
<1>1. at.cell = 1 /\ at.trial = 1 /\ at \in [cell : Nat \ {0}, trial : Nat \ {0}]
  OBVIOUS
<1>2. ~UnderWay /\ ~Entered
  BY <1>1 DEF UnderWay, Entered
<1>3. IsSeq(<<>>) /\ Len(<<>>) = 0
  BY EmptySeq, SeqIsSeq
<1>4. ReportOK
  BY <1>1, <1>2, <1>3 DEF ReportOK
<1>5. BenchTyped
  BY <1>1, <1>4, PlanOK, BenchAssumption DEF BenchTyped
<1>. QED
  BY <1>5 DEF StraysInv, RunnersOK, RootsOK, CaughtOK, MeasuresItsOwn

LEMMA SkipStep == ASSUME StraysInv, SkipUnavailable PROVE StraysInv'
<1>. USE DEF StraysInv, SkipUnavailable
<1>1. ~Entered /\ ~UnderWay /\ bench = "next" /\ at.cell \in Nat \ {0} /\ at.trial = 1
  BY DEF BenchTyped, ReportOK, Entered, UnderWay
<1>2. /\ at'.cell = at.cell + 1 /\ at'.trial = 1 /\ at' \in [cell : Nat \ {0}, trial : Nat \ {0}]
      /\ bench' = bench /\ plan' = plan
      /\ ~Entered' /\ ~UnderWay'
  BY <1>1 DEF UnderWay, Entered
<1>. DEFINE new == [trials |-> <<>>, failed |-> TRUE]
<1>3. /\ IsSeq(report') /\ Len(report') = Len(report) + 1 /\ Len(report) = at.cell - 1
      /\ \A i \in 1 .. Len(report) : report'[i] = report[i]
      /\ report'[at.cell] = new
  BY <1>1, IsSeqAppend DEF BenchTyped, ReportOK
<1>4. /\ new.trials = <<>> /\ new \in [trials : {new.trials}, failed : BOOLEAN]
      /\ IsSeq(new.trials) /\ Len(new.trials) = 0
  BY EmptySeq, SeqIsSeq
<1>. HIDE DEF new
<1>5. at.cell \in 1 .. Len(plan) /\ plan[at.cell].trials \in Nat
  BY <1>1, PlanOK DEF BenchTyped, Cells
<1>6. \A i \in 1 .. Len(report') : i \in 1 .. Len(report) \/ i = at.cell
  BY <1>1, <1>3
<1>7. \A i \in 1 .. Len(report) :
        /\ report'[i] \in [trials : {report'[i].trials}, failed : BOOLEAN] /\ IsSeq(report'[i].trials)
        /\ i # at'.cell /\ Len(report'[i].trials) <= plan'[i].trials
  <2>. TAKE i \in 1 .. Len(report)
  <2>1. i < at.cell /\ report'[i] = report[i]
    BY <1>1, <1>3
  <2>. QED
    BY <1>1, <1>2, <2>1 DEF BenchTyped, ReportOK
<1>8. ReportOK'
  BY <1>1, <1>2, <1>3, <1>4, <1>5, <1>6, <1>7 DEF ReportOK
<1>9. BenchTyped'
  BY <1>1, <1>2, <1>5, <1>8, PlanOK DEF BenchTyped, processVars, trialVars
<1>10. RunnersOK'
  <2>. SUFFICES ASSUME NEW p \in running
                PROVE  Before(p)' /\ (IsBelow(p) => AgentOf(p) \in forked) /\ (IsTop(p) => Explained(p)')
    BY <1>1, <1>2 DEF RunnersOK, Current, Before, processVars, BenchTyped, Processes
  <2>1. p \in Processes /\ Before(p) /\ ~Current(p) /\ p.cell < at.cell
    BY <1>1 DEF RunnersOK, BenchTyped, Before, Current, Processes
  <2>2. IsTop(p) => Explained(p)
    BY <2>1 DEF RunnersOK
  <2>3. p.cell \in 1 .. Len(report) /\ report'[p.cell] = report[p.cell]
    BY <1>1, <1>3, <2>1 DEF Processes
  <2>4. Explained(p)' = Explained(p)
    BY <1>2, <2>3 DEF Explained, HalfStarted, LeftBehind
  <2>5. Before(p)'
    BY <1>1, <1>2, <2>1 DEF Before, Processes
  <2>6. IsBelow(p) => AgentOf(p) \in forked
    BY DEF RunnersOK
  <2>. QED
    BY <2>2, <2>4, <2>5, <2>6
<1>11. RootsOK'
  BY <1>1, <1>2 DEF RootsOK, MeasuresItsOwn
<1>12. CaughtOK'
  <2>1. \A p \in caught : Before(p)'
    BY <1>1, <1>2 DEF CaughtOK, BenchTyped, Before, Processes
  <2>. QED
    BY <1>1, <1>2, <2>1 DEF CaughtOK, processVars, trialVars
<1>. QED
  BY <1>9, <1>10, <1>11, <1>12

LEMMA BeginStep == ASSUME StraysInv, BeginTrial PROVE StraysInv'
<1>. USE DEF StraysInv, BeginTrial
<1>1. ~UnderWay /\ at.cell \in Nat \ {0} /\ at.trial \in Nat \ {0} /\ bench' = "starting" /\ UnderWay' /\ Entered'
  BY DEF BenchTyped, UnderWay, Entered
<1>2. at' = at /\ plan' = plan /\ Cell' = Cell
  BY DEF Cell
<1>3. at.cell \in 1 .. Len(plan) /\ Cell \in Cells /\ Cell.trials \in Nat \ {0}
  BY <1>1, PlanOK DEF BenchTyped, Cells, Cell
<1>4. ReportOK'
  <2>1. CASE at.trial = 1
    <3>. DEFINE new == [trials |-> <<>>, failed |-> FALSE]
    <3>1. ~Entered /\ Len(report) = at.cell - 1 /\ IsSeq(report)
      BY <1>1, <2>1 DEF Entered, ReportOK, BenchTyped
    <3>2. /\ IsSeq(report') /\ Len(report') = Len(report) + 1
          /\ \A i \in 1 .. Len(report) : report'[i] = report[i]
          /\ report'[at.cell] = new
      BY <3>1, <1>1, <2>1, IsSeqAppend
    <3>3. /\ new.trials = <<>> /\ new \in [trials : {new.trials}, failed : BOOLEAN]
          /\ IsSeq(new.trials) /\ Len(new.trials) = 0
      BY EmptySeq, SeqIsSeq
    <3>. HIDE DEF new
    <3>4. \A i \in 1 .. Len(report') : i \in 1 .. Len(report) \/ i = at.cell
      BY <1>1, <3>1, <3>2
    <3>5. \A i \in 1 .. Len(report) :
            /\ report'[i] \in [trials : {report'[i].trials}, failed : BOOLEAN] /\ IsSeq(report'[i].trials)
            /\ i # at'.cell /\ Len(report'[i].trials) <= plan'[i].trials
      <4>. TAKE i \in 1 .. Len(report)
      <4>1. i # at.cell /\ report'[i] = report[i]
        BY <1>1, <3>1, <3>2
      <4>. QED
        BY <1>2, <4>1 DEF BenchTyped, ReportOK
    <3>. QED
      BY <1>1, <1>2, <1>3, <2>1, <3>1, <3>2, <3>3, <3>4, <3>5 DEF ReportOK
  <2>2. CASE at.trial # 1
    <3>1. Entered
      BY <1>1, <2>2 DEF Entered
    <3>. QED
      BY <1>1, <2>2, <3>1, SameReport DEF BenchTyped
  <2>. QED
    BY <2>1, <2>2
<1>5. \A p \in running : Before(p) /\ ~Current(p) /\ (IsTop(p) => Explained(p))
  BY <1>1 DEF RunnersOK, BenchTyped, Before, Current, Processes
<1>6. \A p \in caught : Before(p)
  BY <1>1 DEF CaughtOK, UnderWay
<1>7. \A p \in running : p.cell \in 1 .. Len(report)
  BY <1>1, <1>5 DEF BenchTyped, Processes, ReportOK, Before, Entered
<1>8. \A i \in 1 .. Len(report) : report'[i] = report[i]
  BY IsSeqAppend DEF BenchTyped, ReportOK
<1>9. \A p \in running : (Before(p) /\ ~Current(p) /\ (IsTop(p) => Explained(p)))'
  BY <1>2, <1>5, <1>7, <1>8 DEF Before, Current, Explained, HalfStarted, LeftBehind, processVars
<1>10. BenchTyped'
  BY <1>1, <1>2, <1>4, BenchAssumption DEF BenchTyped, processVars
<1>11. RunnersOK'
  BY <1>1, <1>9 DEF RunnersOK, processVars
<1>12. RootsOK'
  BY <1>1, <1>2, <1>3 DEF RootsOK, MeasuresItsOwn, LeftBehind, AgentCount, Cells
<1>13. CaughtOK'
  BY <1>1, <1>2, <1>6 DEF CaughtOK, Before, processVars, UnderWay
<1>. QED
  BY <1>10, <1>11, <1>12, <1>13

(* The end of a trial: whatever this trial started and still runs is below *)
(* an agent, or was left by a failed start.                                *)
LEMMA FailStep ==
  ASSUME StraysInv, UnderWay, bench # "aborted", TrialFails, plan' = plan, forked' = forked,
         trialVars' = trialVars, caught' = caught, killVars' = killVars,
         mishaps' \in 0..MaxMishaps,
         running' \subseteq running, reparented' \subseteq {p \in running' : IsBelow(p)},
         Cell.launcher \in {"raw", "tmux"} \/ \A p \in running' : IsTop(p) /\ Current(p) => LeftBehind(p),
         caught \cap running' \subseteq unkilled
  PROVE  StraysInv'
<1>. USE DEF StraysInv
<1>1. Entered /\ bench' = "next" /\ at.cell \in Nat \ {0} /\ at.trial \in Nat \ {0}
  BY DEF Entered, TrialFails, BenchTyped
<1>2. /\ at'.cell = at.cell + 1 /\ at'.trial = 1 /\ at' \in [cell : Nat \ {0}, trial : Nat \ {0}]
      /\ ~Entered' /\ ~UnderWay'
  BY <1>1 DEF UnderWay, Entered, TrialFails
<1>3. /\ at.cell \in 1 .. Len(plan) /\ Len(report) = at.cell /\ IsSeq(report)
      /\ at.trial <= Cell.trials /\ Cell.trials \in Nat
  BY <1>1, EnteredCell DEF BenchTyped, ReportOK
<1>. DEFINE old == report[at.cell]
            new == [old EXCEPT !.failed = TRUE]
<1>4. report' = With(report, at.cell, new)
  BY <1>3 DEF TrialFails, With
<1>5. /\ old \in [trials : {old.trials}, failed : BOOLEAN] /\ IsSeq(old.trials)
      /\ Len(old.trials) <= at.trial - 1
  BY <1>3 DEF BenchTyped, ReportOK
<1>6. /\ new.trials = old.trials /\ new \in [trials : {new.trials}, failed : BOOLEAN] /\ new.failed = TRUE
  BY <1>5
<1>. HIDE DEF old, new
<1>7. /\ IsSeq(report') /\ Len(report') = Len(report)
      /\ \A i \in 1 .. Len(report) : report'[i] = IF i = at.cell THEN new ELSE report[i]
  <2>1. at.cell \in 1 .. Len(report)
    BY <1>1, <1>3
  <2>. QED
    BY <1>3, <1>4, <2>1, IsSeqWith
<1>8. \A i \in 1 .. Len(report) :
        /\ report'[i] \in [trials : {report'[i].trials}, failed : BOOLEAN] /\ IsSeq(report'[i].trials)
        /\ i # at'.cell /\ Len(report'[i].trials) <= plan'[i].trials
  <2>. TAKE i \in 1 .. Len(report)
  <2>1. CASE i = at.cell
    <3>1. Len(old.trials) \in Nat
      BY <1>5, IsSeqProperties
    <3>. QED
      BY <1>1, <1>2, <1>3, <1>5, <1>6, <1>7, <2>1, <3>1 DEF Cell
  <2>2. CASE i # at.cell
    BY <1>1, <1>2, <1>3, <1>7, <2>2 DEF BenchTyped, ReportOK
  <2>. QED
    BY <2>1, <2>2
<1>9. ReportOK'
  BY <1>1, <1>2, <1>3, <1>7, <1>8 DEF ReportOK
<1>10. BenchTyped'
  BY <1>1, <1>2, <1>3, <1>9, PlanOK DEF BenchTyped, trialVars
<1>11. RunnersOK'
  <2>. SUFFICES ASSUME NEW p \in running'
                PROVE  Before(p)' /\ ~Current(p)' /\ (IsBelow(p) => AgentOf(p) \in forked)
                       /\ (IsTop(p) => Explained(p)')
    BY <1>1 DEF RunnersOK
  <2>1. p \in running /\ p \in Processes /\ (Before(p) \/ Current(p)) /\ p.cell <= at.cell
    BY <1>1 DEF RunnersOK, BenchTyped, Before, Current, Processes
  <2>2. Before(p)' /\ ~Current(p)' /\ p.cell \in 1 .. Len(report)
    BY <1>1, <1>2, <1>3, <2>1 DEF Before, Current, Processes
  <2>3. IsTop(p) => Explained(p)'
    <3>1. CASE Current(p)
      BY <1>3, <1>6, <1>7, <2>1, <3>1 DEF Current, Explained, HalfStarted, LeftBehind, Cell
    <3>2. CASE ~Current(p)
      BY <1>6, <1>7, <2>1, <2>2, <3>2 DEF RunnersOK, Explained, HalfStarted, LeftBehind
    <3>. QED
      BY <3>1, <3>2
  <2>. QED
    BY <2>1, <2>2, <2>3 DEF RunnersOK
<1>12. RootsOK'
  BY <1>1 DEF RootsOK, MeasuresItsOwn
<1>13. CaughtOK'
  <2>1. \A p \in caught : Before(p)'
    BY <1>1, <1>2 DEF CaughtOK, BenchTyped, Before, Current, Processes
  <2>. QED
    BY <1>1, <2>1 DEF CaughtOK
<1>. QED
  BY <1>10, <1>11, <1>12, <1>13

-----------------------------------------------------------------------------
(* Starting.                                                               *)
LEMMA LaunchStep == ASSUME StraysInv, LaunchAgent PROVE StraysInv'
<1>. USE DEF StraysInv
<1>. DEFINE new == running' \ running
<1>1. /\ running' = running \cup new /\ new \subseteq {Server, Agent(launched + 1)}
      /\ Server \in new => Cell.launcher # "raw"
  <2>1. Server # Agent(launched + 1)
    BY DEF Server, Agent
  <2>. DEFINE server == IF Cell.launcher = "raw" \/ \E p \in Hosted : p.part = "server" THEN {} ELSE {Server}
  <2>2. running' = running \cup server \cup {Agent(launched + 1)} \/ running' = running \cup server
    BY DEF LaunchAgent
  <2>3. server \subseteq {Server} /\ (Server \in server => Cell.launcher # "raw")
    OBVIOUS
  <2>. HIDE DEF server
  <2>. QED
    BY <2>1, <2>2, <2>3
<1>. HIDE DEF new
<1>2. /\ UNCHANGED <<reparented, forked, plan, at, bench, roots, measured, everSeen, owned, survivors,
                     polls, report, caught, killVars, mishaps>>
      /\ launched' = launched + 1 /\ launched < AgentCount /\ bench = "starting" /\ launched \in Nat
  BY DEF LaunchAgent, BenchTyped
<1>3. /\ UnderWay /\ Entered /\ UnderWay' /\ Entered' /\ Cell' = Cell /\ AgentCount' = AgentCount
      /\ AgentCount \in Nat
  BY <1>2, EnteredCell DEF UnderWay, Entered, Cell, AgentCount
<1>4. \A p \in new : /\ p \in Processes /\ Current(p) /\ IsTop(p) /\ ~IsBelow(p)
                     /\ p.part = "agent" => p.agent = launched + 1
                     /\ p.part = "server" => Cell.launcher # "raw"
  <2>1. /\ Server.part = "server" /\ Server.cell = at.cell /\ Server.trial = at.trial /\ Server \in Processes
        /\ Agent(launched + 1).part = "agent" /\ Agent(launched + 1).cell = at.cell
        /\ Agent(launched + 1).trial = at.trial /\ Agent(launched + 1) \in Processes
        /\ Agent(launched + 1).agent = launched + 1
    BY <1>2 DEF Server, Agent, Processes, BenchTyped
  <2>. QED
    BY <1>1, <2>1 DEF Current, IsTop, IsBelow
<1>5. BenchTyped'
  <2>1. ReportOK'
    BY <1>2, <1>3, SameReport DEF BenchTyped
  <2>. QED
    BY <1>1, <1>2, <1>4, <2>1 DEF BenchTyped
<1>6. RunnersOK'
  <2>. SUFFICES ASSUME NEW p \in running'
                PROVE  /\ Before(p) \/ Current(p)
                       /\ IsBelow(p) => AgentOf(p) \in forked
                       /\ IsTop(p) /\ ~Current(p) => Explained(p)
                       /\ Current(p) /\ p.part = "agent" => p.agent \in 1..launched + 1
                       /\ Current(p) /\ p.part = "server" => Cell.launcher # "raw"
    BY <1>2, <1>3 DEF RunnersOK, Before, Current, Explained, HalfStarted, LeftBehind
  <2>1. CASE p \in running
    BY <1>2, <2>1 DEF RunnersOK
  <2>2. CASE p \in new
    BY <1>2, <1>4, <2>2
  <2>. QED
    BY <1>1, <2>1, <2>2
<1>7. RootsOK'
  BY <1>2, <1>3 DEF RootsOK, MeasuresItsOwn
<1>8. CaughtOK'
  <2>1. \A p \in new : p \notin caught
    BY <1>2, <1>4 DEF CaughtOK, Before, Current, Processes, BenchTyped
  <2>. QED
    BY <1>1, <1>2, <2>1 DEF CaughtOK, Before, Current
<1>. QED
  BY <1>5, <1>6, <1>7, <1>8

LEMMA LateStep == ASSUME StraysInv, AdmitsLate PROVE StraysInv'
<1>. USE DEF StraysInv
<1>1. PICK i \in 1 .. AgentCount : running' = running \cup {Agent(i)}
  BY DEF AdmitsLate
<1>. DEFINE a == Agent(i)
<1>2. /\ UNCHANGED <<reparented, forked, plan, at, bench, launched, roots, measured, everSeen, owned, survivors,
                     polls, report, caught, killVars, mishaps>>
      /\ bench \in {"sampling", "checking"} /\ Overcommits
  BY DEF AdmitsLate, trialVars
<1>3. /\ UnderWay /\ Entered /\ UnderWay' /\ Entered' /\ Cell' = Cell /\ AgentCount' = AgentCount
      /\ AgentCount \in Nat
  BY <1>2, EnteredCell DEF UnderWay, Entered, Cell, AgentCount
<1>4. a \in Processes /\ Current(a) /\ ~IsBelow(a) /\ a.part = "agent" /\ a.agent = i
  BY <1>3 DEF Agent, Processes, BenchTyped, Current, IsBelow
<1>. HIDE DEF a
<1>5. running' = running \cup {a}
  BY <1>1 DEF a
<1>6. BenchTyped'
  <2>1. ReportOK'
    BY <1>2, <1>3, SameReport DEF BenchTyped
  <2>. QED
    BY <1>2, <1>4, <1>5, <2>1 DEF BenchTyped
<1>7. RunnersOK'
  <2>. SUFFICES ASSUME NEW p \in running'
                PROVE  /\ Before(p) \/ Current(p)
                       /\ IsBelow(p) => AgentOf(p) \in forked
                       /\ IsTop(p) /\ ~Current(p) => Explained(p)
                       /\ Current(p) /\ p.part = "agent" => p.agent \in 1..AgentCount
                       /\ Current(p) /\ p.part = "server" => Cell.launcher # "raw"
    BY <1>2, <1>3 DEF RunnersOK, Before, Current, Explained, HalfStarted, LeftBehind
  <2>1. CASE p \in running
    BY <1>2, <2>1 DEF RunnersOK
  <2>2. CASE p = a
    BY <1>2, <1>4, <2>2
  <2>. QED
    BY <1>5, <2>1, <2>2
<1>8. RootsOK'
  <2>1. Cell.launcher # "raw" /\ Cell.scenario = "overcommit"
    BY <1>2 DEF Overcommits
  <2>. QED
    BY <1>2, <1>3, <2>1 DEF RootsOK, MeasuresItsOwn, LeftBehind, Agent
<1>9. CaughtOK'
  <2>1. a \notin caught
    BY <1>2, <1>4 DEF CaughtOK, Before, Current, Processes, BenchTyped
  <2>. QED
    BY <1>2, <1>5, <2>1 DEF CaughtOK, Before, Current
<1>. QED
  BY <1>6, <1>7, <1>8, <1>9

LEMMA MishapOK == ASSUME BenchTyped, Mishap \/ UNCHANGED mishaps PROVE mishaps' \in 0..MaxMishaps
BY BenchAssumption DEF BenchTyped, Mishap

LEMMA HangUpShrinks ==
  ASSUME BenchTyped, NEW ps, HangsUp(ps)
  PROVE  /\ running' \subseteq running /\ reparented' \subseteq {p \in running' : IsBelow(p)}
         /\ \A p \in running' : IsTop(p) => p \notin ps
<1>1. PICK deaf \in SUBSET {p \in ps : IsBelow(p)} : Dies(ps \ deaf)
  BY DEF HangsUp
<1>2. running' = running \ (ps \ deaf) /\ reparented' \subseteq {p \in running' : IsBelow(p)}
  BY <1>1, DeathsShrink
<1>. QED
  BY <1>1, <1>2 DEF IsTop, IsBelow

(* What the multiplexer of this trial hosts, this trial's are part of.     *)
LEMMA HostsMine ==
  ASSUME BenchTyped, Cell.launcher # "raw" PROVE \A p \in running : Current(p) => p \in Hosted
BY DEF Hosted, Mine, Current, Cell

LEMMA StartFailsStep == ASSUME StraysInv, StartFails PROVE StraysInv'
<1>1. bench = "starting" /\ UnderWay
  BY DEF StartFails, UnderWay
<1>2. /\ running' \subseteq running /\ reparented' \subseteq {p \in running' : IsBelow(p)}
      /\ Cell.launcher \in {"raw", "tmux"} \/ \A p \in running' : IsTop(p) /\ Current(p) => LeftBehind(p)
  <2>1. CASE Cell.launcher \in {"raw", "tmux"}
    BY <2>1, DeathsShrink DEF StartFails, AbandonStart, StraysInv
  <2>2. CASE Cell.launcher \notin {"raw", "tmux"}
    <3>1. HangsUp(Hosted)
      BY <2>2 DEF StartFails, AbandonStart
    <3>. QED
      BY <2>2, <3>1, HangUpShrinks, HostsMine DEF StraysInv
  <2>. QED
    BY <2>1, <2>2
<1>3. caught \cap running' \subseteq unkilled
  BY <1>1, <1>2 DEF StraysInv, CaughtOK
<1>4. mishaps' \in 0..MaxMishaps
  BY BenchAssumption DEF StartFails, Mishap, StraysInv, BenchTyped
<1>. QED
  BY <1>1, <1>2, <1>3, <1>4, FailStep DEF StartFails

LEMMA NobodyStep == ASSUME StraysInv, StartFindsNobody PROVE StraysInv'
<1>1. bench = "starting" /\ UnderWay /\ Entered
  BY DEF StartFindsNobody, UnderWay, Entered
<1>2. /\ running' \subseteq running /\ reparented' \subseteq {p \in running' : IsBelow(p)}
      /\ Cell.launcher \in {"raw", "tmux"} \/ \A p \in running' : IsTop(p) => p \notin Hosted
  <2>1. CASE HangsUp(Hosted)
    BY <2>1, HangUpShrinks DEF StraysInv
  <2>2. CASE KillServerFails
    BY <2>2, DeathsShrink DEF KillServerFails, StraysInv
  <2>. QED
    BY <2>1, <2>2 DEF StartFindsNobody
<1>3. Cell.launcher \in {"raw", "tmux"} \/ \A p \in running' : IsTop(p) /\ Current(p) => LeftBehind(p)
  BY <1>2, HostsMine DEF StraysInv
<1>4. caught \cap running' \subseteq unkilled /\ mishaps' \in 0..MaxMishaps
  BY <1>1, <1>2, MishapOK DEF StraysInv, CaughtOK, StartFindsNobody, KillServerFails
<1>. QED
  BY <1>1, <1>2, <1>3, <1>4, FailStep DEF StartFindsNobody

LEMMA StartReturnsStep == ASSUME StraysInv, StartReturns PROVE StraysInv'
<1>. USE DEF StraysInv
<1>1. /\ UNCHANGED <<plan, at, running, reparented, forked, launched, measured, everSeen, owned, survivors,
                     polls, report, caught, killVars>>
      /\ bench = "starting" /\ bench' = "sampling" /\ launched = AgentCount
      /\ roots' = Topology \/ (roots' = {} /\ Overcommits)
      /\ mishaps' \in 0..MaxMishaps
  BY MishapOK DEF StartReturns, processVars
<1>2. UnderWay /\ Entered /\ UnderWay' /\ Entered' /\ Cell' = Cell /\ AgentCount' = AgentCount
  BY <1>1 DEF UnderWay, Entered, Cell, AgentCount
<1>3. /\ at.cell \in 1 .. Len(plan) /\ AgentCount \in Nat \ {0} /\ Cell.launcher \in BuiltinLaunchers
  BY <1>2, EnteredCell
<1>4. \A i \in 1 .. AgentCount : Agent(i) \in Processes
  BY <1>3 DEF Agent, Processes, BenchTyped
<1>5. \A p \in running : Current(p) /\ p.part = "agent" => p \in {Agent(i) : i \in 1..AgentCount}
  <2>. SUFFICES ASSUME NEW p \in running, Current(p), p.part = "agent"
                PROVE  p = Agent(p.agent) /\ p.agent \in 1..AgentCount
    OBVIOUS
  <2>1. p \in Processes /\ p.agent \in 1..AgentCount
    BY <1>1 DEF BenchTyped, RunnersOK
  <2>. QED
    BY <2>1 DEF Current, Agent, Processes
<1>6. Hosted \subseteq running
  BY DEF Hosted, Mine
<1>7. Topology \subseteq Processes
  BY <1>4, <1>6 DEF Topology, BenchTyped
<1>8. BenchTyped'
  <2>1. ReportOK'
    BY <1>1, <1>2, SameReport DEF BenchTyped
  <2>. QED
    BY <1>1, <1>7, <2>1 DEF BenchTyped
<1>9. RunnersOK'
  BY <1>1, <1>2 DEF RunnersOK, Before, Current, Explained, HalfStarted, LeftBehind
<1>10. MeasuresItsOwn'
  <2>. SUFFICES /\ \A p \in roots' : \/ p \in {Agent(i) : i \in 1..AgentCount}
                                     \/ /\ Cell.launcher = "tmux" /\ plan[p.cell].launcher = "tmux"
                                        /\ report[p.cell].failed \/ LeftBehind(p)
                /\ {p \in Mine : p.part = "agent"} \subseteq roots' \/ Cell.scenario = "overcommit"
    BY <1>1, <1>2 DEF MeasuresItsOwn, LeftBehind, Agent, Mine
  <2>1. CASE roots' = {} /\ Overcommits
    BY <2>1 DEF Overcommits
  <2>2. CASE roots' = Topology /\ Cell.launcher = "raw"
    BY <1>5, <2>2 DEF Topology, Mine, Current
  <2>3. CASE roots' = Topology /\ Cell.launcher # "raw"
    <3>1. Topology = {p \in Hosted : p.part = "agent"}
      BY <2>3 DEF Topology
    <3>2. {p \in Mine : p.part = "agent"} \subseteq Topology
      BY <2>3, <3>1, HostsMine DEF Mine, Current
    <3>3. ASSUME NEW p \in Topology, ~Current(p)
          PROVE  /\ Cell.launcher = "tmux" /\ plan[p.cell].launcher = "tmux"
                 /\ report[p.cell].failed \/ LeftBehind(p)
      <4>1. p \in running /\ p.part = "agent" /\ p \in Hosted /\ Explained(p)
        BY <1>6, <3>1, <3>3 DEF RunnersOK, IsTop
      <4>2. p \notin Mine
        BY <3>3 DEF Mine, Current
      <4>3. Cell.launcher \in {"tmux", "herdr"} /\ plan[p.cell].launcher = Cell.launcher
        BY <1>3, <2>3, <4>1, <4>2 DEF Hosted, BuiltinLaunchers
      <4>4. LeftBehind(p) => plan[p.cell].launcher = "tmux"
        BY DEF LeftBehind, BenchTyped
      <4>. QED
        BY <4>1, <4>3, <4>4 DEF Explained, HalfStarted
    <3>4. \A p \in Topology : Current(p) => p \in {Agent(i) : i \in 1..AgentCount}
      BY <1>5, <1>6, <3>1
    <3>. QED
      BY <2>3, <3>2, <3>3, <3>4
  <2>. QED
    BY <1>1, <2>1, <2>2, <2>3
<1>11. RootsOK'
  <2>1. \A p \in roots' : p.cell <= at.cell
    <3>1. \A p \in running : p.cell <= at.cell
      BY DEF RunnersOK, Before, Current, BenchTyped, Processes
    <3>2. \A i \in 1..AgentCount : Agent(i).cell <= at.cell
      BY DEF Agent, BenchTyped
    <3>. QED
      BY <1>1, <1>6, <3>1, <3>2 DEF Topology
  <2>. QED
    BY <1>1, <1>2, <1>10, <2>1 DEF RootsOK, Topology, Agent, Overcommits
<1>12. CaughtOK'
  BY <1>1 DEF CaughtOK, Before, Current
<1>. QED
  BY <1>8, <1>9, <1>11, <1>12

-----------------------------------------------------------------------------
(* Sampling, and what is measured: no process starts or stops.             *)
Quietly == UNCHANGED <<plan, at, processVars, launched, roots, report, killVars>>

LEMMA QuietStep ==
  ASSUME StraysInv, Quietly, bench' # bench,
         bench \in {"sampling", "checking", "capturing"},
         \/ bench' \in {"sampling", "checking", "capturing"} /\ bench # "capturing"
                /\ UNCHANGED <<owned, survivors, caught>>
         \/ bench' \in {"escapes", "stopping"} /\ owned' \subseteq running /\ survivors' = owned'
                /\ caught' = caught \cup owned' /\ bench = "capturing"
                /\ \A p \in owned' : IsBelow(p) => AgentOf(p) \in forked,
         everSeen' \subseteq everSeen \cup running, UNCHANGED polls, mishaps' \in 0..MaxMishaps
  PROVE  StraysInv'
<1>. USE DEF StraysInv, Quietly, processVars
<1>1. /\ UnderWay /\ Entered /\ UnderWay' /\ Entered' /\ Cell' = Cell /\ AgentCount' = AgentCount
  BY DEF UnderWay, Entered, Cell, AgentCount
<1>2. BenchTyped'
  <2>1. ReportOK'
    BY <1>1, SameReport DEF BenchTyped
  <2>. QED
    BY <2>1 DEF BenchTyped
<1>3. RunnersOK'
  BY <1>1 DEF RunnersOK, Before, Current, Explained, HalfStarted, LeftBehind
<1>4. RootsOK'
  BY <1>1 DEF RootsOK, MeasuresItsOwn, LeftBehind, Mine, Agent
<1>5. CaughtOK'
  <2>1. \A p \in running : Before(p) \/ Current(p)
    BY DEF RunnersOK
  <2>. QED
    BY <2>1 DEF CaughtOK, Before, Current
<1>. QED
  BY <1>2, <1>3, <1>4, <1>5

LEMMA BelowRuns == \A tops : Below(tops) \subseteq running
BY DEF Below

LEMMA SamplingStep ==
  ASSUME StraysInv, Sample \/ SampleFails \/ LoopAgain \/ LoopEnds PROVE StraysInv'
<1>1. CASE Sample
  <2>1. everSeen' \subseteq everSeen \cup running
    BY <1>1, BelowRuns DEF Sample
  <2>2. mishaps' \in 0..MaxMishaps
    BY <1>1, MishapOK DEF Sample, StraysInv
  <2>. QED
    BY <1>1, <2>1, <2>2, QuietStep DEF Sample, Quietly
<1>2. CASE SampleFails
  <2>1. mishaps' \in 0..MaxMishaps
    BY <1>2, MishapOK DEF SampleFails, StraysInv
  <2>. QED
    BY <1>2, <2>1, QuietStep DEF SampleFails, Quietly, trialVars
<1>3. CASE LoopAgain
  <2>1. mishaps' \in 0..MaxMishaps
    BY <1>3, MishapOK DEF LoopAgain, Either, StraysInv
  <2>. QED
    BY <1>3, <2>1, QuietStep DEF LoopAgain, Quietly, trialVars
<1>4. CASE LoopEnds
  <2>1. mishaps' \in 0..MaxMishaps
    BY <1>4, MishapOK DEF LoopEnds, StraysInv
  <2>. QED
    BY <1>4, <2>1, QuietStep DEF LoopEnds, Quietly
<1>. QED
  BY <1>1, <1>2, <1>3, <1>4

LEMMA CaptureStep == ASSUME StraysInv, CaptureOwned PROVE StraysInv'
<1>1. mishaps' \in 0..MaxMishaps
  BY MishapOK DEF CaptureOwned, StraysInv
<1>2. owned' \subseteq running
  BY BelowRuns DEF CaptureOwned
<1>3. \A p \in owned' : IsBelow(p) => AgentOf(p) \in forked
  BY <1>2 DEF StraysInv, RunnersOK
<1>. QED
  BY <1>1, <1>2, <1>3, QuietStep DEF CaptureOwned, Quietly

-----------------------------------------------------------------------------
(* Teardown.                                                               *)
LEMMA EscapeMeasured == ASSUME StraysInv, MeasureEscape PROVE StraysInv'
<1>. USE DEF StraysInv
<1>0. PICK confirmed \in {Confirmed, {}} :
        /\ caught' = caught \cup confirmed
        /\ \E spared \in SUBSET confirmed :
             KillSurvivors(confirmed, spared) /\ Either(confirmed # Confirmed \/ spared # {})
  BY DEF MeasureEscape
<1>1. PICK spared \in SUBSET confirmed :
        KillSurvivors(confirmed, spared) /\ Either(confirmed # Confirmed \/ spared # {})
  BY <1>0
<1>2. confirmed \subseteq running
  BY <1>0 DEF Confirmed
<1>3. /\ running' = running \ (confirmed \ spared) /\ reparented' \subseteq {p \in running' : IsBelow(p)}
      /\ unkilled' = unkilled \cup spared /\ unstopped' = unstopped
  BY <1>1, DeathsShrink DEF KillSurvivors
<1>4. /\ bench = "escapes" /\ bench' = "stopping" /\ mishaps' \in 0..MaxMishaps
      /\ UNCHANGED <<plan, at, forked, launched, roots, everSeen, owned, survivors, polls, report>>
  BY <1>1, MishapOK DEF MeasureEscape, Either
<1>5. /\ UnderWay /\ Entered /\ UnderWay' /\ Entered' /\ Cell' = Cell /\ AgentCount' = AgentCount
  BY <1>4 DEF UnderWay, Entered, Cell, AgentCount
<1>6. BenchTyped'
  <2>1. ReportOK'
    BY <1>4, <1>5, SameReport DEF BenchTyped
  <2>. QED
    BY <2>1, <1>0, <1>2, <1>3, <1>4 DEF BenchTyped
<1>7. RunnersOK'
  BY <1>3, <1>4, <1>5 DEF RunnersOK, Before, Current, Explained, HalfStarted, LeftBehind
<1>8. RootsOK'
  BY <1>4, <1>5 DEF RootsOK, MeasuresItsOwn, LeftBehind, Agent
<1>9. CaughtOK'
  <2>1. \A p \in confirmed : (Before(p) \/ Current(p)) /\ (IsBelow(p) => AgentOf(p) \in forked)
    BY <1>2 DEF RunnersOK
  <2>. QED
    BY <1>0, <1>3, <1>4, <2>1 DEF CaughtOK, Before, Current
<1>. QED
  BY <1>6, <1>7, <1>8, <1>9

(* After the teardown no server and no agent of this trial runs.           *)
LEMMA StopClears ==
  ASSUME StraysInv, StopSession
  PROVE  /\ running' \subseteq running /\ reparented' \subseteq {p \in running' : IsBelow(p)}
         /\ \A p \in running' : IsTop(p) /\ Current(p) => at \in unstopped'
         /\ unstopped' = unstopped \/ (unstopped' = unstopped \cup {at} /\ Cell.launcher = "tmux")
         /\ mishaps' \in 0..MaxMishaps
<1>. USE DEF StraysInv
<1>1. bench = "stopping" /\ Entered
  BY DEF StopSession, Entered, UnderWay
<1>2. CASE StopRaw
  <2>1. running' = running \ roots /\ reparented' \subseteq {p \in running' : IsBelow(p)}
    BY <1>2, DeathsShrink DEF StopRaw
  <2>2. \A p \in running : IsTop(p) /\ Current(p) => p \in roots
    <3>. SUFFICES ASSUME NEW p \in running, IsTop(p), Current(p)
                  PROVE  p = Agent(p.agent) /\ p.agent \in 1..AgentCount
      BY <1>1, <1>2 DEF RootsOK, StopRaw
    <3>1. p \in Processes /\ p.part = "agent" /\ p.agent \in 1..AgentCount
      BY <1>1, <1>2 DEF BenchTyped, RunnersOK, IsTop, StopRaw
    <3>. QED
      BY <3>1 DEF Current, Agent, Processes
  <2>. QED
    BY <1>2, <2>1, <2>2, MishapOK DEF StopRaw
<1>3. CASE Cell.launcher # "raw" /\ HangsUp(Hosted) /\ (Mishap \/ UNCHANGED mishaps) /\ UNCHANGED unstopped
  BY <1>3, HangUpShrinks, HostsMine, MishapOK
<1>4. CASE \E missed \in SUBSET (Mine \cap reparented) : Dies(Mine \ missed) /\ UNCHANGED <<mishaps, unstopped>>
  <2>1. PICK missed \in SUBSET (Mine \cap reparented) : Dies(Mine \ missed)
    BY <1>4
  <2>2. running' = running \ (Mine \ missed) /\ reparented' \subseteq {p \in running' : IsBelow(p)}
    BY <2>1, DeathsShrink
  <2>3. \A p \in missed : ~IsTop(p)
    BY DEF BenchTyped, IsBelow, IsTop
  <2>4. \A p \in running : Current(p) => p \in Mine
    BY DEF Mine, Current
  <2>. QED
    BY <1>4, <2>2, <2>3, <2>4, MishapOK
<1>5. CASE KillServerFails /\ unstopped' = unstopped \cup {at}
  BY <1>5, DeathsShrink, MishapOK DEF KillServerFails
<1>. QED
  BY <1>2, <1>3, <1>4, <1>5 DEF StopSession, StopMultiplexer, StopMemMux

LEMMA StopStep == ASSUME StraysInv, StopSession PROVE StraysInv'
<1>. USE DEF StraysInv
<1>1. /\ running' \subseteq running /\ reparented' \subseteq {p \in running' : IsBelow(p)}
      /\ \A p \in running' : IsTop(p) /\ Current(p) => at \in unstopped'
      /\ unstopped' = unstopped \/ (unstopped' = unstopped \cup {at} /\ Cell.launcher = "tmux")
      /\ mishaps' \in 0..MaxMishaps
  BY StopClears
<1>2. /\ bench = "stopping" /\ bench' = "polling"
      /\ UNCHANGED <<plan, at, forked, launched, roots, everSeen, owned, survivors, polls, report, caught,
                     ownKills, unkilled>>
  BY DEF StopSession
<1>3. /\ UnderWay /\ Entered /\ UnderWay' /\ Entered' /\ Cell' = Cell /\ AgentCount' = AgentCount
  BY <1>2 DEF UnderWay, Entered, Cell, AgentCount
<1>4. BenchTyped'
  <2>1. ReportOK'
    BY <1>2, <1>3, SameReport DEF BenchTyped
  <2>2. at \in [cell : 1..Len(plan), trial : Nat \ {0}] /\ plan[at.cell] = Cell
    BY <1>3, EnteredCell DEF BenchTyped, Cell
  <2>3. \A trial \in unstopped' :
          /\ trial \in [cell : 1..Len(plan), trial : Nat \ {0}]
          /\ trial.cell <= at.cell /\ plan[trial.cell].launcher = "tmux"
    BY <1>1, <2>2 DEF BenchTyped
  <2>. QED
    BY <2>1, <2>3, <1>1, <1>2, <1>3 DEF BenchTyped
<1>5. RunnersOK'
  <2>1. \A p : Current(p) => [cell |-> p.cell, trial |-> p.trial] = at
    BY DEF Current, BenchTyped
  <2>2. \A p \in running' : IsTop(p) /\ Current(p) => LeftBehind(p)'
    BY <1>1, <2>1 DEF LeftBehind
  <2>3. \A p : /\ Before(p)' = Before(p) /\ Current(p)' = Current(p) /\ (Explained(p) => Explained(p)')
    BY <1>1, <1>2 DEF Before, Current, Explained, HalfStarted, LeftBehind
  <2>. QED
    BY <1>1, <1>2, <1>3, <2>2, <2>3 DEF RunnersOK
<1>6. RootsOK'
  BY <1>2, <1>3 DEF RootsOK, MeasuresItsOwn, LeftBehind, Agent
<1>7. CaughtOK'
  <2>1. owned \cap running' \subseteq survivors'
    BY <1>1, <1>2 DEF CaughtOK
  <2>. QED
    BY <1>1, <1>2, <2>1 DEF CaughtOK, Before, Current
<1>. QED
  BY <1>4, <1>5, <1>6, <1>7

LEMMA PollStep == ASSUME StraysInv, PollSurvivors PROVE StraysInv'
<1>. USE DEF StraysInv
<1>1. /\ bench = "polling" /\ survivors' \in {owned \cap running, owned} /\ polls' \in 0..GracePolls
      /\ UNCHANGED <<plan, at, bench, processVars, launched, roots, everSeen, owned, report, caught, killVars>>
  BY BenchAssumption DEF PollSurvivors, BenchTyped
<1>2. mishaps' \in 0..MaxMishaps
  BY MishapOK DEF PollSurvivors
<1>3. /\ UnderWay /\ Entered /\ UnderWay' /\ Entered' /\ Cell' = Cell /\ AgentCount' = AgentCount
  BY <1>1 DEF UnderWay, Entered, Cell, AgentCount
<1>4. BenchTyped'
  <2>1. ReportOK'
    BY <1>1, <1>3, SameReport DEF BenchTyped
  <2>. QED
    BY <2>1, <1>1, <1>2 DEF BenchTyped, processVars
<1>5. RunnersOK'
  BY <1>1, <1>3 DEF RunnersOK, Before, Current, Explained, HalfStarted, LeftBehind, processVars
<1>6. RootsOK'
  BY <1>1, <1>3 DEF RootsOK, MeasuresItsOwn, LeftBehind, Agent
<1>7. CaughtOK'
  BY <1>1 DEF CaughtOK, Before, Current, processVars
<1>. QED
  BY <1>4, <1>5, <1>6, <1>7

LEMMA CleanupStep == ASSUME StraysInv, EndCleanup PROVE StraysInv'
<1>. USE DEF StraysInv
<1>1. /\ bench = "polling" /\ bench' = "writing"
      /\ UNCHANGED <<plan, at, forked, launched, roots, everSeen, owned, survivors, polls, report, caught>>
  BY DEF EndCleanup
<1>0. PICK spared \in SUBSET (survivors \cap running) : KillSurvivors(survivors, spared) /\ Either(spared # {})
  BY DEF EndCleanup
<1>2. /\ running' = running \ (survivors \ spared) /\ reparented' \subseteq {p \in running' : IsBelow(p)}
      /\ unkilled' = unkilled \cup spared /\ unstopped' = unstopped /\ mishaps' \in 0..MaxMishaps
  BY <1>0, DeathsShrink, MishapOK DEF KillSurvivors, Either
<1>3. /\ UnderWay /\ Entered /\ UnderWay' /\ Entered' /\ Cell' = Cell /\ AgentCount' = AgentCount
  BY <1>1 DEF UnderWay, Entered, Cell, AgentCount
<1>4. BenchTyped'
  <2>1. ReportOK'
    BY <1>1, <1>3, SameReport DEF BenchTyped
  <2>. QED
    BY <2>1, <1>1, <1>2 DEF BenchTyped
<1>5. RunnersOK'
  BY <1>1, <1>2, <1>3 DEF RunnersOK, Before, Current, Explained, HalfStarted, LeftBehind
<1>6. RootsOK'
  BY <1>1, <1>3 DEF RootsOK, MeasuresItsOwn, LeftBehind, Agent
<1>7. CaughtOK'
  BY <1>1, <1>2 DEF CaughtOK, Before, Current
<1>. QED
  BY <1>4, <1>5, <1>6, <1>7

-----------------------------------------------------------------------------
(* What is kept of the trial.                                              *)
LEMMA KeepStep == ASSUME StraysInv, KeepTrial PROVE StraysInv'
<1>. USE DEF StraysInv
<1>1. /\ bench = "writing" /\ bench' = "next" /\ Entered /\ UnderWay /\ ~UnderWay'
      /\ UNCHANGED <<plan, processVars, trialVars, caught, killVars, mishaps>>
  BY DEF KeepTrial, UnderWay, Entered
<1>2. /\ at.cell \in 1 .. Len(plan) /\ Len(report) = at.cell /\ IsSeq(report) /\ Len(plan) \in Nat
      /\ at.trial <= Cell.trials /\ Cell.trials \in Nat /\ at.trial \in Nat \ {0} /\ Cell.launcher # "external"
  BY <1>1, EnteredCell, PlanOK DEF BenchTyped, ReportOK
<1>3. /\ at' \in [cell : Nat \ {0}, trial : Nat \ {0}]
      /\ \/ at.trial < Cell.trials /\ at'.cell = at.cell /\ at'.trial = at.trial + 1 /\ Entered'
         \/ at.trial = Cell.trials /\ at'.cell = at.cell + 1 /\ at'.trial = 1 /\ ~Entered'
  <2>1. CASE at.trial < Cell.trials
    <3>1. at' = [at EXCEPT !.trial = at.trial + 1]
      BY <2>1 DEF KeepTrial
    <3>. QED
      BY <1>2, <2>1, <3>1 DEF BenchTyped, Entered
  <2>2. CASE ~(at.trial < Cell.trials)
    BY <1>1, <1>2, <2>2 DEF KeepTrial, Entered
  <2>. QED
    BY <2>1, <2>2
<1>. DEFINE old == report[at.cell]
            new == [old EXCEPT !.trials = Append(old.trials, measured)]
<1>4. report' = With(report, at.cell, new)
  BY <1>2 DEF KeepTrial, With
<1>5. /\ old \in [trials : {old.trials}, failed : BOOLEAN] /\ IsSeq(old.trials)
      /\ Len(old.trials) <= at.trial - 1
  BY <1>2 DEF BenchTyped, ReportOK
<1>6. /\ new.failed = old.failed /\ new \in [trials : {new.trials}, failed : BOOLEAN]
      /\ new.trials = Append(old.trials, measured)
  BY <1>5
<1>7. IsSeq(new.trials) /\ Len(new.trials) <= at.trial /\ Len(new.trials) \in Nat
  BY <1>2, <1>5, <1>6, IsSeqAppend, IsSeqProperties
<1>. HIDE DEF old, new
<1>8. /\ IsSeq(report') /\ Len(report') = Len(report)
      /\ \A i \in 1 .. Len(report) : report'[i] = IF i = at.cell THEN new ELSE report[i]
  <2>1. at.cell \in 1 .. Len(report)
    BY <1>2
  <2>. QED
    BY <1>2, <1>4, <2>1, IsSeqWith
<1>9. \A i \in 1 .. Len(report) :
        /\ report'[i] \in [trials : {report'[i].trials}, failed : BOOLEAN] /\ IsSeq(report'[i].trials)
        /\ Len(report'[i].trials) <= (IF i = at'.cell THEN at'.trial - 1 ELSE plan'[i].trials)
        /\ report'[i].failed = report[i].failed
  <2>. TAKE i \in 1 .. Len(report)
  <2>1. CASE i = at.cell
    <3>1. report'[i] = new /\ report[i] = old /\ plan'[i].trials = Cell.trials
      BY <1>1, <1>8, <2>1 DEF Cell, old
    <3>2. Len(new.trials) <= (IF i = at'.cell THEN at'.trial - 1 ELSE Cell.trials)
      BY <1>2, <1>3, <1>7, <2>1
    <3>. QED
      BY <1>6, <1>7, <3>1, <3>2
  <2>2. CASE i # at.cell
    <3>1. report'[i] = report[i] /\ i # at'.cell /\ plan'[i] = plan[i]
      BY <1>1, <1>2, <1>3, <1>8, <2>2
    <3>. QED
      BY <2>2, <3>1 DEF BenchTyped, ReportOK
  <2>. QED
    BY <2>1, <2>2
<1>10. ReportOK'
  <2>1. Entered' => at'.cell = at.cell /\ Cell' = Cell
    BY <1>1, <1>3 DEF Cell
  <2>2. Len(report') = (IF Entered' THEN at'.cell ELSE at'.cell - 1)
    BY <1>2, <1>3, <1>8
  <2>3. Entered' => at'.cell <= Len(plan') /\ Cell'.launcher # "external" /\ at'.trial <= Cell'.trials
    BY <1>1, <1>2, <1>3, <2>1
  <2>. QED
    BY <1>8, <1>9, <2>2, <2>3 DEF ReportOK
<1>11. BenchTyped'
  BY <1>1, <1>2, <1>3, <1>10 DEF BenchTyped, processVars, trialVars
<1>12. \A p \in Processes : Before(p) \/ Current(p) => Before(p)' /\ ~Current(p)' /\ p.cell \in 1 .. Len(report)
  BY <1>2, <1>3 DEF Before, Current, Processes
<1>13. RunnersOK'
  <2>. SUFFICES ASSUME NEW p \in running
                PROVE  Before(p)' /\ ~Current(p)' /\ (IsBelow(p) => AgentOf(p) \in forked)
                       /\ (IsTop(p) => Explained(p)')
    BY <1>1 DEF RunnersOK, processVars
  <2>1. p \in Processes /\ (Before(p) \/ Current(p)) /\ (IsTop(p) => Explained(p))
    BY <1>1 DEF RunnersOK, BenchTyped, Explained, LeftBehind, Current
  <2>. QED
    BY <1>1, <1>9, <1>12, <2>1 DEF RunnersOK, Explained, HalfStarted, LeftBehind
<1>14. RootsOK'
  BY <1>1 DEF RootsOK, MeasuresItsOwn
<1>15. CaughtOK'
  BY <1>1, <1>12 DEF CaughtOK, BenchTyped, processVars, trialVars
<1>. QED
  BY <1>11, <1>13, <1>14, <1>15

LEMMA WriteStep == ASSUME StraysInv, WriteFails PROVE StraysInv'
<1>. USE DEF StraysInv
<1>1. /\ bench = "writing" /\ UnderWay /\ Entered /\ UNCHANGED <<plan, processVars, trialVars, caught, killVars>>
      /\ mishaps' \in 0..MaxMishaps
  BY MishapOK DEF WriteFails, UnderWay, Entered
<1>2. CASE TrialFails
  <2>1. \A p \in running' : IsTop(p) /\ Current(p) => LeftBehind(p)
    BY <1>1 DEF RunnersOK, processVars
  <2>2. /\ running' \subseteq running
        /\ reparented' \subseteq {p \in running' : IsBelow(p)}
        /\ caught \cap running' \subseteq unkilled
    BY <1>1 DEF BenchTyped, processVars, CaughtOK
  <2>. QED
    BY <1>1, <1>2, <2>1, <2>2, FailStep DEF processVars
<1>3. CASE bench' = "aborted" /\ UNCHANGED <<at, report>>
  <2>1. /\ UnderWay' /\ Entered' /\ Cell' = Cell /\ AgentCount' = AgentCount
    BY <1>1, <1>3 DEF UnderWay, Entered, Cell, AgentCount
  <2>2. BenchTyped'
    <3>1. ReportOK'
      BY <1>1, <1>3, <2>1, SameReport DEF BenchTyped
    <3>. QED
      BY <3>1, <1>1, <1>3 DEF BenchTyped, processVars, trialVars
  <2>3. RunnersOK'
    <3>1. UNCHANGED <<running, forked, plan, at, report, unstopped>>
      BY <1>1, <1>3 DEF processVars
    <3>2. \A p \in running : /\ Before(p)' = Before(p) /\ Current(p)' = Current(p)
                            /\ Explained(p)' = Explained(p) /\ LeftBehind(p)' = LeftBehind(p)
      BY <3>1 DEF Before, Current, Explained, HalfStarted, LeftBehind
    <3>. QED
      BY <1>1, <1>3, <2>1, <3>1, <3>2 DEF RunnersOK
  <2>4. RootsOK'
    BY <1>3 DEF RootsOK, MeasuresItsOwn
  <2>5. CaughtOK'
    BY <1>1, <1>3 DEF CaughtOK, Before, Current, processVars, trialVars
  <2>. QED
    BY <2>2, <2>3, <2>4, <2>5
<1>. QED
  BY <1>2, <1>3 DEF WriteFails

LEMMA FinishStep == ASSUME StraysInv, Finish PROVE StraysInv'
<1>. USE DEF StraysInv
<1>1. /\ bench = "next" /\ bench' = "finished" /\ ~UnderWay /\ ~UnderWay'
      /\ UNCHANGED <<plan, at, processVars, trialVars, report, caught, killVars, mishaps>>
  BY DEF Finish, UnderWay
<1>2. (Entered' <=> Entered) /\ Cell' = Cell
  BY <1>1 DEF Entered, Cell
<1>3. BenchTyped'
  <2>1. ReportOK'
    BY <1>1, <1>2, SameReport DEF BenchTyped
  <2>. QED
    BY <2>1, <1>1 DEF BenchTyped, processVars, trialVars
<1>4. RunnersOK'
  <2>1. UNCHANGED <<running, forked, plan, at, report, unstopped>>
    BY <1>1 DEF processVars
  <2>2. \A p \in running : /\ Before(p)' = Before(p) /\ Current(p)' = Current(p)
                          /\ Explained(p)' = Explained(p)
    BY <2>1 DEF Before, Current, Explained, HalfStarted, LeftBehind
  <2>3. \A p \in running : ~Current(p)
    BY <1>1 DEF Before, Current, RunnersOK, BenchTyped, Processes
  <2>. QED
    BY <1>1, <1>2, <2>1, <2>2, <2>3 DEF RunnersOK
<1>5. RootsOK'
  BY <1>1 DEF RootsOK, MeasuresItsOwn
<1>6. CaughtOK'
  BY <1>1 DEF CaughtOK, Before, Current, processVars, trialVars
<1>. QED
  BY <1>3, <1>4, <1>5, <1>6

LEMMA StraysStutter == ASSUME StraysInv, UNCHANGED benchVars PROVE StraysInv'
<1>1. reparented' \subseteq {p \in running' : IsBelow(p)}
  BY DEF benchVars, processVars, StraysInv, BenchTyped
<1>. QED
  BY <1>1, Shrinks DEF benchVars, processVars

LEMMA StraysStep == StraysInv /\ [BenchNext]_benchVars => StraysInv'
<1>. SUFFICES ASSUME StraysInv, [BenchNext]_benchVars PROVE StraysInv'
  OBVIOUS
<1>1. CASE HarnessStep
  BY <1>1, SkipStep, BeginStep, LaunchStep, StartFailsStep, StartReturnsStep, NobodyStep, SamplingStep,
     CaptureStep, EscapeMeasured, StopStep, PollStep, CleanupStep, KeepStep, WriteStep, FinishStep DEF HarnessStep
<1>2. CASE AdmitsLate
  BY <1>2, LateStep
<1>3. ASSUME NEW p \in running, AgentForks(p) \/ Escapes(p) \/ Exits(p) PROVE StraysInv'
  BY <1>3, ForkStep, EscapeStep, ExitStep
<1>4. CASE UNCHANGED benchVars
  BY <1>4, StraysStutter
<1>. QED
  BY <1>1, <1>2, <1>3, <1>4 DEF BenchNext

-----------------------------------------------------------------------------
(* What the harness kills.  It sends its kills in the trial under way,     *)
(* which is not kept yet, so the kills of a kept trial are over.           *)
Trials  == [cell : Nat \ {0}, trial : Nat \ {0}]
Kept(i) == Len(report[i].trials)
Opening == bench \in {"starting", "sampling", "checking", "capturing", "escapes"}

FreshOK == Entered => Kept(at.cell) = at.trial - 1

(* An agent waits for its child: of what was seen, only an escapee leaves  *)
(* the tree alive.                                                         *)
SeenOK ==
  Opening =>
    /\ bench = "starting" => everSeen = {}
    /\ \A r \in roots : r.part = "agent"
    /\ \A p \in everSeen :
         /\ IsTop(p) => p \in roots
         /\ IsBelow(p) => AgentOf(p) \in forked \cap roots
         /\ p.part = "child" /\ p \in running => AgentOf(p) \in running /\ p \notin reparented

MeasuredOK ==
  /\ measured \in [records : {measured.records}, cpu : {measured.cpu}, cleanup : {measured.cleanup},
                   escape : {measured.escape}, h4 : {measured.h4}]
  /\ \A e \in measured.escape : e.confirmed \in Nat
  /\ Opening \/ bench \in {"stopping", "polling"} => measured.cleanup = {}
  /\ Opening => measured.escape = {}

KillsReported ==
  \A i \in 1 .. Len(report) : \A k \in 1 .. Kept(i) :
    OwnsUpTo(KilledBy([cell |-> i, trial |-> k]), report[i].trials[k])

KillsOK ==
  /\ \A x \in ownKills : \/ Before(x.by)
                         \/ x.by = at /\ bench \in {"stopping", "polling", "writing", "aborted"}
  /\ bench \in {"stopping", "polling", "writing"} =>
       OwnsUpTo(KilledBy(at), measured) /\ IsFiniteSet(KilledBy(at))
  /\ KillsReported

FiniteOK ==
  /\ IsFiniteSet(running) /\ IsFiniteSet(owned)
  /\ ownKills \subseteq [by : Trials, process : Processes] /\ unkilled \subseteq {x.process : x \in ownKills}

KillsInv == FreshOK /\ SeenOK /\ MeasuredOK /\ KillsOK /\ FiniteOK

(* Kills are of one trial.                                                 *)
LEMMA KilledAdds ==
  ASSUME NEW killed, ownKills' = ownKills \cup [by : {at}, process : killed], at' = at
  PROVE  KilledBy(at)' = KilledBy(at) \cup killed /\ \A trial : trial # at => KilledBy(trial)' = KilledBy(trial)
<1>1. \A p \in killed : [by |-> at, process |-> p] \in ownKills' /\ [by |-> at, process |-> p].process = p
  OBVIOUS
<1>2. \A x \in ownKills' : x \in ownKills \/ (x.by = at /\ x.process \in killed)
  OBVIOUS
<1>. QED
  BY <1>1, <1>2 DEF KilledBy

LEMMA NobodyKilled ==
  ASSUME StraysInv, KillsInv, Opening PROVE KilledBy(at) = {}
<1>1. at \in Trials /\ ~Before(at)
  BY DEF StraysInv, BenchTyped, Trials, Before
<1>2. \A x \in ownKills : x.by # at
  BY <1>1 DEF KillsInv, KillsOK, Opening
<1>. QED
  BY <1>2 DEF KilledBy

LEMMA NoKills == ASSUME NEW trial PROVE OwnsUpTo({}, trial)
<1>1. {p \in {} : p.part # "escapee"} = {} /\ Cardinality({}) = 0
  BY FS_EmptySet
<1>2. Cardinality({p \in {} : p.part # "escapee"}) <= 0 /\ Cardinality({}) <= 0 + 0
  BY <1>1
<1>. QED
  BY <1>2 DEF OwnsUpTo

(* What was confirmed had escaped.                                         *)
LEMMA KillsConfirmed ==
  ASSUME NEW trial, NEW confirmed, NEW killed \in SUBSET confirmed, IsFiniteSet(confirmed),
         \A p \in confirmed : p.part = "escapee",
         \E e \in trial.escape : e.confirmed = Cardinality(confirmed)
  PROVE  OwnsUpTo(killed, trial)
<1>. DEFINE n == Cardinality(confirmed)
<1>1. /\ Cardinality(killed) <= n /\ Cardinality(killed) \in Nat /\ n \in Nat
  BY FS_Subset, FS_CardinalityType
<1>2. {p \in killed : p.part # "escapee"} = {}
  OBVIOUS
<1>3. Cardinality({p \in killed : p.part # "escapee"}) <= 0
  BY <1>2, FS_EmptySet
<1>4. n \in {e.confirmed : e \in trial.escape}
  OBVIOUS
<1>. HIDE DEF n
<1>5. Cardinality(killed) <= 0 + n
  BY <1>1
<1>. QED
  BY <1>3, <1>4, <1>5 DEF OwnsUpTo

(* What survived had leaked.                                               *)
LEMMA KillsLeaked ==
  ASSUME NEW before, NEW after, NEW killed, NEW left, NEW rest \in SUBSET left,
         IsFiniteSet(killed), IsFiniteSet(left), OwnsUpTo(killed, before), before.cleanup = {},
         \A e \in before.escape : e.confirmed \in Nat,
         after.escape = before.escape,
         left = {} \/ \E c \in after.cleanup : c.leaked = Cardinality(left)
  PROVE  OwnsUpTo(killed \cup rest, after)
<1>. DEFINE Ne(s) == {p \in s : p.part # "escapee"}
            n     == Cardinality(left)
            all   == killed \cup rest
<1>1. PICK confirmed \in {0} \cup {e.confirmed : e \in before.escape} :
        Cardinality(Ne(killed)) <= 0 /\ Cardinality(killed) <= 0 + confirmed
  BY DEF OwnsUpTo
<1>2. confirmed \in Nat
  OBVIOUS
<1>3. n \in Nat /\ n \in {0} \cup {c.leaked : c \in after.cleanup}
  BY FS_CardinalityType, FS_EmptySet
<1>4. IsFiniteSet(rest) /\ Cardinality(rest) \in Nat /\ Cardinality(rest) <= n
  BY FS_Subset, FS_CardinalityType
<1>5. IsFiniteSet(all) /\ Cardinality(all) \in Nat /\ Cardinality(all) <= Cardinality(killed) + Cardinality(rest)
  <2>1. IsFiniteSet(all) /\ Cardinality(all) = Cardinality(killed) + Cardinality(rest) - Cardinality(killed \cap rest)
    BY <1>4, FS_Union
  <2>2. Cardinality(killed \cap rest) \in Nat /\ Cardinality(killed) \in Nat
    BY FS_Intersection, FS_CardinalityType
  <2>. QED
    BY <1>4, <2>1, <2>2, FS_CardinalityType
<1>6. Ne(killed) = {}
  <2>1. IsFiniteSet(Ne(killed))
    BY FS_Subset
  <2>2. Cardinality(Ne(killed)) = 0
    BY <1>1, <2>1, FS_CardinalityType
  <2>. QED
    BY <2>1, <2>2, FS_EmptySet
<1>7. Cardinality(Ne(all)) <= n
  <2>1. Ne(all) \subseteq left
    BY <1>6
  <2>2. Cardinality(Ne(all)) <= Cardinality(left)
    BY <2>1, FS_Subset
  <2>. QED
    BY <2>2
<1>8. Cardinality(killed) \in Nat
  BY FS_CardinalityType
<1>. HIDE DEF n, all
<1>9. Cardinality(all) <= n + confirmed
  BY <1>1, <1>2, <1>3, <1>4, <1>5, <1>8
<1>10. confirmed \in {0} \cup {e.confirmed : e \in after.escape}
  OBVIOUS
<1>. QED
  BY <1>3, <1>7, <1>9, <1>10 DEF OwnsUpTo, all

(* Where a process is, and what the harness sees.                          *)
LEMMA Placed == ASSUME StraysInv, NEW p \in running PROVE p \in Processes /\ p.cell \in 1 .. Len(report)
<1>1. p \in Processes /\ (Before(p) \/ (UnderWay /\ Current(p)))
  BY DEF StraysInv, BenchTyped, RunnersOK
<1>. QED
  BY <1>1 DEF StraysInv, BenchTyped, ReportOK, Before, Current, Entered, UnderWay, Processes

LEMMA AgentIsTop ==
  ASSUME NEW p \in Processes
  PROVE  IsTop(AgentOf(p)) /\ AgentOf(p).cell = p.cell /\ AgentOf(p).trial = p.trial /\ AgentOf(p).part = "agent"
BY DEF Processes, IsTop, AgentOf

LEMMA BelowSeen ==
  ASSUME StraysInv, KillsInv, Opening, NEW p \in Below(roots)
  PROVE  /\ p \in running
         /\ IsTop(p) => p \in roots
         /\ IsBelow(p) => AgentOf(p) \in forked \cap roots \cap running /\ p \notin reparented
<1>1. /\ p \in running /\ p \in Processes
      /\ p \in roots \/ (IsBelow(p) /\ p \notin reparented /\ AgentOf(p) \in roots \cap running)
  BY DEF Below, StraysInv, BenchTyped
<1>2. \A r \in roots : r.part = "agent"
  BY DEF KillsInv, SeenOK
<1>3. IsBelow(p) => AgentOf(p) \in forked
  BY <1>1 DEF StraysInv, RunnersOK
<1>. QED
  BY <1>1, <1>2, <1>3 DEF IsBelow, IsTop

LEMMA ConfirmedEscaped ==
  ASSUME StraysInv, KillsInv, Opening, NEW p \in Confirmed PROVE p.part = "escapee" /\ p \in running
<1>1. p \in everSeen /\ p \in running /\ p \notin Below(roots) /\ p \in Processes
  BY DEF Confirmed, StraysInv, BenchTyped
<1>3. p \notin roots
  BY <1>1 DEF Below
<1>4. p.part # "child"
  <2>. SUFFICES ASSUME p.part = "child" PROVE p \in Below(roots)
    BY <1>1
  <2>1. AgentOf(p) \in roots \cap running /\ p \notin reparented
    BY <1>1 DEF KillsInv, SeenOK, IsBelow
  <2>. QED
    BY <1>1, <2>1 DEF Below, IsBelow
<1>5. p.part = "escapee"
  BY <1>1, <1>3, <1>4 DEF KillsInv, SeenOK, IsTop, Processes
<1>. QED
  BY <1>1, <1>5

(* The processes come and go.                                              *)
LEMMA WorldKills ==
  ASSUME KillsInv, UNCHANGED <<plan, at, bench, roots, measured, everSeen, owned, report, ownKills, unkilled>>,
         IsFiniteSet(running'), forked \subseteq forked',
         Opening => \A p \in everSeen : p.part = "child" /\ p \in running'
                                         => AgentOf(p) \in running' /\ p \notin reparented'
  PROVE  KillsInv'
<1>. USE DEF KillsInv
<1>1. /\ Entered' = Entered /\ UnderWay' = UnderWay /\ Opening' = Opening
      /\ \A p : Before(p)' = Before(p)
  BY DEF Entered, UnderWay, Opening, Before
<1>2. FreshOK'
  BY <1>1 DEF FreshOK, Kept
<1>3. SeenOK'
  BY <1>1 DEF SeenOK
<1>4. MeasuredOK'
  BY <1>1 DEF MeasuredOK
<1>5. KillsOK'
  BY <1>1 DEF KillsOK, KillsReported, Kept, KilledBy
<1>. QED
  BY <1>2, <1>3, <1>4, <1>5 DEF FiniteOK

LEMMA ForkKills == ASSUME StraysInv, KillsInv, NEW a \in running, AgentForks(a) PROVE KillsInv'
<1>1. PICK part \in {"child", "escapee"} : running' = running \cup {[a EXCEPT !.part = part]}
  BY DEF AgentForks
<1>. DEFINE c == [a EXCEPT !.part = part]
<1>2. a \in Processes /\ a.part = "agent" /\ a \notin forked /\ forked' = forked \cup {a}
  BY DEF AgentForks, StraysInv, BenchTyped
<1>3. ~IsTop(c) /\ AgentOf(c) = a
  BY <1>2, Offspring
<1>4. running' = running \cup {c}
  BY <1>1
<1>. HIDE DEF c
<1>5. IsFiniteSet(running')
  BY <1>4, FS_AddElement DEF KillsInv, FiniteOK
<1>6. Opening => \A p \in everSeen : p.part = "child" /\ p \in running'
                                     => AgentOf(p) \in running' /\ p \notin reparented'
  BY <1>2, <1>3, <1>4 DEF KillsInv, SeenOK, AgentForks, IsBelow
<1>. QED
  BY <1>2, <1>3, <1>4, <1>5, <1>6, WorldKills DEF AgentForks, trialVars

LEMMA LeaveKills == ASSUME StraysInv, KillsInv, NEW q \in running, Escapes(q) \/ Exits(q) PROVE KillsInv'
<1>1. /\ running' \subseteq running
      /\ UNCHANGED <<forked, plan, at, bench, roots, measured, everSeen, owned, report, ownKills, unkilled>>
  BY DEF Escapes, Exits, Dies, trialVars
<1>2. IsFiniteSet(running')
  BY <1>1, FS_Subset DEF KillsInv, FiniteOK
<1>3. ASSUME Opening, NEW p \in everSeen, p.part = "child", p \in running'
      PROVE  AgentOf(p) \in running' /\ p \notin reparented'
  <2>1. p \in Processes /\ AgentOf(p) \in running /\ p \notin reparented /\ p \in running /\ AgentOf(p).part = "agent"
    BY <1>1, <1>3, AgentIsTop DEF KillsInv, SeenOK, StraysInv, BenchTyped
  <2>2. CASE Escapes(q)
    BY <1>3, <2>1, <2>2 DEF Escapes
  <2>3. CASE Exits(q)
    <3>1. AgentOf(p) # q
      BY <1>3, <2>1, <2>3 DEF Exits
    <3>. QED
      BY <2>1, <2>3, <3>1 DEF Exits, Dies
  <2>. QED
    BY <2>2, <2>3
<1>. QED
  BY <1>1, <1>2, <1>3, WorldKills

LEMMA LaunchKills == ASSUME StraysInv, KillsInv, LaunchAgent \/ AdmitsLate PROVE KillsInv'
<1>1. UNCHANGED <<reparented, forked, plan, at, bench, roots, measured, everSeen, owned, report, ownKills, unkilled>>
  BY DEF LaunchAgent, AdmitsLate, trialVars
<1>2. PICK i : running' \subseteq running \cup {Server, Agent(i)} /\ running \subseteq running'
  BY DEF LaunchAgent, AdmitsLate
<1>3. IsFiniteSet(running')
  <2>1. IsFiniteSet(running \cup {Server} \cup {Agent(i)})
    BY FS_AddElement DEF KillsInv, FiniteOK
  <2>. QED
    BY <1>2, <2>1, FS_Subset
<1>5. Opening => \A p \in everSeen : p.part = "child" /\ p \in running'
                                     => AgentOf(p) \in running' /\ p \notin reparented'
  <2>1. Server.part # "child" /\ Agent(i).part # "child"
    BY DEF Server, Agent
  <2>. QED
    BY <1>1, <1>2, <2>1 DEF KillsInv, SeenOK
<1>. QED
  BY <1>1, <1>3, <1>5, WorldKills

(* The harness looks on.                                                   *)
LEMMA GoesOn ==
  ASSUME StraysInv, KillsInv, Opening, Opening' \/ bench' = "stopping", bench' # "starting",
         UNCHANGED <<plan, at, processVars, report, ownKills, unkilled>>,
         owned' \subseteq owned \cup Below(roots), everSeen' \subseteq everSeen \cup Below(roots),
         roots' = roots \/ (everSeen' = {} /\ \A r \in roots' : r.part = "agent"),
         MeasuredOK', measured'.cleanup = measured.cleanup, measured'.escape = measured.escape
  PROVE  KillsInv'
<1>. USE DEF KillsInv, processVars
<1>1. /\ UnderWay /\ Entered /\ UnderWay' /\ Entered' /\ Entered' = Entered
      /\ \A p : Before(p)' = Before(p)
  BY DEF Opening, Entered, UnderWay, Before
<1>2. \A p \in Below(roots) :
        /\ p \in running
        /\ IsTop(p) => p \in roots
        /\ IsBelow(p) => AgentOf(p) \in forked \cap roots \cap running /\ p \notin reparented
  BY BelowSeen
<1>3. FreshOK'
  BY <1>1, <1>2 DEF FreshOK, Kept
<1>4. SeenOK'
  BY <1>2 DEF SeenOK, Opening, IsBelow
<1>5. KilledBy(at)' = {}
  BY NobodyKilled DEF KilledBy
<1>6. KillsOK'
  <2>1. KillsReported'
    BY <1>1 DEF KillsOK, KillsReported, Kept, KilledBy
  <2>2. \A x \in ownKills : Before(x.by)
    BY DEF KillsOK, Opening
  <2>3. OwnsUpTo(KilledBy(at), measured)' /\ IsFiniteSet(KilledBy(at))'
    <3>1. OwnsUpTo({}, measured')
      BY NoKills
    <3>. QED
      BY <1>5, <3>1, FS_EmptySet DEF OwnsUpTo
  <2>. QED
    BY <1>1, <2>1, <2>2, <2>3 DEF KillsOK
<1>7. FiniteOK'
  <2>1. Below(roots) \subseteq running
    BY BelowRuns
  <2>2. IsFiniteSet(owned \cup running)
    BY FS_Union DEF FiniteOK
  <2>3. owned' \subseteq owned \cup running
    BY <2>1
  <2>4. IsFiniteSet(owned')
    BY <2>2, <2>3, FS_Subset
  <2>. QED
    BY <2>4 DEF FiniteOK
<1>. QED
  BY <1>3, <1>4, <1>6, <1>7

LEMMA LookKills ==
  ASSUME StraysInv, KillsInv, StartReturns \/ Sample \/ SampleFails \/ LoopAgain \/ LoopEnds \/ CaptureOwned
  PROVE  KillsInv'
<1>1. /\ Opening /\ bench' # "starting"
      /\ Opening' \/ bench' = "stopping"
      /\ UNCHANGED <<plan, at, processVars, report, ownKills, unkilled>>
      /\ owned' \subseteq owned \cup Below(roots)
      /\ everSeen' \subseteq everSeen \cup Below(roots)
  BY DEF StartReturns, Sample, SampleFails, LoopAgain, LoopEnds, CaptureOwned, Opening, trialVars
<1>2. roots' = roots \/ (everSeen' = {} /\ \A r \in roots' : r.part = "agent")
  <2>1. StartReturns => everSeen' = {} /\ \A r \in roots' : r.part = "agent"
    BY DEF StartReturns, Topology, Agent, KillsInv, SeenOK, Opening
  <2>2. ~StartReturns => roots' = roots
    BY DEF Sample, SampleFails, LoopAgain, LoopEnds, CaptureOwned, trialVars
  <2>. QED
    BY <2>1, <2>2
<1>3. \/ measured' = measured
      \/ \E records : measured' = [measured EXCEPT !.records = records]
      \/ \E cpu : measured' = [measured EXCEPT !.cpu = cpu]
  BY DEF StartReturns, Sample, SampleFails, LoopAgain, LoopEnds, CaptureOwned, trialVars
<1>4. MeasuredOK' /\ measured'.cleanup = measured.cleanup /\ measured'.escape = measured.escape
  <2>. USE DEF KillsInv, MeasuredOK
  <2>1. /\ measured' \in [records : {measured'.records}, cpu : {measured'.cpu}, cleanup : {measured'.cleanup},
                          escape : {measured'.escape}, h4 : {measured'.h4}]
        /\ measured'.cleanup = measured.cleanup /\ measured'.escape = measured.escape
    <3>1. CASE measured' = measured
      BY <3>1
    <3>2. ASSUME NEW records, measured' = [measured EXCEPT !.records = records] PROVE <2>1!:
      BY <3>2
    <3>3. ASSUME NEW cpu, measured' = [measured EXCEPT !.cpu = cpu] PROVE <2>1!:
      BY <3>3
    <3>. QED
      BY <1>3, <3>1, <3>2, <3>3
  <2>. QED
    BY <1>1, <2>1
<1>. QED
  BY <1>1, <1>2, <1>4, GoesOn

LEMMA PollKills == ASSUME StraysInv, KillsInv, PollSurvivors PROVE KillsInv'
<1>1. UNCHANGED <<running, reparented, forked, plan, at, bench, roots, measured, everSeen, owned, report, ownKills, unkilled>>
  BY DEF PollSurvivors, processVars
<1>. QED
  BY <1>1, WorldKills DEF KillsInv, FiniteOK, SeenOK

(* The harness kills.                                                      *)
LEMMA Kills ==
  ASSUME StraysInv, KillsInv, NEW killed \in SUBSET Processes, NEW spared \in SUBSET killed, IsFiniteSet(killed),
         UnderWay, bench' \in {"stopping", "polling", "writing"},
         bench \in {"escapes", "stopping", "polling"}, bench' = "stopping" => bench = "escapes",
         UNCHANGED <<plan, at, roots, everSeen, owned, report>>, running' \subseteq running,
         ownKills' = ownKills \cup [by : {at}, process : killed], unkilled' = unkilled \cup spared,
         MeasuredOK', OwnsUpTo(KilledBy(at) \cup killed, measured')
  PROVE  KillsInv'
<1>. USE DEF KillsInv
<1>1. /\ Entered /\ UnderWay' /\ Entered' /\ \A p : Before(p)' = Before(p)
      /\ at \in Trials
  BY DEF Entered, UnderWay, Before, StraysInv, BenchTyped, Trials
<1>2. FreshOK'
  BY <1>1 DEF FreshOK, Kept
<1>3. SeenOK'
  BY DEF SeenOK, Opening
<1>4. KilledBy(at)' = KilledBy(at) \cup killed /\ \A trial : trial # at => KilledBy(trial)' = KilledBy(trial)
  BY KilledAdds
<1>5. KillsReported'
  <2>. SUFFICES ASSUME NEW i \in 1 .. Len(report), NEW k \in 1 .. Kept(i)
                PROVE  OwnsUpTo(KilledBy([cell |-> i, trial |-> k])', report[i].trials[k])
    BY <1>1 DEF KillsReported, Kept, KilledBy
  <2>1. [cell |-> i, trial |-> k] # at
    BY <1>1 DEF FreshOK, Trials
  <2>. QED
    BY <1>4, <2>1 DEF KillsOK, KillsReported
<1>6. \A x \in ownKills' : Before(x.by) \/ x.by = at
  BY DEF KillsOK
<1>7. OwnsUpTo(KilledBy(at), measured)' /\ IsFiniteSet(KilledBy(at))'
  <2>1. IsFiniteSet(KilledBy(at))
    BY NobodyKilled, FS_EmptySet DEF KillsOK, Opening
  <2>2. IsFiniteSet(KilledBy(at)')
    BY <1>4, <2>1, FS_Union
  <2>. QED
    BY <1>4, <2>2 DEF OwnsUpTo, KilledBy
<1>8. KillsOK'
  BY <1>1, <1>5, <1>6, <1>7 DEF KillsOK
<1>9. FiniteOK'
  <2>1. IsFiniteSet(running')
    BY FS_Subset DEF FiniteOK
  <2>2. ownKills' \subseteq [by : Trials, process : Processes]
    BY <1>1 DEF FiniteOK
  <2>3. \A p \in killed : [by |-> at, process |-> p] \in ownKills' /\ [by |-> at, process |-> p].process = p
    OBVIOUS
  <2>4. unkilled' \subseteq {x.process : x \in ownKills'}
    BY <2>3 DEF FiniteOK
  <2>. QED
    BY <2>1, <2>2, <2>4 DEF FiniteOK
<1>. QED
  BY <1>2, <1>3, <1>8, <1>9

(* The trial ends, kept or not.                                            *)
LEMMA EndsKills ==
  ASSUME StraysInv, StraysInv', KillsInv, UnderWay, TrialFails, running' \subseteq running,
         UNCHANGED <<plan, trialVars, ownKills, unkilled>>
  PROVE  KillsInv'
<1>. USE DEF KillsInv, trialVars
<1>1. /\ bench' = "next" /\ ~UnderWay' /\ Entered /\ Len(report) = at.cell /\ IsSeq(report)
      /\ at.cell \in Nat \ {0} /\ at.trial \in Nat \ {0}
  BY DEF TrialFails, UnderWay, Entered, StraysInv, BenchTyped, ReportOK
<1>2. at'.cell = at.cell + 1 /\ at'.trial = 1 /\ ~Entered'
  BY <1>1 DEF TrialFails, Entered, UnderWay
<1>3. Len(report') = Len(report) /\ \A i \in 1 .. Len(report) : report'[i].trials = report[i].trials
  <2>. DEFINE old == report[at.cell]
              new == [old EXCEPT !.failed = TRUE]
  <2>1. report' = With(report, at.cell, new)
    BY <1>1 DEF TrialFails, With
  <2>2. old \in [trials : {old.trials}, failed : BOOLEAN]
    BY <1>1 DEF StraysInv, BenchTyped, ReportOK
  <2>3. new.trials = old.trials
    BY <2>2
  <2>. HIDE DEF new
  <2>4. Len(report') = Len(report) /\ \A i \in 1 .. Len(report) : report'[i] = IF i = at.cell THEN new ELSE report[i]
    BY <1>1, <2>1, IsSeqWith
  <2>. QED
    BY <2>3, <2>4
<1>4. \A i \in 1 .. Len(report) : Kept(i)' = Kept(i)
  BY <1>3 DEF Kept
<1>5. FreshOK'
  BY <1>1, <1>2, <1>4 DEF FreshOK
<1>6. SeenOK' /\ MeasuredOK'
  BY <1>1 DEF SeenOK, MeasuredOK, Opening
<1>7. \A x \in ownKills : Before(x.by)'
  BY <1>1, <1>2 DEF KillsOK, Before, FiniteOK, Trials
<1>8. KillsReported'
  BY <1>3, <1>4 DEF KillsOK, KillsReported, KilledBy
<1>9. KillsOK'
  BY <1>1, <1>7, <1>8 DEF KillsOK
<1>10. FiniteOK'
  BY FS_Subset DEF FiniteOK
<1>. QED
  BY <1>5, <1>6, <1>9, <1>10

LEMMA KeepKills == ASSUME StraysInv, StraysInv', KillsInv, KeepTrial PROVE KillsInv'
<1>. USE DEF KillsInv
<1>1. /\ bench = "writing" /\ bench' = "next" /\ UnderWay /\ ~UnderWay' /\ Entered
      /\ UNCHANGED <<plan, processVars, trialVars, ownKills, unkilled>>
  BY DEF KeepTrial, UnderWay, Entered
<1>2. /\ Len(report) = at.cell /\ IsSeq(report) /\ at.cell \in Nat \ {0} /\ at.trial \in Nat \ {0}
      /\ Kept(at.cell) = at.trial - 1
  BY <1>1 DEF StraysInv, BenchTyped, ReportOK, FreshOK
<1>3. \/ at'.cell = at.cell /\ at'.trial = at.trial + 1
      \/ at'.cell = at.cell + 1 /\ at'.trial = 1 /\ ~Entered'
  <2>1. CASE at.trial < Cell.trials
    <3>1. at' = [at EXCEPT !.trial = at.trial + 1]
      BY <2>1 DEF KeepTrial
    <3>. QED
      BY <3>1 DEF StraysInv, BenchTyped
  <2>2. CASE ~(at.trial < Cell.trials)
    BY <1>1, <2>2 DEF KeepTrial, Entered
  <2>. QED
    BY <2>1, <2>2
<1>. DEFINE old == report[at.cell]
            new == [old EXCEPT !.trials = Append(old.trials, measured)]
<1>4. report' = With(report, at.cell, new)
  BY <1>2 DEF KeepTrial, With
<1>5. old \in [trials : {old.trials}, failed : BOOLEAN] /\ IsSeq(old.trials) /\ Len(old.trials) = at.trial - 1
  BY <1>2 DEF StraysInv, BenchTyped, ReportOK, Kept
<1>6. new.trials = Append(old.trials, measured)
  BY <1>5
<1>7. /\ Len(new.trials) = at.trial
      /\ \A k \in 1 .. at.trial - 1 : new.trials[k] = old.trials[k]
      /\ new.trials[at.trial] = measured
  BY <1>2, <1>5, <1>6, IsSeqAppend
<1>. HIDE DEF new
<1>8. Len(report') = Len(report) /\ \A i \in 1 .. Len(report) : report'[i] = IF i = at.cell THEN new ELSE report[i]
  BY <1>2, <1>4, IsSeqWith
<1>9. /\ \A i \in 1 .. Len(report) : i # at.cell => report'[i] = report[i]
      /\ report'[at.cell] = new
  BY <1>2, <1>8
<1>10. FreshOK'
  <2>2. Entered' => Kept(at.cell)' = at'.trial - 1
    BY <1>2, <1>3, <1>7, <1>9 DEF Kept
  <2>. QED
    BY <2>2 DEF FreshOK
<1>11. SeenOK' /\ MeasuredOK'
  BY <1>1 DEF SeenOK, MeasuredOK, Opening, trialVars
<1>12. \A x \in ownKills : Before(x.by)'
  BY <1>1, <1>2, <1>3 DEF KillsOK, Before, FiniteOK, Trials
<1>13. KillsReported'
  <2>. SUFFICES ASSUME NEW i \in 1 .. Len(report), NEW k \in 1 .. Len(report'[i].trials)
                PROVE  OwnsUpTo(KilledBy([cell |-> i, trial |-> k]), report'[i].trials[k])
    BY <1>1, <1>8 DEF KillsReported, Kept, KilledBy
  <2>1. CASE i = at.cell /\ k = at.trial
    <3>1. [cell |-> i, trial |-> k] = at
      BY <2>1 DEF StraysInv, BenchTyped
    <3>. QED
      BY <1>1, <1>7, <1>9, <2>1, <3>1 DEF KillsOK
  <2>2. CASE i = at.cell /\ k # at.trial
    <3>1. k \in 1 .. at.trial - 1 /\ report'[i].trials[k] = report[i].trials[k] /\ k \in 1 .. Kept(i)
      BY <1>2, <1>7, <1>9, <2>2
    <3>. QED
      BY <3>1 DEF KillsOK, KillsReported
  <2>3. CASE i # at.cell
    BY <1>9, <2>3 DEF KillsOK, KillsReported, Kept
  <2>. QED
    BY <2>1, <2>2, <2>3
<1>14. KillsOK'
  BY <1>1, <1>12, <1>13 DEF KillsOK
<1>15. FiniteOK'
  BY <1>1 DEF FiniteOK, processVars, trialVars
<1>. QED
  BY <1>10, <1>11, <1>14, <1>15

LEMMA TearsDown == ASSUME StraysInv, KillsInv, MeasureEscape \/ StopSession \/ EndCleanup PROVE KillsInv'
<1>. USE DEF KillsInv
<1>1. /\ UnderWay /\ Entered /\ UNCHANGED <<plan, at, roots, everSeen, owned, report>>
      /\ measured.cleanup = {} /\ running' \subseteq running
  <2>1. bench \in {"escapes", "stopping", "polling"}
    BY DEF MeasureEscape, StopSession, EndCleanup
  <2>2. running' \subseteq running
    <3>1. StopSession => running' \subseteq running
      BY StopClears
    <3>. QED
      BY <3>1 DEF MeasureEscape, EndCleanup, KillSurvivors, Dies
  <2>. QED
    BY <2>1, <2>2 DEF MeasureEscape, StopSession, EndCleanup, MeasuredOK, Opening, UnderWay, Entered
<1>2. CASE MeasureEscape
  <2>1. Opening /\ bench = "escapes" /\ bench' = "stopping"
    BY <1>2 DEF MeasureEscape, Opening
  <2>2. PICK confirmed \in {Confirmed, {}}, detected \in Detections :
          /\ measured' = [measured EXCEPT !.escape =
               {[injected |-> AgentCount, confirmed |-> Cardinality(confirmed),
                 detected |-> IF Cell.launcher = "memmux" THEN {Cardinality(detected)} ELSE {}]}]
          /\ \E spared \in SUBSET confirmed : KillSurvivors(confirmed, spared)
    BY <1>2 DEF MeasureEscape
  <2>10. PICK spared \in SUBSET confirmed : KillSurvivors(confirmed, spared)
    BY <2>2
  <2>3. \A p \in confirmed : p.part = "escapee" /\ p \in running
    BY <2>1, ConfirmedEscaped
  <2>4. IsFiniteSet(confirmed) /\ Cardinality(confirmed) \in Nat
    BY <2>3, FS_Subset, FS_CardinalityType DEF FiniteOK
  <2>. DEFINE e == [injected |-> AgentCount, confirmed |-> Cardinality(confirmed),
                    detected |-> IF Cell.launcher = "memmux" THEN {Cardinality(detected)} ELSE {}]
  <2>5. e.confirmed = Cardinality(confirmed)
    OBVIOUS
  <2>6. measured' = [measured EXCEPT !.escape = {e}]
    BY <2>2
  <2>. HIDE DEF e
  <2>7. MeasuredOK' /\ measured'.escape = {e}
    BY <2>1, <2>4, <2>5, <2>6 DEF MeasuredOK, Opening
  <2>8. KilledBy(at) \cup confirmed = confirmed
    BY <2>1, NobodyKilled
  <2>9. OwnsUpTo(KilledBy(at) \cup confirmed, measured')
    BY <2>3, <2>4, <2>5, <2>7, <2>8, KillsConfirmed
  <2>11. confirmed \subseteq Processes
    BY <2>3 DEF StraysInv, BenchTyped
  <2>. QED
    BY <1>1, <2>1, <2>4, <2>7, <2>9, <2>10, <2>11, Kills DEF KillSurvivors
<1>3. CASE StopSession
  <2>1. bench = "stopping" /\ bench' = "polling" /\ ownKills' = ownKills \cup [by : {at}, process : {}]
        /\ unkilled' = unkilled \cup {}
    BY <1>3 DEF StopSession
  <2>2. PICK h4 : measured' = [measured EXCEPT !.h4 = h4]
    BY <1>3 DEF StopSession
  <2>3. MeasuredOK' /\ measured'.cleanup = measured.cleanup /\ measured'.escape = measured.escape
    BY <2>1, <2>2 DEF MeasuredOK, Opening
  <2>5. OwnsUpTo(KilledBy(at), measured)
    BY <2>1 DEF KillsOK
  <2>6. OwnsUpTo(KilledBy(at) \cup {}, measured')
    BY <2>3, <2>5 DEF OwnsUpTo
  <2>. QED
    BY <1>1, <2>1, <2>3, <2>6, FS_EmptySet, Kills
<1>4. CASE EndCleanup
  <2>1. /\ bench = "polling" /\ bench' = "writing" /\ measured' = [measured EXCEPT !.cleanup = Reclaimed]
    BY <1>4 DEF EndCleanup
  <2>8. PICK spared \in SUBSET (survivors \cap running) : KillSurvivors(survivors, spared)
    BY <1>4 DEF EndCleanup
  <2>2. MeasuredOK' /\ measured'.cleanup = Reclaimed /\ measured'.escape = measured.escape
    BY <2>1 DEF MeasuredOK, Opening
  <2>3. survivors = {} \/ \E c \in measured'.cleanup : c.leaked = Cardinality(survivors)
    <3>1. survivors \subseteq owned
      BY DEF StraysInv, BenchTyped
    <3>2. owned # {} => Reclaimed = {[owned |-> Cardinality(owned), leaked |-> Cardinality(survivors)]}
      BY DEF Reclaimed
    <3>3. [owned |-> Cardinality(owned), leaked |-> Cardinality(survivors)].leaked = Cardinality(survivors)
      OBVIOUS
    <3>. QED
      BY <2>2, <3>1, <3>2, <3>3
  <2>5. IsFiniteSet(KilledBy(at)) /\ IsFiniteSet(survivors) /\ survivors \in SUBSET Processes
    <3>1. survivors \subseteq owned /\ owned \subseteq Processes
      BY DEF StraysInv, BenchTyped
    <3>. QED
      BY <2>1, <3>1, FS_Subset DEF FiniteOK, KillsOK
  <2>6. OwnsUpTo(KilledBy(at) \cup survivors, measured')
    <3>1. OwnsUpTo(KilledBy(at), measured) /\ \A e \in measured.escape : e.confirmed \in Nat
      BY <2>1 DEF KillsOK, MeasuredOK
    <3>. QED
      BY <1>1, <2>2, <2>3, <2>5, <3>1, KillsLeaked
  <2>. QED
    BY <1>1, <2>1, <2>2, <2>5, <2>6, <2>8, Kills DEF KillSurvivors
<1>. QED
  BY <1>2, <1>3, <1>4

(* Planning leaves the report alone or opens a row.                        *)
LEMMA ReportOpens ==
  ASSUME IsSeq(report), SkipUnavailable \/ BeginTrial \/ Finish
  PROVE  \/ report' = report
         \/ /\ Len(report') = Len(report) + 1 /\ \A i \in 1 .. Len(report) : report'[i] = report[i]
            /\ report'[Len(report) + 1].trials = <<>>
<1>1. report' = report \/ \E failed \in BOOLEAN : report' = Append(report, [trials |-> <<>>, failed |-> failed])
  BY Zenon DEF SkipUnavailable, BeginTrial, Finish
<1>2. ASSUME NEW failed \in BOOLEAN, NEW e, e = [trials |-> <<>>, failed |-> failed],
             report' = Append(report, e)
      PROVE  /\ Len(report') = Len(report) + 1 /\ \A i \in 1 .. Len(report) : report'[i] = report[i]
             /\ report'[Len(report) + 1].trials = <<>>
  <2>1. e.trials = <<>>
    BY <1>2
  <2>2. /\ Len(report') = Len(report) + 1 /\ \A i \in 1 .. Len(report) : report'[i] = report[i]
        /\ report'[Len(report) + 1] = e
    <3>. HIDE <1>2
    <3>1. /\ Len(Append(report, e)) = Len(report) + 1 /\ Append(report, e)[Len(report) + 1] = e
          /\ \A i \in 1 .. Len(report) : Append(report, e)[i] = report[i]
      BY IsSeqAppend, Zenon
    <3>. QED
      BY <1>2, <3>1, Zenon
  <2>. QED
    BY <2>1, <2>2, Zenon
<1>. QED
  BY <1>1, <1>2, Zenon

LEMMA PlanningKills == ASSUME StraysInv, StraysInv', KillsInv, SkipUnavailable \/ BeginTrial \/ Finish PROVE KillsInv'
<1>. USE DEF KillsInv
<1>1. /\ bench = "next" /\ ~UnderWay /\ at.cell \in Nat \ {0} /\ at.trial \in Nat \ {0} /\ IsSeq(report)
      /\ Len(report) \in Nat
      /\ UNCHANGED <<plan, processVars, ownKills, unkilled>>
  BY IsSeqProperties DEF SkipUnavailable, BeginTrial, Finish, UnderWay, StraysInv, BenchTyped, ReportOK, trialVars
<1>2. \/ report' = report
      \/ /\ Len(report') = Len(report) + 1 /\ \A i \in 1 .. Len(report) : report'[i] = report[i]
         /\ report'[Len(report) + 1].trials = <<>>
  BY <1>1, ReportOpens
<1>3. /\ \A i \in 1 .. Len(report) : i \in 1 .. Len(report') /\ report'[i] = report[i]
      /\ \A i \in 1 .. Len(report') : i \in 1 .. Len(report) \/ Len(report'[i].trials) = 0
  BY <1>1, <1>2
<1>5. KillsReported'
  <2>. SUFFICES ASSUME NEW i \in 1 .. Len(report'), NEW k \in 1 .. Len(report'[i].trials)
                PROVE  OwnsUpTo(KilledBy([cell |-> i, trial |-> k]), report'[i].trials[k])
    BY <1>1 DEF KillsReported, Kept, KilledBy
  <2>1. i \in 1 .. Len(report) /\ report'[i] = report[i]
    BY <1>3
  <2>. QED
    BY <2>1 DEF KillsOK, KillsReported, Kept
<1>6. Entered' => Kept(at.cell)' = at'.trial - 1
  <2>1. CASE BeginTrial
    <3>1. at' = at /\ Entered'
      BY <2>1 DEF BeginTrial, Entered, UnderWay
    <3>2. CASE at.trial = 1
      <4>1. ~Entered /\ Len(report) = at.cell - 1 /\ report' = Append(report, [trials |-> <<>>, failed |-> FALSE])
        BY <1>1, <2>1, <3>2 DEF BeginTrial, Entered, StraysInv, BenchTyped, ReportOK
      <4>2. report'[at.cell].trials = <<>>
        BY <1>1, <4>1, IsSeqAppend
      <4>. QED
        BY <3>1, <3>2, <4>2 DEF Kept
    <3>3. CASE at.trial # 1
      BY <1>1, <2>1, <3>1, <3>3 DEF BeginTrial, Entered, FreshOK, Kept
    <3>. QED
      BY <3>2, <3>3
  <2>2. CASE SkipUnavailable
    BY <1>1, <2>2 DEF SkipUnavailable, Entered, UnderWay
  <2>3. CASE Finish
    BY <1>1, <2>3 DEF Finish, Entered, UnderWay, FreshOK, Kept
  <2>. QED
    BY <2>1, <2>2, <2>3
<1>7. FreshOK'
  BY <1>6 DEF FreshOK
<1>8. SeenOK' /\ MeasuredOK'
  <2>1. CASE BeginTrial
    BY <2>1 DEF BeginTrial, SeenOK, MeasuredOK, NothingMeasured
  <2>2. CASE SkipUnavailable \/ Finish
    BY <2>2 DEF SkipUnavailable, Finish, SeenOK, MeasuredOK, Opening, trialVars
  <2>. QED
    BY <2>1, <2>2
<1>9. \A x \in ownKills : Before(x.by) /\ Before(x.by)'
  <2>1. \A x \in ownKills : Before(x.by)
    BY <1>1 DEF KillsOK
  <2>. QED
    BY <1>1, <2>1 DEF SkipUnavailable, BeginTrial, Finish, Before, FiniteOK, Trials
<1>10. KillsOK'
  <2>1. bench' \notin {"stopping", "polling", "writing"}
    BY <1>1 DEF SkipUnavailable, BeginTrial, Finish
  <2>. QED
    BY <1>1, <1>5, <1>9, <2>1 DEF KillsOK
<1>11. FiniteOK'
  BY <1>1, FS_EmptySet DEF FiniteOK, processVars, SkipUnavailable, BeginTrial, Finish, trialVars
<1>. QED
  BY <1>7, <1>8, <1>10, <1>11

LEMMA FailKills ==
  ASSUME StraysInv, StraysInv', KillsInv, StartFails \/ StartFindsNobody \/ WriteFails PROVE KillsInv'
<1>1. UnderWay /\ UNCHANGED <<plan, forked, trialVars, ownKills, unkilled>>
  BY DEF StartFails, StartFindsNobody, WriteFails, UnderWay, processVars
<1>2. running' \subseteq running
  BY DEF StartFails, StartFindsNobody, WriteFails, AbandonStart, KillServerFails, HangsUp, Dies, processVars
<1>3. CASE TrialFails
  BY <1>1, <1>2, <1>3, EndsKills
<1>4. CASE WriteFails /\ bench' = "aborted" /\ UNCHANGED <<at, report>>
  <2>. USE DEF KillsInv
  <2>1. /\ UnderWay' /\ Entered /\ Entered' /\ bench = "writing" /\ UNCHANGED <<running, reparented, plan>>
        /\ \A p : Before(p)' = Before(p)
    BY <1>4 DEF WriteFails, Entered, UnderWay, Before, processVars
  <2>2. FreshOK'
    BY <1>1, <1>4, <2>1 DEF FreshOK, Kept, trialVars
  <2>3. SeenOK' /\ MeasuredOK'
    BY <1>1, <1>4 DEF SeenOK, MeasuredOK, Opening, trialVars
  <2>4. KillsOK'
    BY <1>1, <1>4, <2>1 DEF KillsOK, KillsReported, Kept, KilledBy
  <2>. QED
    BY <1>1, <2>1, <2>2, <2>3, <2>4 DEF FiniteOK, trialVars
<1>. QED
  BY <1>3, <1>4 DEF StartFails, StartFindsNobody, WriteFails

LEMMA InitKills == BenchInit => KillsInv
<1>. SUFFICES ASSUME BenchInit PROVE KillsInv
  OBVIOUS
<1>. USE DEF BenchInit
<1>1. Len(report) = 0 /\ ~UnderWay /\ ~Entered /\ ~Opening
  BY EmptySeq DEF UnderWay, Entered, Opening
<1>2. FreshOK /\ SeenOK
  BY <1>1 DEF FreshOK, SeenOK
<1>3. MeasuredOK
  BY <1>1 DEF MeasuredOK, NothingMeasured
<1>4. KillsOK
  BY <1>1 DEF KillsOK, KillsReported
<1>. QED
  BY <1>2, <1>3, <1>4, FS_EmptySet DEF KillsInv, FiniteOK

LEMMA KillsStutter == ASSUME KillsInv, UNCHANGED benchVars PROVE KillsInv'
BY WorldKills DEF benchVars, processVars, trialVars, KillsInv, FiniteOK, SeenOK

BenchInv == StraysInv /\ KillsInv

LEMMA InitBench == BenchInit => BenchInv
BY InitStrays, InitKills DEF BenchInv

LEMMA BenchStep == BenchInv /\ [BenchNext]_benchVars => BenchInv'
<1>. SUFFICES ASSUME StraysInv, KillsInv, [BenchNext]_benchVars PROVE StraysInv' /\ KillsInv'
  BY DEF BenchInv
<1>1. StraysInv'
  BY StraysStep
<1>2. CASE HarnessStep
  BY <1>1, <1>2, PlanningKills, LaunchKills, FailKills, LookKills, TearsDown, PollKills, KeepKills DEF HarnessStep
<1>3. CASE AdmitsLate
  BY <1>1, <1>3, LaunchKills
<1>4. ASSUME NEW p \in running, AgentForks(p) \/ Escapes(p) \/ Exits(p) PROVE KillsInv'
  BY <1>4, ForkKills, LeaveKills
<1>5. CASE UNCHANGED benchVars
  BY <1>1, <1>5, KillsStutter
<1>. QED
  BY <1>1, <1>2, <1>3, <1>4, <1>5 DEF BenchNext

-----------------------------------------------------------------------------
(* The figures of the trials that are kept, and what is kept of a cell.    *)
CountsOK(ts) ==
  IsSeq(ts) /\ \A k \in 1 .. Len(ts) : ts[k].provider \in Nat /\ ts[k].manager \in Nat /\ ts[k].first \in Nat

TrialOK(t, i) ==
  /\ CountsOK(t.records) /\ t.cpu \subseteq Nat
  /\ \A c \in t.cleanup : c.owned \in Nat /\ c.leaked \in Nat
  /\ \A e \in t.escape : /\ e.injected = plan[i].agents /\ e.confirmed \in Nat
                         /\ e.confirmed <= plan[i].agents \/ HadStrangers(i)
  /\ \A h \in t.h4 : h.victims \in Nat /\ h.captured \in Nat /\ t.h4 = {h}

MyAgents == {Agent(i) : i \in 1..AgentCount}

RowsInv ==
  /\ \A i \in 1 .. Len(report) : \A k \in 1 .. Kept(i) : TrialOK(report[i].trials[k], i)
  /\ UnderWay => TrialOK(measured, at.cell)
  /\ Entered => report[at.cell].failed = FALSE
  /\ bench \in {"capturing", "escapes"} => roots \subseteq MyAgents \/ HadStrangers(at.cell)
  /\ \A i \in 1 .. Len(report) : i < at.cell => Kept(i) = plan[i].trials \/ report[i].failed
  /\ bench = "finished" => at.cell > Len(plan)

LEMMA SameStrangers ==
  ASSUME plan' = plan, unstopped \subseteq unstopped', NEW n \in Int,
         \A j \in 1 .. n - 1 : report'[j].failed = report[j].failed
  PROVE  \A i \in 1 .. n : HadStrangers(i) => HadStrangers(i)'
<1>. TAKE i \in 1 .. n
<1>1. \A j \in 1 .. i - 1 : j \in 1 .. n - 1
  OBVIOUS
<1>. QED
  BY <1>1 DEF HadStrangers

LEMMA SameTrial ==
  ASSUME NEW t, NEW i, HadStrangers(i) => HadStrangers(i)', plan' = plan
  PROVE  TrialOK(t, i) => TrialOK(t, i)'
BY DEF TrialOK

(* The trial goes on.                                                      *)
LEMMA RowsGoOn ==
  ASSUME StraysInv, RowsInv, UNCHANGED <<plan, at, report>>, unstopped \subseteq unstopped',
         UnderWay' => UnderWay, Entered' <=> Entered,
         UnderWay' => TrialOK(measured', at.cell),
         bench' = "finished" => at.cell > Len(plan),
         bench' \in {"capturing", "escapes"}
           => roots' = roots /\ (bench \in {"capturing", "escapes"} \/ roots \subseteq MyAgents \/ HadStrangers(at.cell))
  PROVE  RowsInv'
<1>1. at.cell \in Int /\ Len(report) \in Int /\ Cell' = Cell /\ AgentCount' = AgentCount
  BY IsSeqProperties DEF StraysInv, BenchTyped, ReportOK, Cell, AgentCount
<1>2. \A i \in 1 .. Len(report) \cup {at.cell} : HadStrangers(i) => HadStrangers(i)'
  BY DEF HadStrangers
<1>3. \A i \in 1 .. Len(report) : \A k \in 1 .. Kept(i) : TrialOK(report[i].trials[k], i)'
  BY <1>2 DEF RowsInv, TrialOK
<1>4. UnderWay' => TrialOK(measured, at.cell)'
  BY <1>2 DEF TrialOK
<1>5. MyAgents' = MyAgents
  BY <1>1 DEF MyAgents, Agent
<1>. QED
  BY <1>1, <1>2, <1>3, <1>4, <1>5 DEF RowsInv, Kept

(* A trial measures the escapes of its own agents, one of each.            *)
LEMMA OneEach ==
  ASSUME StraysInv, KillsInv, bench = "escapes", roots \subseteq MyAgents
  PROVE  Cardinality(Confirmed) <= AgentCount
<1>1. AgentCount \in Nat
  BY EnteredCell DEF StraysInv, Entered, UnderWay
<1>2. \A p \in Confirmed : p \in Processes /\ p.part = "escapee" /\ AgentOf(p) \in MyAgents
  <2>. TAKE p \in Confirmed
  <2>1. p.part = "escapee" /\ p \in running /\ p \in everSeen
    BY ConfirmedEscaped DEF Opening, Confirmed
  <2>2. p \in Processes /\ IsBelow(p) /\ AgentOf(p) \in roots
    BY <2>1 DEF StraysInv, BenchTyped, KillsInv, SeenOK, Opening, IsBelow
  <2>. QED
    BY <2>1, <2>2
<1>3. \A p \in Confirmed : p.agent \in 1..AgentCount /\ p = [Agent(p.agent) EXCEPT !.part = "escapee"]
  <2>. TAKE p \in Confirmed
  <2>1. PICK i \in 1..AgentCount : AgentOf(p) = Agent(i)
    BY <1>2 DEF MyAgents
  <2>2. p.cell = at.cell /\ p.trial = at.trial /\ p.agent = i
    BY <1>2, <2>1 DEF AgentOf, Agent, Processes
  <2>. QED
    BY <1>2, <2>2 DEF Agent, Processes
<1>. DEFINE f == [p \in Confirmed |-> p.agent]
<1>4. f \in Injection(Confirmed, 1..AgentCount)
  BY <1>3 DEF Injection, IsInjective
<1>. HIDE DEF f
<1>5. IsFiniteSet(1..AgentCount) /\ Cardinality(1..AgentCount) = AgentCount
  BY <1>1, FS_Interval
<1>. QED
  BY <1>4, <1>5, FS_Injection

LEMMA AccountingCounts ==
  ASSUME KillsInv PROVE Accounting.provider \in Nat /\ Accounting.manager \in Nat /\ Accounting.first \in Nat
<1>1. Below(roots) \subseteq running /\ Below(FirstRoot) \subseteq running
  BY BelowRuns
<1>2. ManagerOnly \subseteq running
  BY DEF ManagerOnly, Hosted, Mine
<1>3. \A s : s \subseteq running => Cardinality(s) \in Nat
  BY FS_Subset, FS_CardinalityType DEF KillsInv, FiniteOK
<1>. QED
  BY <1>1, <1>2, <1>3 DEF Accounting

LEMMA MeasuredSampled == ASSUME StraysInv, KillsInv, RowsInv, Sample PROVE TrialOK(measured', at.cell)
<1>1. UnderWay /\ measured' = [measured EXCEPT !.records = Append(measured.records, Accounting)]
  BY DEF Sample, UnderWay
<1>2. /\ measured'.records = Append(measured.records, Accounting) /\ measured'.cpu = measured.cpu
      /\ measured'.cleanup = measured.cleanup /\ measured'.escape = measured.escape /\ measured'.h4 = measured.h4
  BY <1>1 DEF KillsInv, MeasuredOK
<1>3. CountsOK(measured.records)
  BY <1>1 DEF RowsInv, TrialOK
<1>4. CountsOK(Append(measured.records, Accounting))
  <2>. DEFINE ts == measured.records
              s  == Append(ts, Accounting)
  <2>1. /\ IsSeq(s) /\ Len(s) = Len(ts) + 1 /\ Len(ts) \in Nat
        /\ \A i \in 1 .. Len(ts) : s[i] = ts[i]
        /\ s[Len(ts) + 1] = Accounting
    BY <1>3, IsSeqAppend, IsSeqProperties DEF CountsOK
  <2>2. Accounting.provider \in Nat /\ Accounting.manager \in Nat /\ Accounting.first \in Nat
    BY AccountingCounts
  <2>. HIDE DEF s
  <2>3. \A k \in 1 .. Len(s) : s[k].provider \in Nat /\ s[k].manager \in Nat /\ s[k].first \in Nat
    <3>. TAKE k \in 1 .. Len(s)
    <3>1. k \in 1 .. Len(ts) \/ k = Len(ts) + 1
      BY <2>1
    <3>. QED
      BY <1>3, <2>1, <2>2, <3>1 DEF CountsOK
  <2>4. CountsOK(s)
    BY <2>1, <2>3 DEF CountsOK
  <2>. QED
    BY <2>4 DEF s
<1>. QED
  BY <1>1, <1>2, <1>4 DEF RowsInv, TrialOK

LEMMA MeasuredCpu == ASSUME StraysInv, KillsInv, RowsInv, LoopEnds PROVE TrialOK(measured', at.cell)
<1>1. UnderWay
  BY DEF LoopEnds, UnderWay
<1>2. PICK cpu \in ManagerCpu : measured' = [measured EXCEPT !.cpu = cpu]
  BY DEF LoopEnds
<1>3. cpu \subseteq Nat
  BY BenchAssumption DEF ManagerCpu
<1>4. /\ measured'.records = measured.records /\ measured'.cpu = cpu
      /\ measured'.cleanup = measured.cleanup /\ measured'.escape = measured.escape /\ measured'.h4 = measured.h4
  BY <1>2 DEF KillsInv, MeasuredOK
<1>. QED
  BY <1>1, <1>3, <1>4 DEF RowsInv, TrialOK

LEMMA MeasuredEscapes == ASSUME StraysInv, KillsInv, RowsInv, MeasureEscape PROVE TrialOK(measured', at.cell)
<1>1. UnderWay /\ bench = "escapes" /\ Opening
  BY DEF MeasureEscape, UnderWay, Opening
<1>2. PICK confirmed \in {Confirmed, {}}, detected \in Detections :
        measured' = [measured EXCEPT !.escape =
          {[injected |-> AgentCount, confirmed |-> Cardinality(confirmed),
            detected |-> IF Cell.launcher = "memmux" THEN {Cardinality(detected)} ELSE {}]}]
  BY Zenon DEF MeasureEscape
<1>. DEFINE e == [injected |-> AgentCount, confirmed |-> Cardinality(confirmed),
                  detected |-> IF Cell.launcher = "memmux" THEN {Cardinality(detected)} ELSE {}]
<1>3. e.injected = AgentCount /\ e.confirmed = Cardinality(confirmed) /\ measured' = [measured EXCEPT !.escape = {e}]
  BY <1>2
<1>. HIDE DEF e
<1>4. AgentCount \in Nat
  BY <1>1, EnteredCell DEF StraysInv, Entered
<1>5. Cardinality(confirmed) \in Nat
  <2>1. confirmed \subseteq running
    BY <1>1, ConfirmedEscaped
  <2>. QED
    BY <2>1, FS_Subset, FS_CardinalityType DEF KillsInv, FiniteOK
<1>6. Cardinality(confirmed) <= AgentCount \/ HadStrangers(at.cell)
  <2>1. roots \subseteq MyAgents \/ HadStrangers(at.cell)
    BY <1>1 DEF RowsInv
  <2>2. confirmed = {} => Cardinality(confirmed) <= AgentCount
    BY <1>4, FS_EmptySet
  <2>3. roots \subseteq MyAgents => Cardinality(Confirmed) <= AgentCount
    BY <1>1, OneEach
  <2>. QED
    BY <2>1, <2>2, <2>3
<1>7. /\ measured'.records = measured.records /\ measured'.cpu = measured.cpu
      /\ measured'.cleanup = measured.cleanup /\ measured'.escape = {e} /\ measured'.h4 = measured.h4
  BY <1>3 DEF KillsInv, MeasuredOK
<1>. QED
  BY <1>1, <1>3, <1>4, <1>5, <1>6, <1>7 DEF RowsInv, TrialOK, AgentCount, Cell

LEMMA MeasuredStop == ASSUME StraysInv, KillsInv, RowsInv, StopSession PROVE TrialOK(measured', at.cell)
<1>1. UnderWay
  BY DEF StopSession, UnderWay
<1>2. PICK h4 \in Governance : measured' = [measured EXCEPT !.h4 = h4]
  BY DEF StopSession
<1>3. \A h \in h4 : h.victims \in Nat /\ h.captured \in Nat /\ h4 = {h}
  <2>1. CASE h4 = {}
    BY <2>1
  <2>2. CASE h4 # {}
    <3>1. PICK events \in EventStreams : h4 = {ClassifyEvents(events)}
      BY <2>2 DEF Governance
    <3>2. IsFiniteSet(DOMAIN events)
      <4>1. events \in Seq(STRING)
        BY BenchAssumption
      <4>2. DOMAIN events = 1 .. Len(events) /\ Len(events) \in Nat
        BY <4>1, LenProperties
      <4>. QED
        BY <4>2, FS_Interval
    <3>3. \A kinds : Tally(events, kinds) \in Nat
      <4>. TAKE kinds
      <4>1. {i \in DOMAIN events : events[i] \in kinds} \in SUBSET DOMAIN events
        OBVIOUS
      <4>. QED
        BY <3>2, <4>1, FS_Subset, FS_CardinalityType DEF Tally
    <3>. QED
      BY <3>1, <3>3 DEF ClassifyEvents
  <2>. QED
    BY <2>1, <2>2
<1>4. /\ measured'.records = measured.records /\ measured'.cpu = measured.cpu
      /\ measured'.cleanup = measured.cleanup /\ measured'.escape = measured.escape /\ measured'.h4 = h4
  BY <1>2 DEF KillsInv, MeasuredOK
<1>. QED
  BY <1>1, <1>3, <1>4 DEF RowsInv, TrialOK

LEMMA MeasuredCleanup == ASSUME StraysInv, KillsInv, RowsInv, EndCleanup PROVE TrialOK(measured', at.cell)
<1>1. UnderWay /\ measured' = [measured EXCEPT !.cleanup = Reclaimed]
  BY DEF EndCleanup, UnderWay
<1>2. \A c \in Reclaimed : c.owned \in Nat /\ c.leaked \in Nat
  <2>1. survivors \in SUBSET owned /\ IsFiniteSet(owned)
    BY DEF StraysInv, BenchTyped, KillsInv, FiniteOK
  <2>2. Cardinality(owned) \in Nat /\ Cardinality(survivors) \in Nat
    BY <2>1, FS_Subset, FS_CardinalityType
  <2>. QED
    BY <2>2 DEF Reclaimed
<1>3. /\ measured'.records = measured.records /\ measured'.cpu = measured.cpu
      /\ measured'.cleanup = Reclaimed /\ measured'.escape = measured.escape /\ measured'.h4 = measured.h4
  BY <1>1 DEF KillsInv, MeasuredOK
<1>. QED
  BY <1>1, <1>2, <1>3 DEF RowsInv, TrialOK

LEMMA OwnOrStrangers ==
  ASSUME StraysInv, RowsInv, bench \in {"sampling", "checking"}
  PROVE  roots \subseteq MyAgents \/ HadStrangers(at.cell)
<1>1. Entered /\ at.cell \in Nat \ {0} /\ report[at.cell].failed = FALSE
  BY DEF Entered, UnderWay, StraysInv, BenchTyped, RowsInv
<1>2. ASSUME NEW p \in roots, p \notin MyAgents PROVE HadStrangers(at.cell)
  <2>1. /\ Cell.launcher = "tmux" /\ plan[p.cell].launcher = "tmux"
        /\ report[p.cell].failed \/ LeftBehind(p)
        /\ p.cell \in Nat \ {0} /\ p.cell <= at.cell
    BY <1>2 DEF StraysInv, BenchTyped, RootsOK, MeasuresItsOwn, MyAgents, Processes
  <2>2. CASE report[p.cell].failed
    <3>1. p.cell \in 1..at.cell - 1
      BY <1>1, <2>1, <2>2
    <3>. QED
      BY <2>1, <2>2, <3>1 DEF HadStrangers, Cell
  <2>3. CASE LeftBehind(p)
    BY <1>1, <2>1, <2>3 DEF HadStrangers, Cell, LeftBehind
  <2>. QED
    BY <2>1, <2>2, <2>3
<1>. QED
  BY <1>2

LEMMA RowsProcesses ==
  ASSUME StraysInv, RowsInv, UNCHANGED <<plan, at, bench, roots, measured, report, unstopped>> PROVE RowsInv'
<1>1. (Entered' <=> Entered) /\ (UnderWay' <=> UnderWay)
  BY DEF Entered, UnderWay
<1>. QED
  BY <1>1, RowsGoOn DEF RowsInv

LEMMA RowsTrial ==
  ASSUME StraysInv, KillsInv, RowsInv,
         \/ LaunchAgent \/ StartReturns \/ Sample \/ SampleFails \/ LoopAgain \/ LoopEnds
         \/ CaptureOwned \/ MeasureEscape \/ StopSession \/ PollSurvivors \/ EndCleanup
  PROVE  RowsInv'
<1>1. /\ UNCHANGED <<plan, at, report>> /\ unstopped \subseteq unstopped'
      /\ UnderWay /\ UnderWay' /\ Entered /\ Entered' /\ bench' # "finished"
      /\ bench' \in {"capturing", "escapes"} => roots' = roots /\ bench \in {"checking", "capturing"}
  BY DEF LaunchAgent, StartReturns, Sample, SampleFails, LoopAgain, LoopEnds, CaptureOwned, MeasureEscape,
         StopSession, StopRaw, StopMultiplexer, StopMemMux, PollSurvivors, EndCleanup, KillSurvivors,
         UnderWay, Entered, trialVars
<1>2. TrialOK(measured', at.cell)
  <2>1. CASE LaunchAgent \/ StartReturns \/ SampleFails \/ LoopAgain \/ CaptureOwned \/ PollSurvivors
    <3>1. measured' = measured
      BY <2>1 DEF LaunchAgent, StartReturns, SampleFails, LoopAgain, CaptureOwned, PollSurvivors, trialVars
    <3>. QED
      BY <1>1, <3>1 DEF RowsInv
  <2>. QED
    BY <2>1, MeasuredSampled, MeasuredCpu, MeasuredEscapes, MeasuredStop, MeasuredCleanup
<1>3. bench \in {"checking", "capturing"} => roots \subseteq MyAgents \/ HadStrangers(at.cell)
  BY OwnOrStrangers DEF RowsInv
<1>. QED
  BY <1>1, <1>2, <1>3, RowsGoOn

(* The trial ends.                                                         *)
LEMMA RowsFail ==
  ASSUME StraysInv, RowsInv, UnderWay, TrialFails, UNCHANGED <<plan, unstopped>> PROVE RowsInv'
<1>1. /\ bench' = "next" /\ ~UnderWay' /\ Entered /\ Len(report) = at.cell /\ IsSeq(report)
      /\ at.cell \in Nat \ {0} /\ at' = [cell |-> at.cell + 1, trial |-> 1] /\ ~Entered'
  BY DEF TrialFails, UnderWay, Entered, StraysInv, BenchTyped, ReportOK
<1>. DEFINE old == report[at.cell]
            new == [old EXCEPT !.failed = TRUE]
<1>2. report' = With(report, at.cell, new)
  BY <1>1 DEF TrialFails, With
<1>3. old \in [trials : {old.trials}, failed : BOOLEAN]
  BY <1>1 DEF StraysInv, BenchTyped, ReportOK
<1>4. new.trials = old.trials /\ new.failed = TRUE
  BY <1>3
<1>. HIDE DEF new
<1>5. Len(report') = Len(report) /\ \A i \in 1 .. Len(report) : report'[i] = IF i = at.cell THEN new ELSE report[i]
  BY <1>1, <1>2, IsSeqWith
<1>6. \A i \in 1 .. Len(report) :
        /\ report'[i].trials = report[i].trials
        /\ i # at.cell => report'[i].failed = report[i].failed
        /\ i = at.cell => report'[i].failed = TRUE
  BY <1>4, <1>5
<1>7. \A i \in 1 .. Len(report) : HadStrangers(i) => HadStrangers(i)'
  <2>1. at.cell \in Int /\ \A j \in 1 .. at.cell - 1 : report'[j].failed = report[j].failed
    BY <1>1, <1>6
  <2>. QED
    BY <1>1, <2>1, SameStrangers
<1>8. \A i \in 1 .. Len(report') : \A k \in 1 .. Kept(i)' : TrialOK(report[i].trials[k], i)'
  BY <1>5, <1>6, <1>7, SameTrial DEF RowsInv, Kept
<1>9. \A i \in 1 .. Len(report') : Kept(i)' = plan[i].trials \/ report'[i].failed
  <2>. TAKE i \in 1 .. Len(report')
  <2>1. i = at.cell \/ i < at.cell
    BY <1>1, <1>5
  <2>. QED
    BY <1>1, <1>5, <1>6, <2>1 DEF RowsInv, Kept
<1>. QED
  BY <1>1, <1>8, <1>9 DEF RowsInv

LEMMA RowsKeep == ASSUME StraysInv, KillsInv, RowsInv, KeepTrial PROVE RowsInv'
<1>1. /\ bench = "writing" /\ bench' = "next" /\ UnderWay /\ ~UnderWay' /\ Entered
      /\ Len(report) = at.cell /\ IsSeq(report)
      /\ plan' = plan /\ roots' = roots /\ unstopped' = unstopped
  BY DEF KeepTrial, UnderWay, Entered, StraysInv, BenchTyped, ReportOK, trialVars
<1>2. /\ at.cell \in Nat \ {0} /\ at.trial \in Nat \ {0} /\ Kept(at.cell) = at.trial - 1
      /\ Cell.trials \in Nat /\ at.trial <= Cell.trials
  BY <1>1, EnteredCell DEF StraysInv, BenchTyped, ReportOK, KillsInv, FreshOK
<1>3. \/ at'.cell = at.cell /\ at'.trial = at.trial + 1
      \/ at'.cell = at.cell + 1 /\ at'.trial = 1 /\ ~Entered' /\ at.trial = Cell.trials
  <2>1. CASE at.trial < Cell.trials
    <3>1. at' = [at EXCEPT !.trial = at.trial + 1]
      BY <2>1 DEF KeepTrial
    <3>. QED
      BY <3>1 DEF StraysInv, BenchTyped
  <2>2. CASE ~(at.trial < Cell.trials)
    BY <1>1, <1>2, <2>2 DEF KeepTrial, Entered
  <2>. QED
    BY <2>1, <2>2
<1>. DEFINE old == report[at.cell]
            new == [old EXCEPT !.trials = Append(old.trials, measured)]
<1>4. report' = With(report, at.cell, new)
  BY <1>1, <1>2 DEF KeepTrial, With
<1>5. old \in [trials : {old.trials}, failed : BOOLEAN] /\ IsSeq(old.trials) /\ Len(old.trials) = at.trial - 1
  BY <1>1, <1>2 DEF StraysInv, BenchTyped, ReportOK, Kept
<1>6. new.trials = Append(old.trials, measured) /\ new.failed = old.failed /\ old.failed = FALSE
  BY <1>1, <1>5 DEF RowsInv
<1>7. /\ Len(new.trials) = at.trial
      /\ \A k \in 1 .. at.trial - 1 : new.trials[k] = old.trials[k]
      /\ new.trials[at.trial] = measured
  BY <1>2, <1>5, <1>6, IsSeqAppend
<1>. HIDE DEF new
<1>8. Len(report') = Len(report) /\ \A i \in 1 .. Len(report) : report'[i] = IF i = at.cell THEN new ELSE report[i]
  BY <1>1, <1>2, <1>4, IsSeqWith
<1>9. /\ \A i \in 1 .. Len(report) : i # at.cell => report'[i] = report[i]
      /\ report'[at.cell] = new /\ \A i \in 1 .. Len(report) : report'[i].failed = report[i].failed
  BY <1>1, <1>2, <1>6, <1>8
<1>10. \A i \in 1 .. Len(report) : HadStrangers(i) => HadStrangers(i)'
  <2>1. at.cell \in Int /\ \A j \in 1 .. at.cell - 1 : report'[j].failed = report[j].failed
    BY <1>1, <1>2, <1>9
  <2>. QED
    BY <1>1, <2>1, SameStrangers
<1>11. \A i \in 1 .. Len(report') : \A k \in 1 .. Kept(i)' : TrialOK(report[i].trials[k], i)'
  <2>. SUFFICES ASSUME NEW i \in 1 .. Len(report), NEW k \in 1 .. Len(report'[i].trials)
                PROVE  TrialOK(report'[i].trials[k], i)
    BY <1>1, <1>8, <1>10, SameTrial DEF Kept
  <2>1. CASE i = at.cell /\ k = at.trial
    BY <1>1, <1>7, <1>9, <2>1 DEF RowsInv
  <2>2. CASE i = at.cell /\ k # at.trial
    <3>1. report'[i] = new /\ Len(new.trials) = at.trial
      BY <1>7, <1>9, <2>2
    <3>2. k \in 1 .. at.trial - 1 /\ k \in 1 .. Kept(i)
      BY <1>2, <2>2, <3>1
    <3>3. report'[i].trials[k] = report[i].trials[k]
      BY <1>7, <2>2, <3>1, <3>2
    <3>. QED
      BY <3>2, <3>3 DEF RowsInv
  <2>3. CASE i # at.cell
    BY <1>9, <2>3 DEF RowsInv, Kept
  <2>. QED
    BY <2>1, <2>2, <2>3
<1>12. \A i \in 1 .. Len(report') : i < at'.cell => Kept(i)' = plan[i].trials \/ report'[i].failed
  <2>. TAKE i \in 1 .. Len(report')
  <2>1. CASE i = at.cell
    BY <1>2, <1>3, <1>7, <1>9, <2>1 DEF Kept, Cell
  <2>2. CASE i # at.cell
    <3>1. i \in 1 .. Len(report) /\ i < at.cell /\ report'[i] = report[i]
      BY <1>1, <1>2, <1>8, <1>9, <2>2
    <3>. QED
      BY <1>1, <3>1 DEF RowsInv, Kept
  <2>. QED
    BY <2>1, <2>2
<1>13. Entered' => report'[at'.cell].failed = FALSE
  BY <1>2, <1>3, <1>6, <1>9, <1>7
<1>. QED
  BY <1>1, <1>11, <1>12, <1>13 DEF RowsInv

LEMMA RowsPlanning == ASSUME StraysInv, KillsInv, RowsInv, SkipUnavailable \/ BeginTrial \/ Finish PROVE RowsInv'
<1>1. /\ bench = "next" /\ ~UnderWay /\ at.cell \in Nat \ {0} /\ at.trial \in Nat \ {0} /\ IsSeq(report)
      /\ Len(report) \in Nat /\ Len(report) \in {at.cell - 1, at.cell}
      /\ plan' = plan /\ unstopped' = unstopped
      /\ bench' \notin {"capturing", "escapes"}
      /\ bench' = "finished" => at'.cell > Len(plan)
  BY IsSeqProperties DEF SkipUnavailable, BeginTrial, Finish, UnderWay, StraysInv, BenchTyped, ReportOK
<1>2. UnderWay' => BeginTrial /\ at' = at /\ measured' = NothingMeasured
  BY <1>1 DEF SkipUnavailable, BeginTrial, Finish, UnderWay
<1>3. \/ report' = report
      \/ /\ Len(report') = Len(report) + 1 /\ \A i \in 1 .. Len(report) : report'[i] = report[i]
         /\ report'[Len(report) + 1].trials = <<>>
  BY <1>1, ReportOpens
<1>4. \A i \in 1 .. Len(report) : i \in 1 .. Len(report') /\ report'[i] = report[i]
  BY <1>1, <1>3
<1>5. \A i \in 1 .. at.cell : HadStrangers(i) => HadStrangers(i)'
  <2>1. at.cell \in Int /\ \A j \in 1 .. at.cell - 1 : report'[j].failed = report[j].failed
    BY <1>1, <1>4
  <2>. QED
    BY <1>1, <2>1, SameStrangers
<1>6. \A i \in 1 .. Len(report') : \A k \in 1 .. Kept(i)' : TrialOK(report[i].trials[k], i)'
  <2>. SUFFICES ASSUME NEW i \in 1 .. Len(report'), NEW k \in 1 .. Len(report'[i].trials)
                PROVE  i \in 1 .. at.cell /\ TrialOK(report'[i].trials[k], i)
    BY <1>1, <1>5, SameTrial DEF Kept
  <2>1. i \in 1 .. Len(report)
    BY <1>1, <1>3
  <2>. QED
    BY <1>1, <1>4, <2>1 DEF RowsInv, Kept
<1>7. UnderWay' => TrialOK(measured, at.cell)'
  <2>1. IsSeq(<<>>) /\ Len(<<>>) = 0
    BY EmptySeq, SeqIsSeq
  <2>. QED
    BY <1>2, <2>1 DEF TrialOK, CountsOK, NothingMeasured
<1>8. Entered' => report'[at'.cell].failed = FALSE
  <2>1. CASE BeginTrial
    <3>1. at' = at
      BY <2>1 DEF BeginTrial
    <3>2. CASE at.trial = 1
      <4>1. ~Entered /\ Len(report) = at.cell - 1 /\ report' = Append(report, [trials |-> <<>>, failed |-> FALSE])
        BY <1>1, <2>1, <3>2 DEF BeginTrial, Entered, StraysInv, BenchTyped, ReportOK
      <4>. QED
        BY <1>1, <3>1, <4>1, IsSeqAppend
    <3>3. CASE at.trial # 1
      BY <1>1, <2>1, <3>1, <3>3 DEF BeginTrial, Entered, RowsInv
    <3>. QED
      BY <3>2, <3>3
  <2>2. CASE SkipUnavailable
    BY <1>1, <2>2 DEF SkipUnavailable, Entered, UnderWay
  <2>3. CASE Finish
    BY <1>1, <2>3 DEF Finish, Entered, UnderWay, RowsInv
  <2>. QED
    BY <2>1, <2>2, <2>3
<1>9. \A i \in 1 .. Len(report') : i < at'.cell => Kept(i)' = plan[i].trials \/ report'[i].failed
  <2>. TAKE i \in 1 .. Len(report')
  <2>. HAVE i < at'.cell
  <2>1. CASE i < at.cell
    <3>1. i \in 1 .. Len(report)
      BY <1>1, <2>1
    <3>. QED
      BY <1>4, <2>1, <3>1 DEF RowsInv, Kept
  <2>2. CASE ~(i < at.cell)
    <3>1. SkipUnavailable
      BY <1>1, <2>2 DEF BeginTrial, Finish
    <3>2. i = at.cell /\ Len(report) = at.cell - 1
      BY <1>1, <2>2, <3>1 DEF SkipUnavailable, Entered, UnderWay, StraysInv, BenchTyped, ReportOK
    <3>. QED
      BY <1>1, <3>1, <3>2, IsSeqAppend DEF SkipUnavailable
  <2>. QED
    BY <2>1, <2>2
<1>. QED
  BY <1>1, <1>6, <1>7, <1>8, <1>9 DEF RowsInv

LEMMA RowsStep == ASSUME BenchInv, RowsInv, [BenchNext]_benchVars PROVE RowsInv'
<1>. USE DEF BenchInv
<1>1. CASE HarnessStep
  <2>1. CASE StartFails \/ StartFindsNobody \/ WriteFails
    <3>1. UnderWay /\ UNCHANGED <<plan, unstopped>>
      BY <2>1 DEF StartFails, StartFindsNobody, WriteFails, UnderWay
    <3>2. CASE TrialFails
      BY <3>1, <3>2, RowsFail
    <3>3. CASE WriteFails /\ bench' = "aborted" /\ UNCHANGED <<at, report>>
      <4>1. /\ measured' = measured /\ UnderWay' /\ Entered /\ Entered' /\ bench' = "aborted"
            /\ UNCHANGED <<plan, at, report, unstopped>>
        BY <3>3 DEF WriteFails, trialVars, UnderWay, Entered
      <4>. QED
        BY <3>1, <4>1, RowsGoOn DEF RowsInv
    <3>. QED
      BY <2>1, <3>2, <3>3 DEF StartFails, StartFindsNobody, WriteFails
  <2>. QED
    BY <1>1, <2>1, RowsTrial, RowsKeep, RowsPlanning DEF HarnessStep
<1>2. CASE AdmitsLate
  BY <1>2, RowsProcesses DEF AdmitsLate, trialVars
<1>3. ASSUME NEW p \in running, AgentForks(p) \/ Escapes(p) \/ Exits(p) PROVE RowsInv'
  BY <1>3, RowsProcesses DEF AgentForks, Escapes, Exits, trialVars
<1>4. CASE UNCHANGED benchVars
  BY <1>4, RowsProcesses DEF benchVars, trialVars
<1>. QED
  BY <1>1, <1>2, <1>3, <1>4 DEF BenchNext

LEMMA InitRows == BenchInit => RowsInv
<1>. SUFFICES ASSUME BenchInit PROVE RowsInv
  OBVIOUS
<1>. USE DEF BenchInit
<1>1. Len(report) = 0 /\ ~UnderWay /\ ~Entered
  BY EmptySeq DEF UnderWay, Entered
<1>. QED
  BY <1>1 DEF RowsInv

-----------------------------------------------------------------------------
(* What the rows and the gates make of it.                                 *)

LEMMA GreatestOK ==
  ASSUME NEW T, IsFiniteSet(T), T \subseteq Nat, T # {}
  PROVE  Max(T) \in T /\ Max(T) \in Nat /\ \A x \in T : x <= Max(T)
<1>1. T \subseteq Int
  OBVIOUS
<1>2. Max(T) \in T /\ \A x \in T : x <= Max(T)
  BY <1>1, FiniteMaxOK
<1>. QED
  BY <1>2

LEMMA PlacesFinite == ASSUME NEW n \in Nat, NEW T, T \subseteq 1 .. n PROVE IsFiniteSet(T)
<1>1. IsFiniteSet(1 .. n) /\ T \in SUBSET (1 .. n)
  BY FS_Interval
<1>. QED
  BY <1>1, FS_Subset

LEMMA ReportKept ==
  ASSUME StraysInv, RowsInv
  PROVE  /\ DOMAIN report = 1 .. Len(report) /\ Len(report) \in Nat /\ Len(plan) \in Nat
         /\ \A i \in 1 .. Len(report) :
              /\ i \in 1 .. Len(plan) /\ plan[i] \in Cells
              /\ IsSeq(report[i].trials) /\ Kept(i) \in Nat /\ DOMAIN report[i].trials = 1 .. Kept(i)
              /\ Kept(i) <= plan[i].trials /\ (report[i].trials = <<>> <=> Kept(i) = 0)
<1>1. DOMAIN report = 1 .. Len(report) /\ Len(report) \in Nat /\ Len(plan) \in Nat
      /\ \A i \in 1 .. Len(plan) : plan[i] \in Cells
  BY PlanOK, IsSeqProperties DEF StraysInv, BenchTyped, ReportOK
<1>. SUFFICES ASSUME NEW i \in 1 .. Len(report)
              PROVE  /\ i \in 1 .. Len(plan)
                     /\ IsSeq(report[i].trials) /\ Kept(i) \in Nat /\ DOMAIN report[i].trials = 1 .. Kept(i)
                     /\ Kept(i) <= plan[i].trials /\ (report[i].trials = <<>> <=> Kept(i) = 0)
  BY <1>1
<1>2. i \in 1 .. Len(plan)
  BY <1>1 DEF StraysInv, BenchTyped, ReportOK
<1>3. IsSeq(report[i].trials) /\ Kept(i) \in Nat /\ DOMAIN report[i].trials = 1 .. Kept(i)
  BY IsSeqProperties DEF StraysInv, BenchTyped, ReportOK, Kept
<1>4. Kept(i) <= plan[i].trials
  <2>1. plan[i].trials \in Nat
    BY <1>1, <1>2 DEF Cells
  <2>2. CASE i = at.cell
    <3>1. Entered /\ at.trial <= Cell.trials /\ at.trial \in Nat
      BY <1>1, <2>2 DEF StraysInv, BenchTyped, ReportOK
    <3>. QED
      BY <1>3, <2>1, <2>2, <3>1 DEF StraysInv, BenchTyped, ReportOK, Kept, Cell
  <2>3. CASE i # at.cell
    BY <2>3 DEF StraysInv, BenchTyped, ReportOK, Kept
  <2>. QED
    BY <2>2, <2>3
<1>5. report[i].trials = <<>> <=> Kept(i) = 0
  BY <1>3, EmptySeq DEF IsSeq, Kept
<1>. QED
  BY <1>2, <1>3, <1>4, <1>5

LEMMA RunTrials ==
  ASSUME StraysInv, RowsInv, NEW i \in Runs
  PROVE  /\ i \in 1 .. Len(report) /\ i \in 1 .. Len(plan) /\ plan[i] \in Cells
         /\ DOMAIN report[i].trials = 1 .. Kept(i) /\ Kept(i) \in Nat \ {0} /\ Kept(i) <= plan[i].trials
         /\ \A k \in 1 .. Kept(i) : TrialOK(report[i].trials[k], i)
         /\ TrialsOf({i}) = {report[i].trials[k] : k \in 1 .. Kept(i)}
<1>1. /\ i \in 1 .. Len(report) /\ i \in 1 .. Len(plan) /\ plan[i] \in Cells
      /\ DOMAIN report[i].trials = 1 .. Kept(i) /\ Kept(i) \in Nat \ {0} /\ Kept(i) <= plan[i].trials
  BY ReportKept DEF Runs
<1>2. TrialsOf({i}) = ToSet(report[i].trials)
  BY DEF TrialsOf
<1>3. ToSet(report[i].trials) = {report[i].trials[k] : k \in 1 .. Kept(i)}
  BY <1>1, ToSetFinite
<1>. QED
  BY <1>1, <1>2, <1>3 DEF RowsInv

LEMMA FirstRunOK ==
  ASSUME StraysInv, RowsInv, NEW s, NEW i \in FirstRunOf(s)
  PROVE  i \in MemMuxRuns /\ plan[i].scenario = s
<1>. DEFINE S == {j \in MemMuxRuns : plan[j].scenario = s}
<1>1. S # {} /\ i = Min(S)
  BY DEF FirstRunOf, Least
<1>2. S \subseteq Nat
  BY ReportKept DEF MemMuxRuns, Runs
<1>3. Min(S) \in S
  BY <1>1, <1>2, MinOK
<1>. QED
  BY <1>1, <1>3

LEMMA RowFields ==
  ASSUME NEW i
  PROVE  /\ RunSummary(i).trials = Len(report[i].trials)
         /\ RunSummary(i).growth = Growth(SeriesOf(i))
         /\ RunSummary(i).peakTotal =
              [k \in DOMAIN report[i].trials |-> Peak(Totals(report[i].trials[k].records))]
         /\ RunSummary(i).steadyTotal =
              [k \in DOMAIN report[i].trials |-> Steady(Totals(report[i].trials[k].records))]
         /\ RunSummary(i).peakManager =
              [k \in DOMAIN report[i].trials |-> Peak(Managers(report[i].trials[k].records))]
         /\ RunSummary(i).cpu = CpuOf(i) /\ RunSummary(i).cleanup = CleanupSummary(i)
         /\ RunSummary(i).escape = EscapeSummary(i) /\ RunSummary(i).h4 = H4Summary(i)
         /\ RunSummary(i).budget = IF plan[i].scenario = "overcommit" THEN AgentBudget ELSE {}
BY DEF RunSummary

LEMMA GateFields ==
  /\ Gates.BoundedMemory = Gate(SoakGrowth, {growth \in SoakGrowth : growth <= GrowthLimit})
  /\ Gates.SamplingOverhead = Gate(Overhead, {share \in Overhead : share <= 200})
  /\ Gates.Cleanup = Gate(Cleanups, {c \in Cleanups : 1000 * (c.owned - c.leaked) >= 995 * c.owned})
  /\ Gates.NoLostWork = Gate(Victimised, {h \in Victimised : h.captured >= h.victims})
  /\ Gates.PressureAvoidance =
       Gate(SteadyUsage, {steady \in SteadyUsage : \A budget \in AgentBudget : 10 * steady <= 11 * budget})
BY DEF Gates

LEMMA GateOK ==
  ASSUME NEW inputs, NEW passing, passing \subseteq inputs
  PROVE  /\ Gate(inputs, passing) = "Pass" <=> inputs # {} /\ inputs = passing
         /\ Gate(inputs, passing) = "Fail" <=> inputs # passing
BY DEF Gate

LEMMA ProductOK == ASSUME NEW a \in Nat, NEW b \in Nat PROVE a * b \in Nat
OBVIOUS

LEMMA MonotonicProduct == ASSUME NEW a \in Nat, NEW b \in Nat, NEW c \in Nat, a <= b PROVE a * c <= b * c
OBVIOUS

LEMMA CancelProduct == ASSUME NEW a \in Nat, NEW b \in Nat, NEW c \in Nat \ {0}, a * c <= b * c PROVE a <= b
OBVIOUS

LEMMA SwapProduct == ASSUME NEW a \in Nat, NEW b \in Nat, NEW c \in Nat PROVE (a * b) * c = (a * c) * b
OBVIOUS

(* The growth of the first soak run is what its gate looks at.             *)
LEMMA SoakAgrees ==
  ASSUME NEW i, {i} = FirstRunOf("soak")
  PROVE  Gates.BoundedMemory = "Pass" <=> RunSummary(i).growth <= GrowthLimit
<1>1. SoakGrowth = {Growth(SeriesOf(i))}
  BY DEF SoakGrowth
<1>2. Gates.BoundedMemory = "Pass" <=> SoakGrowth = {growth \in SoakGrowth : growth <= GrowthLimit}
  BY <1>1, GateFields, GateOK
<1>3. RunSummary(i).growth = Growth(SeriesOf(i))
  BY RowFields, Zenon
<1>. DEFINE g == Growth(SeriesOf(i))
<1>. HIDE DEF g
<1>4. SoakGrowth = {growth \in SoakGrowth : growth <= GrowthLimit} <=> g <= GrowthLimit
  BY <1>1 DEF g
<1>. QED
  BY <1>2, <1>3, <1>4 DEF g

(* A trial with lost work is what the worst of them shows.                 *)
LEMMA NoWorseThan ==
  ASSUME NEW a \in Nat, NEW b \in Nat \ {0}, NEW c \in Nat, NEW d \in Nat \ {0}, NEW e \in Nat, NEW f \in Nat \ {0},
         a * d <= c * b, c * f <= e * d
  PROVE  a * f <= e * b
<1>1. (a * d) * f <= (c * b) * f /\ (c * f) * b <= (e * d) * b
  BY MonotonicProduct, ProductOK
<1>2. (a * d) * f = (a * f) * d /\ (c * b) * f = (c * f) * b /\ (e * d) * b = (e * b) * d
  BY SwapProduct
<1>3. (a * f) * d <= (e * b) * d
  <2>1. a * f \in Nat /\ c * f \in Nat /\ e * b \in Nat
    BY ProductOK
  <2>2. (a * f) * d \in Nat /\ (c * f) * b \in Nat /\ (e * b) * d \in Nat
    BY <2>1, ProductOK
  <2>. QED
    BY <1>1, <1>2, <2>2
<1>. QED
  BY <1>3, ProductOK, CancelProduct

LEMMA WorstOf ==
  ASSUME NEW present, IsFiniteSet(present), present # {}, present \subseteq Nat, NEW F,
         \A k \in present : F[k].victims \in Nat /\ F[k].captured \in Nat
  PROVE  LET lowest == {k \in present : \A j \in present : AsBad(F[k], F[j])}
         IN  /\ Min(lowest) \in present
             /\ F[Min(lowest)].captured < F[Min(lowest)].victims
                  <=> \E k \in present : F[k].captured < F[k].victims
<1>. DEFINE lowest == {k \in present : \A j \in present : AsBad(F[k], F[j])}
            R == {p \in present \X present : AsBad(F[p[1]], F[p[2]])}
<1>1. \A x, y \in present : <<x, y>> \in R <=> AsBad(F[x], F[y])
  OBVIOUS
<1>. HIDE DEF R
<1>2. \A x \in present : Preserved(F[x]).kept \in Nat /\ Preserved(F[x]).of \in Nat \ {0}
  BY DEF Preserved
<1>3. \A x, y \in present : AsBad(F[x], F[y]) \/ AsBad(F[y], F[x])
  <2>. TAKE x, y \in present
  <2>1. /\ Preserved(F[x]).kept * Preserved(F[y]).of \in Nat
        /\ Preserved(F[y]).kept * Preserved(F[x]).of \in Nat
    BY <1>2, ProductOK
  <2>. QED
    BY <2>1 DEF AsBad
<1>4. \A x, y, z \in present : AsBad(F[x], F[y]) /\ AsBad(F[y], F[z]) => AsBad(F[x], F[z])
  <2>. SUFFICES ASSUME NEW x \in present, NEW y \in present, NEW z \in present,
                       AsBad(F[x], F[y]), AsBad(F[y], F[z])
                PROVE  AsBad(F[x], F[z])
    OBVIOUS
  <2>. DEFINE a == Preserved(F[x]).kept
              b == Preserved(F[x]).of
              c == Preserved(F[y]).kept
              d == Preserved(F[y]).of
              e == Preserved(F[z]).kept
              f == Preserved(F[z]).of
  <2>1. a \in Nat /\ b \in Nat \ {0} /\ c \in Nat /\ d \in Nat \ {0} /\ e \in Nat /\ f \in Nat \ {0}
    BY <1>2
  <2>2. a * d <= c * b /\ c * f <= e * d
    BY DEF AsBad
  <2>. HIDE DEF a, b, c, d, e, f
  <2>3. a * f <= e * b
    BY <2>1, <2>2, NoWorseThan
  <2>. QED
    BY <2>3 DEF AsBad, a, b, e, f
<1>5. lowest # {}
  <2>1. \E x \in present : \A y \in present : <<x, y>> \in R
    BY <1>1, <1>3, <1>4, FirstOfAll
  <2>. QED
    BY <1>1, <2>1
<1>6. Min(lowest) \in lowest
  BY <1>5, MinOK
<1>. DEFINE w == Min(lowest)
<1>7. w \in present /\ \A j \in present : AsBad(F[w], F[j])
  BY <1>6
<1>. HIDE DEF w
<1>8. ASSUME NEW k \in present, F[k].captured < F[k].victims PROVE F[w].captured < F[w].victims
  <2>. DEFINE a == Preserved(F[w]).kept
              b == Preserved(F[w]).of
              c == F[k].captured
              d == F[k].victims
  <2>1. a \in Nat /\ b \in Nat \ {0} /\ c \in Nat /\ d \in Nat \ {0} /\ c < d
    <3>1. a \in Nat /\ b \in Nat \ {0}
      BY <1>2, <1>7
    <3>2. c \in Nat /\ d \in Nat /\ c < d
      BY <1>8
    <3>. HIDE DEF a, b, c, d
    <3>. QED
      BY <3>1, <3>2
  <2>2. a * d <= c * b
    <3>1. Preserved(F[k]).kept = c /\ Preserved(F[k]).of = d
      BY <2>1 DEF Preserved
    <3>. QED
      BY <1>7, <3>1 DEF AsBad
  <2>3. a < b
    <3>. HIDE DEF a, b, c, d
    <3>. SUFFICES ASSUME b <= a PROVE FALSE
      BY <2>1
    <3>1. b * d <= a * d
      BY <2>1, MonotonicProduct
    <3>2. d * b <= c * b
      <4>1. b * d \in Nat /\ a * d \in Nat /\ c * b \in Nat /\ b * d = d * b
        BY <2>1, ProductOK
      <4>. QED
        BY <2>2, <3>1, <4>1
    <3>3. d <= c
      BY <2>1, <3>2, CancelProduct
    <3>. QED
      BY <2>1, <3>3
  <2>4. F[w].victims \in Nat /\ F[w].captured \in Nat
    BY <1>7
  <2>. QED
    BY <2>3, <2>4 DEF Preserved
<1>. QED
  BY <1>7, <1>8 DEF w

LEMMA LossAgrees ==
  ASSUME StraysInv, RowsInv, NEW i \in Runs, {i} = FirstRunOf("overcommit")
  PROVE  Gates.NoLostWork = "Fail" <=> \E h \in RunSummary(i).h4 : h.worst.captured < h.worst.victims
<1>. DEFINE trial(k) == report[i].trials[k]
            present == Measured(i, "h4")
            F == [k \in present |-> Figure(i, k, "h4")]
<1>1. /\ DOMAIN report[i].trials = 1 .. Kept(i) /\ Kept(i) \in Nat
      /\ \A k \in 1 .. Kept(i) : \A h \in trial(k).h4 : h.victims \in Nat /\ h.captured \in Nat /\ trial(k).h4 = {h}
      /\ TrialsOf({i}) = {trial(k) : k \in 1 .. Kept(i)}
  BY RunTrials DEF TrialOK
<1>2. present = {k \in 1 .. Kept(i) : trial(k).h4 # {}}
  BY <1>1 DEF Measured
<1>3. \A k \in present : trial(k).h4 = {F[k]} /\ F[k].victims \in Nat /\ F[k].captured \in Nat
  BY <1>1, <1>2 DEF Figure
<1>0. \A h : h \in Victimised <=> h.victims > 0 /\ \E k \in 1 .. Kept(i) : h \in trial(k).h4
  <2>1. Victimised = {h \in UNION {t.h4 : t \in TrialsOf({i})} : h.victims > 0}
    BY DEF Victimised
  <2>2. \A h : h \in UNION {t.h4 : t \in TrialsOf({i})} <=> \E k \in 1 .. Kept(i) : h \in trial(k).h4
    <3>1. \A t : t \in TrialsOf({i}) <=> \E k \in 1 .. Kept(i) : t = trial(k)
      BY <1>1
    <3>2. \A h : h \in UNION {t.h4 : t \in TrialsOf({i})} <=> \E t \in TrialsOf({i}) : h \in t.h4
      OBVIOUS
    <3>. QED
      BY <3>1, <3>2
  <2>. QED
    BY <2>1, <2>2
<1>4. Gates.NoLostWork = "Fail" <=> \E h \in Victimised : h.captured < h.victims
  <2>1. \A h \in Victimised : h.captured \in Nat /\ h.victims \in Nat
    BY <1>0, <1>1
  <2>. DEFINE spared == {h \in Victimised : h.captured >= h.victims}
  <2>2. spared \subseteq Victimised /\ Gates.NoLostWork = Gate(Victimised, spared)
    BY GateFields
  <2>3. Gates.NoLostWork = "Fail" <=> Victimised # spared
    <3>. HIDE DEF spared
    <3>. QED
      BY <2>2, GateOK
  <2>. QED
    BY <2>1, <2>3
<1>5. (\E h \in Victimised : h.captured < h.victims) <=> \E k \in present : F[k].captured < F[k].victims
  <2>2. \A h : (\E k \in 1 .. Kept(i) : h \in trial(k).h4) <=> \E k \in present : h = F[k]
    BY <1>2, <1>3
  <2>3. \A k \in present : F[k].captured < F[k].victims => F[k].victims > 0
    BY <1>3
  <2>. HIDE DEF F, present
  <2>. QED
    BY <1>0, <2>2, <2>3
<1>6. CASE present = {}
  BY <1>4, <1>5, <1>6, RowFields DEF H4Summary
<1>7. CASE present # {}
  <2>. DEFINE lowest == {k \in present : \A j \in present : AsBad(F[k], F[j])}
  <2>1. /\ Min(lowest) \in present
        /\ F[Min(lowest)].captured < F[Min(lowest)].victims <=> \E k \in present : F[k].captured < F[k].victims
    <3>1. IsFiniteSet(present) /\ present \subseteq Nat
      <4>. HIDE DEF present
      <4>1. present \subseteq 1 .. Kept(i)
        BY <1>2
      <4>2. present \subseteq Nat
        BY <4>1
      <4>. QED
        BY <1>1, <4>1, <4>2, PlacesFinite
    <3>. HIDE DEF F, present
    <3>. QED
      BY <1>3, <1>7, <3>1, WorstOf
  <2>2. lowest = {k \in present : \A j \in present : AsBad(Figure(i, k, "h4"), Figure(i, j, "h4"))}
    OBVIOUS
  <2>3. \E d, r : RunSummary(i).h4 = {[deferrals |-> d, reclamations |-> r, worst |-> Figure(i, Min(lowest), "h4")]}
    <3>1. RunSummary(i).h4 = H4Summary(i)
      BY RowFields, Zenon
    <3>. HIDE DEF lowest, F
    <3>. QED
      BY <1>7, <2>2, <3>1 DEF H4Summary
  <2>4. Figure(i, Min(lowest), "h4") = F[Min(lowest)]
    BY <2>1
  <2>. HIDE DEF F, present, lowest
  <2>. QED
    BY <1>4, <1>5, <2>1, <2>3, <2>4
<1>. QED
  BY <1>6, <1>7

(* The gate looks at the highest last sample.                              *)
LEMMA FiguresOK ==
  ASSUME NEW ts, CountsOK(ts)
  PROVE  /\ Steady(Totals(ts)) \in Nat /\ Peak(Totals(ts)) \in Nat
         /\ Steady(Totals(ts)) <= Peak(Totals(ts)) /\ Peak(Managers(ts)) <= Peak(Totals(ts))
<1>. DEFINE n == Len(ts)
            totals == Totals(ts)
            managers == Managers(ts)
<1>1. /\ n \in Nat /\ DOMAIN ts = 1 .. n
      /\ \A k \in 1 .. n : ts[k].provider \in Nat /\ ts[k].manager \in Nat
  BY IsSeqProperties DEF CountsOK
<1>2. /\ DOMAIN totals = 1 .. n /\ DOMAIN managers = 1 .. n
      /\ \A k \in 1 .. n : totals[k] \in Nat /\ managers[k] \in Nat /\ managers[k] <= totals[k]
  BY <1>1 DEF Totals, Managers
<1>3. totals \in Seq(Nat) /\ Len(totals) = n /\ (totals = <<>> <=> n = 0)
  <2>1. totals \in [1 .. n -> Nat]
    BY <1>1 DEF Totals
  <2>. HIDE DEF totals, n
  <2>2. totals \in Seq(Nat) /\ Len(totals) = n
    BY <1>1, <2>1
  <2>. QED
    BY <2>2, EmptySeq
<1>. HIDE DEF totals, managers, n
<1>4. ASSUME NEW s, DOMAIN s = 1 .. n, \A k \in 1 .. n : s[k] \in Nat
      PROVE  Peak(s) \in {0} \cup {s[k] : k \in 1 .. n} /\ \A k \in 1 .. n : s[k] <= Peak(s)
  <2>1. IsFiniteSet(ToSet(s)) /\ ToSet(s) = {s[k] : k \in 1 .. n}
    BY <1>1, <1>4, ToSetFinite
  <2>. DEFINE T == {0} \cup ToSet(s)
  <2>2. IsFiniteSet(T)
    BY <2>1, FS_Singleton, FS_Union
  <2>3. T \subseteq Nat /\ T # {}
    BY <1>4, <2>1
  <2>. HIDE DEF T
  <2>4. Max(T) \in T /\ \A x \in T : x <= Max(T)
    BY <2>2, <2>3, GreatestOK
  <2>. QED
    BY <2>1, <2>4 DEF T, Peak
<1>5. Peak(totals) \in {0} \cup {totals[k] : k \in 1 .. n} /\ \A k \in 1 .. n : totals[k] <= Peak(totals)
  BY <1>2, <1>4
<1>6. Peak(managers) \in {0} \cup {managers[k] : k \in 1 .. n}
  BY <1>2, <1>4
<1>7. Peak(totals) \in Nat
  BY <1>2, <1>5
<1>8. Steady(totals) \in Nat /\ Steady(totals) <= Peak(totals)
  <2>1. CASE n = 0
    BY <1>3, <1>7, <2>1 DEF Steady
  <2>2. CASE n # 0
    <3>1. Steady(totals) = totals[n] /\ n \in 1 .. n
      BY <1>1, <1>3, <2>2 DEF Steady, Last
    <3>. QED
      BY <1>2, <1>5, <3>1
  <2>. QED
    BY <2>1, <2>2
<1>9. Peak(managers) <= Peak(totals)
  <2>1. CASE Peak(managers) = 0
    BY <1>7, <2>1
  <2>2. ASSUME NEW k \in 1 .. n, Peak(managers) = managers[k] PROVE Peak(managers) <= Peak(totals)
    BY <1>2, <1>5, <1>7, <2>2
  <2>. QED
    BY <1>6, <2>1, <2>2
<1>. QED
  BY <1>7, <1>8, <1>9 DEF totals, managers

LEMMA PressureAgrees ==
  ASSUME StraysInv, RowsInv, NEW i \in Runs, {i} = FirstRunOf("overcommit"), Gates.PressureAvoidance = "Pass",
         NEW budget \in RunSummary(i).budget, NEW k \in DOMAIN RunSummary(i).steadyTotal
  PROVE  10 * RunSummary(i).steadyTotal[k] <= 11 * budget
<1>. DEFINE trial(j) == report[i].trials[j]
            last(j)  == Steady(Totals(trial(j).records))
            lasts    == {last(j) : j \in 1 .. Kept(i)}
<1>1. /\ DOMAIN report[i].trials = 1 .. Kept(i) /\ Kept(i) \in Nat \ {0}
      /\ TrialsOf({i}) = {trial(j) : j \in 1 .. Kept(i)}
      /\ \A j \in 1 .. Kept(i) : CountsOK(trial(j).records)
  BY RunTrials DEF TrialOK
<1>2. k \in 1 .. Kept(i) /\ RunSummary(i).steadyTotal[k] = last(k)
  <2>1. RunSummary(i).steadyTotal = [j \in DOMAIN report[i].trials |-> last(j)]
    BY RowFields, Zenon
  <2>. QED
    BY <1>1, <2>1
<1>3. budget \in AgentBudget /\ budget \in Nat
  BY RowFields, VerdictAssumption
<1>4. \A j \in 1 .. Kept(i) : last(j) \in Nat
  BY <1>1, FiguresOK
<1>5. SteadyUsage = {Max(lasts)}
  <2>1. SteadyUsage = Greatest({Steady(Totals(t.records)) : t \in TrialsOf({i})})
    BY <1>3 DEF SteadyUsage
  <2>2. {Steady(Totals(t.records)) : t \in TrialsOf({i})} = lasts
    BY <1>1
  <2>3. lasts # {}
    BY <1>1
  <2>. HIDE DEF lasts
  <2>. QED
    BY <2>1, <2>2, <2>3 DEF Greatest
<1>6. last(k) <= Max(lasts) /\ Max(lasts) \in Nat
  <2>. DEFINE f == [j \in 1 .. Kept(i) |-> last(j)]
  <2>1. f \in [1 .. Kept(i) -> Nat] /\ lasts = {f[j] : j \in 1 .. Kept(i)}
    BY <1>4
  <2>2. DOMAIN f = 1 .. Kept(i) /\ Kept(i) \in Nat
    BY <1>1
  <2>. HIDE DEF f
  <2>3. IsFiniteSet(ToSet(f)) /\ ToSet(f) = {f[j] : j \in 1 .. Kept(i)}
    BY <2>2, ToSetFinite
  <2>4. IsFiniteSet(lasts) /\ lasts \subseteq Nat /\ last(k) \in lasts
    BY <1>2, <1>4, <2>1, <2>3
  <2>5. lasts # {}
    BY <2>4
  <2>. HIDE DEF lasts, last
  <2>. QED
    BY <2>4, <2>5, GreatestOK
<1>7. 10 * Max(lasts) <= 11 * budget
  <2>. DEFINE spared == {steady \in SteadyUsage : \A b \in AgentBudget : 10 * steady <= 11 * b}
  <2>1. spared \subseteq SteadyUsage /\ Gates.PressureAvoidance = Gate(SteadyUsage, spared)
    BY GateFields
  <2>2. SteadyUsage = spared
    <3>. HIDE DEF spared
    <3>. QED
      BY <2>1, GateOK
  <2>. HIDE DEF lasts
  <2>. QED
    BY <1>3, <1>5, <2>2
<1>. HIDE DEF lasts, last
<1>. QED
  BY <1>2, <1>3, <1>4, <1>6, <1>7

(* Every cleanup of a run of memmux is one the gate looks at.              *)
LEMMA CleanupAgrees ==
  ASSUME StraysInv, RowsInv, NEW i \in MemMuxRuns, Gates.Cleanup = "Pass",
         NEW c \in RunSummary(i).cleanup, NEW k \in DOMAIN c.owned
  PROVE  200 * c.leaked[k] <= c.owned[k]
<1>. DEFINE trial(j) == report[i].trials[j]
            present  == Measured(i, "cleanup")
            d        == Figure(i, k, "cleanup")
<1>1. i \in Runs
  BY DEF MemMuxRuns
<1>2. /\ DOMAIN report[i].trials = 1 .. Kept(i)
      /\ \A j \in 1 .. Kept(i) : \A e \in trial(j).cleanup : e.owned \in Nat /\ e.leaked \in Nat
  BY <1>1, RunTrials DEF TrialOK
<1>3. c = [owned |-> [j \in present |-> Figure(i, j, "cleanup").owned],
           leaked |-> [j \in present |-> Figure(i, j, "cleanup").leaked]]
  <2>1. RunSummary(i).cleanup = CleanupSummary(i)
    BY RowFields, Zenon
  <2>. QED
    BY <2>1 DEF CleanupSummary
<1>4. k \in present /\ c.owned[k] = d.owned /\ c.leaked[k] = d.leaked
  <2>. HIDE DEF present
  <2>. QED
    BY <1>3
<1>5. k \in 1 .. Kept(i) /\ d \in trial(k).cleanup
  BY <1>2, <1>4 DEF Measured, Figure
<1>6. d \in Cleanups
  <2>1. trial(k) \in TrialsOf(MemMuxRuns)
    <3>1. trial(k) \in ToSet(report[i].trials)
      BY <1>2, <1>5 DEF ToSet
    <3>. QED
      BY <3>1 DEF TrialsOf
  <2>. HIDE DEF d
  <2>. QED
    BY <1>5, <2>1 DEF Cleanups
<1>7. 1000 * (d.owned - d.leaked) >= 995 * d.owned
  <2>. DEFINE spared == {e \in Cleanups : 1000 * (e.owned - e.leaked) >= 995 * e.owned}
  <2>1. spared \subseteq Cleanups /\ Gates.Cleanup = Gate(Cleanups, spared)
    BY GateFields
  <2>2. Cleanups = spared
    <3>. HIDE DEF spared
    <3>. QED
      BY <2>1, GateOK
  <2>. HIDE DEF d
  <2>. QED
    BY <1>6, <2>2
<1>8. d.owned \in Nat /\ d.leaked \in Nat
  BY <1>2, <1>5
<1>. HIDE DEF d
<1>. QED
  BY <1>4, <1>7, <1>8

(* The gate looks at the highest share.                                    *)
LEMMA CpuOK ==
  ASSUME StraysInv, RowsInv, NEW i \in Runs
  PROVE  CpuOf(i) \subseteq Nat /\ \A share \in CpuOf(i) : CpuOf(i) = {share}
<1>. DEFINE read == Measured(i, "cpu")
            f == [k \in read |-> 100 * Figure(i, k, "cpu")]
            share == SumFunctionOnSet(f, read) \div Cardinality(read)
<1>1. CASE read = {}
  BY <1>1 DEF CpuOf
<1>2. CASE read # {}
  <2>1. CpuOf(i) = {share}
    BY <1>2 DEF CpuOf
  <2>2. /\ DOMAIN report[i].trials = 1 .. Kept(i) /\ Kept(i) \in Nat
        /\ \A k \in 1 .. Kept(i) : report[i].trials[k].cpu \subseteq Nat
    BY RunTrials DEF TrialOK
  <2>3. read \subseteq 1 .. Kept(i) /\ \A k \in read : Figure(i, k, "cpu") \in Nat
    BY <2>2 DEF Measured, Figure
  <2>. HIDE DEF read
  <2>4. IsFiniteSet(read)
    BY <2>2, <2>3, PlacesFinite
  <2>5. f \in [read -> Nat]
    BY <2>3
  <2>. HIDE DEF f
  <2>6. SumFunctionOnSet(f, read) \in Nat
    BY <2>4, <2>5, SumOK
  <2>7. Cardinality(read) \in Nat \ {0}
    BY <1>2, <2>4, FS_CardinalityType, FS_EmptySet
  <2>8. share \in Nat
    BY <2>6, <2>7
  <2>. HIDE DEF share
  <2>. QED
    BY <2>1, <2>8
<1>. QED
  BY <1>1, <1>2

LEMMA OverheadAgrees ==
  ASSUME StraysInv, RowsInv, NEW i \in MemMuxRuns, Gates.SamplingOverhead = "Pass",
         NEW share \in RunSummary(i).cpu
  PROVE  share <= 200
<1>. DEFINE read == UNION {CpuOf(j) : j \in MemMuxRuns}
<1>1. /\ MemMuxRuns \subseteq Runs /\ MemMuxRuns \subseteq 1 .. Len(report) /\ Len(report) \in Nat
      /\ DOMAIN plan = 1 .. Len(plan) /\ i \in 1 .. Len(plan)
  <2>1. plan \in Seq(Cells)
    BY BenchAssumption DEF StraysInv, BenchTyped
  <2>. QED
    BY <2>1, ReportKept, LenProperties DEF MemMuxRuns, Runs
<1>2. share \in CpuOf(i)
  BY RowFields, Zenon
<1>3. share \in read
  BY <1>2
<1>4. IsFiniteSet(read) /\ read \subseteq Nat
  <2>. DEFINE S == {j \in MemMuxRuns : CpuOf(j) # {}}
              the(j) == CHOOSE v \in CpuOf(j) : TRUE
              f == [j \in S |-> the(j)]
  <2>1. \A j \in S : CpuOf(j) = {the(j)} /\ the(j) \in Nat
    BY <1>1, CpuOK
  <2>. HIDE DEF the
  <2>2. read = {the(j) : j \in S}
    BY <2>1
  <2>3. IsFiniteSet(S)
    <3>1. S \subseteq 1 .. Len(report)
      BY <1>1
    <3>. HIDE DEF S
    <3>. QED
      BY <1>1, <3>1, PlacesFinite
  <2>. HIDE DEF S, read
  <2>4. f \in Surjection(S, read)
    BY <2>2 DEF Surjection
  <2>. HIDE DEF f
  <2>5. IsFiniteSet(read)
    BY <2>3, <2>4, FS_Surjection
  <2>. QED
    BY <2>1, <2>2, <2>5
<1>5. Overhead = {Max(read)}
  <2>1. ~\A j \in DOMAIN plan : plan[j].launcher # "memmux"
    BY <1>1 DEF MemMuxRuns
  <2>2. read # {}
    BY <1>3
  <2>. QED
    BY <2>1, <2>2 DEF Overhead, Greatest
<1>. HIDE DEF read
<1>6. share <= Max(read) /\ Max(read) \in Nat /\ share \in Nat
  <2>1. read # {}
    BY <1>3
  <2>. QED
    BY <1>3, <1>4, <2>1, GreatestOK
<1>7. Max(read) <= 200
  <2>. DEFINE spared == {s \in Overhead : s <= 200}
  <2>1. spared \subseteq Overhead /\ Gates.SamplingOverhead = Gate(Overhead, spared)
    BY GateFields
  <2>2. Overhead = spared
    <3>. HIDE DEF spared
    <3>. QED
      BY <2>1, GateOK
  <2>. QED
    BY <1>5, <2>2
<1>. QED
  BY <1>6, <1>7

(* The fewest confirmed are no more than were injected.                    *)
LEMMA EscapesAgree ==
  ASSUME StraysInv, RowsInv, NEW i \in Runs, NEW e \in RunSummary(i).escape, ~HadStrangers(i)
  PROVE  e.confirmed <= e.injected
<1>. DEFINE present   == UNION {t.escape : t \in TrialsOf({i})}
            injected  == {x.injected : x \in present}
            confirmed == {x.confirmed : x \in present}
<1>1. \A x \in present : x.injected = plan[i].agents /\ x.confirmed \in Nat /\ x.confirmed <= plan[i].agents
  <2>1. /\ TrialsOf({i}) = {report[i].trials[k] : k \in 1 .. Kept(i)}
        /\ \A k \in 1 .. Kept(i) : TrialOK(report[i].trials[k], i)
    BY RunTrials
  <2>2. \A t \in TrialsOf({i}) : TrialOK(t, i)
    BY <2>1
  <2>. QED
    BY <2>2 DEF TrialOK
<1>2. present # {} /\ \E d : e = [injected |-> Max(injected), confirmed |-> Min(confirmed), detected |-> d]
  <2>1. RunSummary(i).escape = EscapeSummary(i)
    BY RowFields, Zenon
  <2>. QED
    BY <2>1 DEF EscapeSummary
<1>. HIDE DEF present
<1>3. plan[i].agents \in Nat
  BY RunTrials DEF Cells
<1>4. injected = {plan[i].agents} /\ confirmed \subseteq Nat /\ confirmed # {}
      /\ \A n \in confirmed : n <= plan[i].agents
  BY <1>1, <1>2
<1>. HIDE DEF injected, confirmed
<1>5. Max(injected) = plan[i].agents
  <2>1. IsFiniteSet(injected) /\ injected \subseteq Nat /\ injected # {}
    BY <1>3, <1>4, FS_Singleton
  <2>. QED
    BY <1>4, <2>1, GreatestOK
<1>6. Min(confirmed) \in confirmed
  BY <1>4, MinOK
<1>7. e.injected = Max(injected) /\ e.confirmed = Min(confirmed)
  BY <1>2
<1>. QED
  BY <1>4, <1>5, <1>6, <1>7

(* What is left of a cell when the benchmark is over.                      *)
LEMMA CellsAreDone ==
  ASSUME StraysInv, RowsInv, bench = "finished"
  PROVE  /\ Len(report) = Len(plan)
         /\ \A i \in 1 .. Len(report) : Kept(i) = plan[i].trials \/ report[i].failed
<1>1. Len(report) = at.cell - 1 /\ at.cell = Len(plan) + 1 /\ at.cell \in Nat /\ Len(plan) \in Nat
  <2>1. at.cell > Len(plan) /\ at.cell <= Len(plan) + 1 /\ at.cell \in Nat /\ Len(plan) \in Nat
    BY ReportKept DEF RowsInv, StraysInv, BenchTyped
  <2>2. ~Entered
    BY <2>1 DEF StraysInv, BenchTyped, ReportOK
  <2>. QED
    BY <2>1, <2>2 DEF StraysInv, BenchTyped, ReportOK
<1>. QED
  BY <1>1 DEF RowsInv

LEMMA RowsAreRight == ASSUME StraysInv, RowsInv, bench = "finished" PROVE RowsAgree
<1>. SUFFICES ASSUME NEW i \in Runs
     PROVE
    LET row == RunSummary(i)
    IN  /\ {i} = FirstRunOf("soak") => (Gates.BoundedMemory = "Pass" <=> row.growth <= GrowthLimit)
        /\ {i} = FirstRunOf("overcommit") =>
             (Gates.NoLostWork = "Fail" <=> \E h \in row.h4 : h.worst.captured < h.worst.victims)
        /\ {i} = FirstRunOf("overcommit") /\ Gates.PressureAvoidance = "Pass" =>
             \A budget \in row.budget : \A k \in DOMAIN row.steadyTotal :
               10 * row.steadyTotal[k] <= 11 * budget
        /\ i \in MemMuxRuns /\ Gates.Cleanup = "Pass" =>
             \A c \in row.cleanup : \A k \in DOMAIN c.owned : 200 * c.leaked[k] <= c.owned[k]
        /\ i \in MemMuxRuns /\ Gates.SamplingOverhead = "Pass" => \A share \in row.cpu : share <= 200
        /\ \A e \in row.escape : e.confirmed <= e.injected \/ HadStrangers(i)
        /\ \A k \in DOMAIN row.peakTotal : row.steadyTotal[k] <= row.peakTotal[k]
                                           /\ row.peakManager[k] <= row.peakTotal[k]
        /\ row.trials <= plan[i].trials
        /\ (row.trials < plan[i].trials) => report[i].failed
  BY DEF RowsAgree
<1>1. /\ DOMAIN report[i].trials = 1 .. Kept(i) /\ Kept(i) <= plan[i].trials /\ Kept(i) \in Nat
      /\ plan[i].trials \in Nat /\ i \in 1 .. Len(report)
      /\ \A k \in 1 .. Kept(i) : CountsOK(report[i].trials[k].records)
  BY RunTrials DEF TrialOK, Cells
<1>2. \A k \in DOMAIN RunSummary(i).peakTotal :
         /\ RunSummary(i).steadyTotal[k] <= RunSummary(i).peakTotal[k]
         /\ RunSummary(i).peakManager[k] <= RunSummary(i).peakTotal[k]
  <2>1. /\ RunSummary(i).peakTotal = [k \in 1 .. Kept(i) |-> Peak(Totals(report[i].trials[k].records))]
        /\ RunSummary(i).steadyTotal = [k \in 1 .. Kept(i) |-> Steady(Totals(report[i].trials[k].records))]
        /\ RunSummary(i).peakManager = [k \in 1 .. Kept(i) |-> Peak(Managers(report[i].trials[k].records))]
    <3>1. DOMAIN report[i].trials = 1 .. Kept(i)
      BY <1>1
    <3>. QED
      BY <3>1, RowFields
  <2>. QED
    BY <1>1, <2>1, FiguresOK
<1>3. RunSummary(i).trials = Kept(i)
  BY RowFields, Zenon DEF Kept
<1>4. RunSummary(i).trials < plan[i].trials => report[i].failed
  BY <1>1, <1>3, CellsAreDone
<1>5. {i} = FirstRunOf("soak") => (Gates.BoundedMemory = "Pass" <=> RunSummary(i).growth <= GrowthLimit)
  BY SoakAgrees
<1>6. {i} = FirstRunOf("overcommit") =>
        (Gates.NoLostWork = "Fail" <=> \E h \in RunSummary(i).h4 : h.worst.captured < h.worst.victims)
  BY LossAgrees
<1>7. {i} = FirstRunOf("overcommit") /\ Gates.PressureAvoidance = "Pass" =>
        \A budget \in RunSummary(i).budget : \A k \in DOMAIN RunSummary(i).steadyTotal :
          10 * RunSummary(i).steadyTotal[k] <= 11 * budget
  BY PressureAgrees
<1>8. i \in MemMuxRuns /\ Gates.Cleanup = "Pass" =>
        \A c \in RunSummary(i).cleanup : \A k \in DOMAIN c.owned : 200 * c.leaked[k] <= c.owned[k]
  BY CleanupAgrees
<1>9. i \in MemMuxRuns /\ Gates.SamplingOverhead = "Pass" => \A share \in RunSummary(i).cpu : share <= 200
  BY OverheadAgrees
<1>10. \A e \in RunSummary(i).escape : e.confirmed <= e.injected \/ HadStrangers(i)
  BY EscapesAgree
<1>11. RunSummary(i).trials <= plan[i].trials
  BY <1>1, <1>3
<1>. QED
  BY <1>2, <1>4, <1>5, <1>6, <1>7, <1>8, <1>9, <1>10, <1>11

LEMMA CreditsGiven == ASSUME BenchInv, RowsInv PROVE CreditsAreDue
<1>1. MeasuresItsOwn
  BY DEF BenchInv, StraysInv, RootsOK
<1>2. ASSUME bench = "finished", NEW i \in DOMAIN plan PROVE report[i].trials # <<>> \/ report[i].failed
  <2>1. i \in 1 .. Len(plan)
    <3>1. plan \in Seq(Cells)
      BY BenchAssumption DEF BenchInv, StraysInv, BenchTyped
    <3>. QED
      BY <3>1, LenProperties
  <2>2. i \in 1 .. Len(report) /\ (Kept(i) = plan[i].trials \/ report[i].failed)
    BY <1>2, <2>1, CellsAreDone DEF BenchInv
  <2>3. plan[i].trials # 0 /\ (report[i].trials = <<>> <=> Kept(i) = 0)
    BY <2>2, ReportKept DEF BenchInv, Cells
  <2>. QED
    BY <2>2, <2>3
<1>3. bench = "finished" => RowsAgree
  BY RowsAreRight DEF BenchInv
<1>. QED
  BY <1>1, <1>2, <1>3 DEF CreditsAreDue

-----------------------------------------------------------------------------
LEMMA BenchInvImplies == BenchInv => BenchTypeOK /\ StraysAreExplained /\ MeasuresItsOwn
<1>. SUFFICES ASSUME BenchInv PROVE BenchTypeOK /\ StraysAreExplained /\ MeasuresItsOwn
  OBVIOUS
<1>. USE DEF BenchInv, StraysInv
<1>1. BenchTypeOK
  <2>1. \A i \in DOMAIN report : Len(report[i].trials) \in 0..plan[i].trials /\ report[i].failed \in BOOLEAN
    <3>1. DOMAIN report = 1 .. Len(report) /\ Len(report) \in Nat
      BY IsSeqProperties DEF BenchTyped, ReportOK
    <3>. SUFFICES ASSUME NEW i \in 1 .. Len(report)
                  PROVE  Len(report[i].trials) \in 0..plan[i].trials /\ report[i].failed \in BOOLEAN
      BY <3>1
    <3>2. Len(report[i].trials) \in Nat /\ report[i].failed \in BOOLEAN
      BY IsSeqProperties DEF BenchTyped, ReportOK
    <3>3. i \in 1 .. Len(plan) /\ plan[i].trials \in Nat
      BY <3>1, PlanOK DEF BenchTyped, ReportOK, Cells
    <3>4. CASE i = at.cell
      <4>1. Entered
        BY <3>1, <3>4 DEF BenchTyped, ReportOK
      <4>. QED
        BY <3>2, <3>3, <3>4, <4>1 DEF BenchTyped, ReportOK, Cell
    <3>5. CASE i # at.cell
      BY <3>2, <3>3, <3>5 DEF BenchTyped, ReportOK
    <3>. QED
      BY <3>4, <3>5
  <2>2. at.cell \in 1..Len(plan) + 1 /\ at.trial \in Nat \ {0} /\ Len(plan) \in Nat
    BY PlanOK DEF BenchTyped
  <2>3. \A p \in running \cup roots \cup everSeen \cup owned \cup caught \cup forked :
          p.part \in {"agent", "child", "escapee", "server"}
    BY DEF BenchTyped, Processes
  <2>4. unkilled \subseteq {x.process : x \in ownKills}
    BY DEF KillsInv, FiniteOK
  <2>5. \A trial \in unstopped \cup {x.by : x \in ownKills} : trial.cell \in 1..Len(plan) /\ trial.trial \in Nat \ {0}
    <3>1. ASSUME NEW x \in ownKills PROVE x.by.cell \in 1..Len(plan) /\ x.by.trial \in Nat \ {0}
      <4>1. x.by \in Trials
        BY DEF KillsInv, FiniteOK
      <4>2. /\ x.by.cell \in Nat \ {0} /\ x.by.trial \in Nat \ {0}
        BY <4>1 DEF Trials
      <4>3. CASE x.by.cell < at.cell
        BY <2>2, <4>2, <4>3
      <4>4. CASE ~(x.by.cell < at.cell)
        <5>1. x.by.cell = at.cell /\ Entered
          BY <4>2, <4>4 DEF KillsInv, KillsOK, Before, Entered, UnderWay, BenchTyped
        <5>. QED
          BY <4>2, <5>1 DEF BenchTyped, ReportOK
      <4>. QED
        BY <4>3, <4>4
    <3>. QED
      BY <3>1 DEF BenchTyped
  <2>. QED
    BY <2>1, <2>2, <2>3, <2>4, <2>5 DEF BenchTypeOK, BenchTyped
<1>2. StraysAreExplained
  <2>1. ASSUME Over, NEW p \in running PROVE (IsTop(p) => Explained(p)) /\ (p \in caught => p \in unkilled)
    <3>1. bench \in {"next", "writing", "finished", "aborted"}
      BY <2>1 DEF Over
    <3>2. p \in caught => p \in unkilled
      BY <3>1 DEF CaughtOK
    <3>3. IsTop(p) => ~Current(p) \/ LeftBehind(p)
      BY <3>1 DEF RunnersOK, UnderWay, Before, Current, BenchTyped, Processes
    <3>. QED
      BY <3>2, <3>3 DEF RunnersOK, Explained
  <2>2. ASSUME NEW i \in DOMAIN report, NEW k \in DOMAIN report[i].trials
        PROVE  OwnsUpTo(KilledBy([cell |-> i, trial |-> k]), report[i].trials[k])
    <3>1. i \in 1 .. Len(report) /\ k \in 1 .. Kept(i)
      BY IsSeqProperties DEF BenchTyped, ReportOK, Kept
    <3>. QED
      BY <3>1 DEF KillsInv, KillsOK, KillsReported
  <2>. QED
    BY <2>1, <2>2 DEF StraysAreExplained, IsTop, Explained
<1>. QED
  BY <1>1, <1>2 DEF RootsOK

(* A benchmark keeps its bookkeeping in shape, for any plans: no cell has  *)
(* more trials than planned, what init adopted still runs, survivors are   *)
(* of the owned set.                                                       *)
THEOREM BenchmarkTypeCorrect == BenchSpec => []BenchTypeOK
<1>. QED
  BY InitBench, BenchStep, BenchInvImplies, PTL DEF BenchSpec

(* The harness "never leaves strays behind", but for the commands whose    *)
(* failure it ignores: whatever its plan, its mishaps and its processes    *)
(* do, between trials what it captured runs only if its `kill -9` failed,  *)
(* a server or an agent only if raw or tmux failed half-way through        *)
(* starting or the trial's `tmux kill-server` failed; and of a trial that  *)
(* is kept it has itself sent no more kills than the trial's cleanup and   *)
(* escape results count.                                                   *)
THEOREM NoStrays == BenchSpec => []StraysAreExplained
<1>. QED
  BY InitBench, BenchStep, BenchInvImplies, PTL DEF BenchSpec

(* What a trial measures are its own agents, and all of them: strangers    *)
(* only in a tmux trial, from a tmux server that a failed start or a       *)
(* failed kill-server left; and agents are missing only from an            *)
(* overcommitted memmuxd, which admits late or could not be read.          *)
THEOREM MeasurementsAreOwn == BenchSpec => []MeasuresItsOwn
<1>. QED
  BY InitBench, BenchStep, BenchInvImplies, PTL DEF BenchSpec

(* The report gives credit where it is due: whatever the plan, the         *)
(* readings and the events, its rows bear its gates out, a cell short of   *)
(* trials says that it failed, and no row has more escapes than it         *)
(* injected, but for those of the strangers that a tmux server left by a   *)
(* failed start or a failed kill-server gave a tmux trial.                 *)
THEOREM CreditsAreGiven == BenchSpec => []CreditsAreDue
<1>1. BenchInit => BenchInv /\ RowsInv
  BY InitBench, InitRows
<1>2. BenchInv /\ RowsInv /\ [BenchNext]_benchVars => (BenchInv /\ RowsInv)'
  BY BenchStep, RowsStep
<1>3. BenchInv /\ RowsInv => CreditsAreDue
  BY CreditsGiven
<1>. QED
  BY <1>1, <1>2, <1>3, PTL DEF BenchSpec

-----------------------------------------------------------------------------
(* simulate, step by step.                                                 *)

Point == [resident : Nat, emitted : Nat]

(* What a step makes of the memory and of the output.                      *)
Residing(s, mib) ==
  CASE s.op = "Allocate" -> mib + s.mib
    [] s.op = "Free"     -> Less(mib, s.mib)
    [] s.op = "Leak"     -> mib + s.mib * s.times
    [] OTHER             -> mib
Emitting(s, bytes) == IF s.op = "Emit" THEN bytes + s.mib * s.times ELSE bytes
After(s, before) == [resident |-> Residing(s, before.resident), emitted |-> Emitting(s, before.emitted)]

LEMMA LessOK == ASSUME NEW a \in Nat, NEW b \in Nat PROVE Less(a, b) \in Nat /\ Less(a, b) <= a
BY DEF Less

LEMMA AfterOK ==
  ASSUME NEW s \in Step, NEW before \in Point
  PROVE  /\ After(s, before) \in Point
         /\ Residing(s, before.resident) \in Nat
         /\ (CASE s.op = "Allocate" -> [before EXCEPT !.resident = @ + s.mib]
               [] s.op = "Free"     -> [before EXCEPT !.resident = Less(@, s.mib)]
               [] s.op = "Leak"     -> [before EXCEPT !.resident = @ + s.mib * s.times]
               [] s.op = "Emit"     -> [before EXCEPT !.emitted = @ + s.mib * s.times]
               [] OTHER             -> before) = After(s, before)
<1>1. /\ s.mib \in Nat /\ s.times \in Nat
      /\ s.op \in {"Allocate", "Free", "Emit", "Leak", "Sleep", "SpawnChild", "Orphan"}
      /\ before.resident \in Nat /\ before.emitted \in Nat
      /\ before = [resident |-> before.resident, emitted |-> before.emitted]
  BY DEF Step, Point
<1>2. s.mib * s.times \in Nat /\ Less(before.resident, s.mib) \in Nat
  BY <1>1, LessOK, ProductOK
<1>. DEFINE much == s.mib * s.times
            less == Less(before.resident, s.mib)
<1>3. much \in Nat /\ less \in Nat
  BY <1>2
<1>. HIDE DEF much, less
<1>4. CASE s.op = "Allocate"
  BY <1>1, <1>4 DEF After, Residing, Emitting, Point
<1>5. CASE s.op = "Free"
  BY <1>1, <1>3, <1>5 DEF After, Residing, Emitting, Point, less
<1>6. CASE s.op = "Leak"
  BY <1>1, <1>3, <1>6 DEF After, Residing, Emitting, Point, much
<1>7. CASE s.op = "Emit"
  BY <1>1, <1>3, <1>7 DEF After, Residing, Emitting, Point, much
<1>8. CASE s.op \in {"Sleep", "SpawnChild", "Orphan"}
  BY <1>1, <1>8 DEF After, Residing, Emitting, Point
<1>. QED
  BY <1>1, <1>4, <1>5, <1>6, <1>7, <1>8

LEMMA SimulatedOK ==
  ASSUME NEW s \in Scripts
  PROVE  LET n == Len(s.steps) IN
         /\ n \in Nat /\ DOMAIN s.steps = 1..n
         /\ Simulated(s) \in [0..n -> Point]
         /\ Simulated(s)[0] = [resident |-> s.base, emitted |-> 0]
         /\ \A i \in 1..n : /\ i - 1 \in 0..n /\ s.steps[i] \in Step
                            /\ Simulated(s)[i] = After(s.steps[i], Simulated(s)[i - 1])
<1>. DEFINE steps == s.steps
            n     == Len(steps)
            base  == [resident |-> s.base, emitted |-> 0]
            Next1(i, before) ==
                 CASE steps[i].op = "Allocate" -> [before EXCEPT !.resident = @ + steps[i].mib]
                   [] steps[i].op = "Free"     -> [before EXCEPT !.resident = Less(@, steps[i].mib)]
                   [] steps[i].op = "Leak"     -> [before EXCEPT !.resident = @ + steps[i].mib * steps[i].times]
                   [] steps[i].op = "Emit"     -> [before EXCEPT !.emitted = @ + steps[i].mib * steps[i].times]
                   [] OTHER                    -> before
            Body(h, i) == IF i = 0 THEN base ELSE Next1(i, h[i - 1])
            point[i \in 0..Len(steps)] ==
              IF i = 0 THEN [resident |-> s.base, emitted |-> 0]
              ELSE LET before == point[i - 1]
                       t == steps[i]
                   IN  CASE t.op = "Allocate" -> [before EXCEPT !.resident = @ + t.mib]
                         [] t.op = "Free"     -> [before EXCEPT !.resident = Less(@, t.mib)]
                         [] t.op = "Leak"     -> [before EXCEPT !.resident = @ + t.mib * t.times]
                         [] t.op = "Emit"     -> [before EXCEPT !.emitted = @ + t.mib * t.times]
                         [] OTHER             -> before
<1>0. s.base \in Nat /\ steps \in Seq(Step) /\ n \in Nat /\ DOMAIN steps = 1..n
      /\ \A i \in 1..n : steps[i] \in Step
  BY StubAssumption
<1>1. Simulated(s) = [i \in 0..n |-> point[i]]
  BY DEF Simulated
<1>. DEFINE step == [i \in 1..n |-> [before \in Point |-> After(steps[i], before)]]
<1>2. PICK g \in [0..n -> Point] : Iterates(g, n, base, step)
  <2>1. step \in [1..n -> [Point -> Point]]
    BY <1>0, AfterOK
  <2>2. base \in Point
    BY <1>0 DEF Point
  <2>. HIDE DEF base, step, n
  <2>. QED
    BY <1>0, <2>1, <2>2, IterExists
<1>3. \A i \in 1..n : i - 1 \in 0..n /\ g[i - 1] \in Point /\ g[i] = After(steps[i], g[i - 1])
  <2>. SUFFICES ASSUME NEW i \in 1..n
                PROVE  i - 1 \in 0..n /\ g[i - 1] \in Point /\ g[i] = After(steps[i], g[i - 1])
    OBVIOUS
  <2>1. i - 1 \in 0..n
    BY <1>0
  <2>2. g[i - 1] \in Point /\ g[i] = step[i][g[i - 1]]
    BY <1>2, <2>1 DEF Iterates
  <2>. QED
    BY <2>1, <2>2
<1>. HIDE DEF Next1
<1>4. \A i \in 0..n : g[i] = Body(g, i)
  <2>1. g[0] = Body(g, 0)
    BY <1>2 DEF Iterates
  <2>2. ASSUME NEW i \in 1..n PROVE g[i] = Body(g, i)
    <3>1. i # 0 /\ g[i - 1] \in Point /\ steps[i] \in Step
      BY <1>0, <1>3
    <3>2. Next1(i, g[i - 1]) = After(steps[i], g[i - 1])
      BY <3>1, AfterOK DEF Next1
    <3>. QED
      BY <1>3, <3>1, <3>2
  <2>. HIDE DEF Body
  <2>. QED
    BY <1>0, <2>1, <2>2
<1>5. g = [i \in 0..n |-> Body(g, i)]
  <2>. HIDE DEF Body, n
  <2>. QED
    BY <1>4
<1>6. point = [i \in 0..n |-> Body(point, i)]
  <2>. HIDE DEF Body
  <2>. QED
    BY <1>5, Zenon DEF Body, Next1
<1>. HIDE DEF point
<1>7. \A i \in 0..n : point[i] = Body(point, i)
  <2>. HIDE DEF Body
  <2>. QED
    BY <1>6, Zenon
<1>. DEFINE Same == {i \in 0..n : point[i] = g[i]}
<1>8. 0 \in Same
  <2>1. Body(g, 0) = Body(point, 0) /\ 0 \in 0..n
    BY <1>0
  <2>. HIDE DEF Body
  <2>. QED
    BY <1>4, <1>7, <2>1
<1>9. ASSUME NEW i \in 0..(n - 1), i \in Same PROVE i + 1 \in Same
  <2>1. i + 1 \in 0..n /\ i + 1 # 0 /\ (i + 1) - 1 = i
    BY <1>0
  <2>2. Body(g, i + 1) = Body(point, i + 1)
    BY <1>9, <2>1
  <2>. HIDE DEF Body
  <2>. QED
    BY <1>4, <1>7, <2>1, <2>2
<1>. HIDE DEF Same
<1>10. \A i \in 0..n : i \in Same
  <2>1. n \in Nat
    BY <1>0
  <2>. HIDE DEF n
  <2>. QED
    BY ONLY <2>1, <1>8, <1>9, UpTo
<1>11. Simulated(s) = g
  <2>1. \A i \in 0..n : point[i] = g[i]
    BY <1>10 DEF Same
  <2>. HIDE DEF n
  <2>. QED
    BY <1>1, <1>2, <2>1
<1>12. g[0] = base
  BY <1>2 DEF Iterates
<1>. QED
  BY <1>0, <1>2, <1>3, <1>11, <1>12

-----------------------------------------------------------------------------
(* The live run.                                                           *)

OrphanSteps == {i \in 1..Len(script.steps) : script.steps[i].op = "Orphan"}

(* How far it is with its script.                                          *)
RunOK ==
  /\ StubTypeOK /\ script \in Scripts /\ trajectory = Simulated(script)
  /\ workers \in [DOMAIN workers -> {"runs", "ended"}] /\ orphans \subseteq OrphanSteps
  /\ stubPhase = "settles" => ip < Len(script.steps) /\ script.steps[ip + 1].op = "Orphan"
  /\ stubPhase \in {"waits", "done"} => ip = Len(script.steps)
  /\ stubPhase = "done" => \A i \in DOMAIN workers : workers[i] = "ended"

(* It is where simulate is after as many steps.                            *)
FollowsOK ==
  /\ ballast = trajectory[ip].resident
  /\ \A i \in 0..ip : trajectory[i].resident <= peak
  /\ \E i \in 0..ip : trajectory[i].resident = peak
  /\ (\A i \in 1..ip : script.steps[i].op = "Emit" => script.steps[i].mib > 0) =>
       written = trajectory[ip].emitted

StubInv == RunOK /\ FollowsOK

LEMMA Here ==
  ASSUME RunOK
  PROVE  /\ Len(script.steps) \in Nat /\ ip \in 0..Len(script.steps)
         /\ trajectory \in [0..Len(script.steps) -> Point]
         /\ \A i \in 1..Len(script.steps) :
              /\ i - 1 \in 0..Len(script.steps) /\ script.steps[i] \in Step
              /\ trajectory[i] = After(script.steps[i], trajectory[i - 1])
         /\ trajectory[0].resident = script.base
         /\ ip < Len(script.steps) =>
              /\ ip + 1 \in 1..Len(script.steps) /\ Now \in Step
              /\ trajectory[ip + 1] = After(Now, trajectory[ip]) /\ trajectory[ip] \in Point
<1>1. script \in Scripts /\ trajectory = Simulated(script) /\ ip \in 0..Len(script.steps)
  BY DEF RunOK, StubTypeOK
<1>2. /\ Len(script.steps) \in Nat /\ DOMAIN script.steps = 1..Len(script.steps)
      /\ trajectory \in [0..Len(script.steps) -> Point]
      /\ trajectory[0] = [resident |-> script.base, emitted |-> 0]
      /\ \A i \in 1..Len(script.steps) :
           /\ i - 1 \in 0..Len(script.steps) /\ script.steps[i] \in Step
           /\ trajectory[i] = After(script.steps[i], trajectory[i - 1])
  BY <1>1, SimulatedOK
<1>3. ip < Len(script.steps) => ip + 1 \in 1..Len(script.steps) /\ (ip + 1) - 1 = ip
  BY <1>1, <1>2
<1>4. trajectory[ip] \in Point
  BY <1>1, <1>2
<1>. QED
  BY <1>1, <1>2, <1>3, <1>4 DEF Now

(* A step of the script, done: the model has done it, too.                 *)
LEMMA StepDone ==
  ASSUME StubInv, ip < Len(script.steps), StepEnds(Residing(Now, ballast)),
         written' = written + (IF Now.op = "Emit" THEN Now.times * LineBytes(Now.mib) ELSE 0)
  PROVE  /\ FollowsOK' /\ ip' \in 0..Len(script.steps) /\ ip' = ip + 1
         /\ {ballast', peak', written'} \subseteq Nat /\ Now \in Step
<1>. DEFINE n == Len(script.steps)
            s == script.steps[ip + 1]
            held == Residing(s, ballast)
<1>1. /\ n \in Nat /\ trajectory \in [0..n -> Point] /\ ip \in 0..n /\ ip + 1 \in 1..n /\ ip + 1 \in 0..n
      /\ s \in Step /\ trajectory[ip + 1] = After(s, trajectory[ip])
      /\ trajectory[ip] \in Point
      /\ ballast \in Nat /\ peak \in Nat /\ written \in Nat
  <2>1. ballast \in Nat /\ peak \in Nat /\ written \in Nat
    BY DEF StubInv, RunOK, StubTypeOK
  <2>2. n \in Nat /\ ip \in 0..n /\ ip < n /\ ip + 1 \in 1..n
    BY Here DEF StubInv
  <2>3. s \in Step /\ trajectory[ip + 1] = After(s, trajectory[ip]) /\ trajectory[ip] \in Point
    BY Here DEF StubInv, Now
  <2>4. trajectory \in [0..n -> Point]
    BY Here DEF StubInv
  <2>. QED
    BY <2>1, <2>2, <2>3, <2>4
<1>2. /\ ip' = ip + 1 /\ ballast' = held /\ UNCHANGED <<script, trajectory>>
      /\ peak' = IF held > peak THEN held ELSE peak
  BY DEF StepEnds, Now
<1>3. s.mib \in Nat /\ s.times \in Nat /\ Now = s
  BY <1>1 DEF Step, Now
<1>4. held \in Nat /\ held = trajectory[ip + 1].resident
  <2>1. ballast = trajectory[ip].resident
    BY DEF StubInv, FollowsOK
  <2>2. held \in Nat
    BY <1>1, <2>1, AfterOK
  <2>3. After(s, trajectory[ip]).resident = Residing(s, trajectory[ip].resident)
    BY DEF After
  <2>. QED
    BY <1>1, <2>1, <2>2, <2>3
<1>. HIDE DEF held, s
<1>5. ballast' = trajectory'[ip'].resident
  BY <1>2, <1>4
<1>6. \A i \in 0..(ip + 1) : i \in 0..ip \/ i = ip + 1
  BY <1>1
<1>7. 0..ip \subseteq 0..(ip + 1) /\ ip + 1 \in 0..(ip + 1) /\ \A i \in 0..ip : i \in 0..n
  BY <1>1
<1>8. \A i \in 0..n : trajectory[i].resident \in Nat
  BY <1>1 DEF Point
<1>9. \A i \in 0..ip : trajectory[i].resident <= peak
  BY DEF StubInv, FollowsOK
<1>10. (\A i \in 0..(ip + 1) : trajectory[i].resident <= peak') /\ peak' \in Nat
  BY <1>1, <1>2, <1>4, <1>6, <1>7, <1>8, <1>9
<1>11. \E i \in 0..(ip + 1) : trajectory[i].resident = peak'
  <2>1. CASE held > peak
    BY <1>2, <1>4, <1>7, <2>1
  <2>2. CASE ~(held > peak)
    BY <1>2, <1>7, <2>2 DEF StubInv, FollowsOK
  <2>. QED
    BY <2>1, <2>2
<1>12. written' \in Nat
  <2>1. LineBytes(s.mib) \in Nat
    BY <1>3 DEF LineBytes
  <2>2. s.times * LineBytes(s.mib) \in Nat
    BY <1>3, <2>1, ProductOK
  <2>. QED
    BY <1>1, <1>3, <2>2
<1>13. (\A i \in 1..(ip + 1) : script.steps[i].op = "Emit" => script.steps[i].mib > 0) =>
         written' = trajectory[ip + 1].emitted
  <2>. SUFFICES ASSUME \A i \in 1..(ip + 1) : script.steps[i].op = "Emit" => script.steps[i].mib > 0
                PROVE  written' = trajectory[ip + 1].emitted
    OBVIOUS
  <2>1. \A i \in 1..ip : i \in 1..(ip + 1)
    BY <1>1
  <2>2. written = trajectory[ip].emitted
    BY <2>1 DEF StubInv, FollowsOK
  <2>3. ip + 1 \in 1..(ip + 1)
    BY <1>1
  <2>4. s.op = "Emit" => s.mib > 0
    BY <2>3 DEF s
  <2>5. trajectory[ip + 1].emitted = IF s.op = "Emit" THEN written + s.mib * s.times ELSE written
    BY <1>1, <2>2 DEF After, Emitting
  <2>6. s.op = "Emit" => s.times * LineBytes(s.mib) = s.mib * s.times
    <3>1. s.op = "Emit" => LineBytes(s.mib) = s.mib
      BY <1>3, <2>4 DEF LineBytes
    <3>2. s.times * s.mib = s.mib * s.times
      BY <1>3
    <3>. QED
      BY <3>1, <3>2
  <2>. QED
    BY <1>1, <1>3, <2>5, <2>6
<1>14. FollowsOK'
  BY <1>2, <1>5, <1>10, <1>11, <1>13 DEF FollowsOK
<1>. QED
  BY <1>1, <1>2, <1>3, <1>4, <1>10, <1>12, <1>14

LEMMA StubInitOK == ASSUME StubInit PROVE StubInv
<1>1. /\ script \in Scripts /\ trajectory = Simulated(script) /\ ip = 0
      /\ ballast = script.base /\ peak = script.base /\ written = 0
      /\ workers = <<>> /\ orphans = {} /\ stubPhase = "runs" /\ stubFailures = 0
  BY DEF StubInit
<1>2. /\ Len(script.steps) \in Nat /\ script.base \in Nat
      /\ trajectory[0] = [resident |-> script.base, emitted |-> 0]
  BY <1>1, SimulatedOK, StubAssumption
<1>3. DOMAIN workers = {} /\ workers \in [DOMAIN workers -> {"runs", "ended"}]
  BY <1>1
<1>4. RunOK
  BY <1>1, <1>2, <1>3, StubAssumption DEF RunOK, StubTypeOK, OrphanSteps
<1>5. FollowsOK
  <2>1. 0..0 = {0}
    OBVIOUS
  <2>. QED
    BY <1>1, <1>2, <2>1 DEF FollowsOK
<1>. QED
  BY <1>4, <1>5 DEF StubInv

(* Steps of the script that change nothing but the memory.                 *)
LEMMA QuietStepOK ==
  ASSUME StubInv, Grow \/ Shrink \/ LeakTicks \/ Doze
  PROVE  StubInv'
<1>1. /\ UNCHANGED <<script, trajectory, written, workers, orphans, stubPhase, stubFailures>>
      /\ ip < Len(script.steps) /\ stubPhase = "runs"
      /\ Now.op \in {"Allocate", "Free", "Leak", "Sleep"}
  BY DEF Grow, Shrink, LeakTicks, Doze, Doing, MoreSteps, StepEnds, Now
<1>2. Now \in Step /\ ip \in Nat
  BY <1>1, Here DEF StubInv
<1>3. StepEnds(Residing(Now, ballast))
  <2>1. Now.times * Now.mib = Now.mib * Now.times
    BY <1>2 DEF Step
  <2>. QED
    BY <2>1 DEF Grow, Shrink, LeakTicks, Doze, Doing, Now, Residing
<1>4. written' = written + (IF Now.op = "Emit" THEN Now.times * LineBytes(Now.mib) ELSE 0)
  BY <1>1 DEF StubInv, RunOK, StubTypeOK
<1>5. FollowsOK' /\ ip' \in 0..Len(script.steps) /\ {ballast', peak', written'} \subseteq Nat
  BY <1>1, <1>3, <1>4, StepDone
<1>6. RunOK'
  BY <1>1, <1>5 DEF StubInv, RunOK, StubTypeOK, OrphanSteps
<1>. QED
  BY <1>5, <1>6 DEF StubInv

(* The other steps of the script: a write, a spawn, the end of an escape.  *)
LEMMA StepTaken ==
  ASSUME StubInv, ip < Len(script.steps), StepEnds(Residing(Now, ballast)),
         written' = written + (IF Now.op = "Emit" THEN Now.times * LineBytes(Now.mib) ELSE 0),
         stubPhase' = "runs", stubFailures' \in 0..MaxStubFailures, orphans' = orphans,
         DOMAIN workers' \subseteq 1..Len(script.steps),
         workers' \in [DOMAIN workers' -> {"runs", "ended"}]
  PROVE  StubInv'
<1>1. FollowsOK' /\ ip' \in 0..Len(script.steps) /\ {ballast', peak', written'} \subseteq Nat
  BY StepDone
<1>2. UNCHANGED <<script, trajectory>>
  BY DEF StepEnds
<1>3. RunOK'
  BY <1>1, <1>2 DEF StubInv, RunOK, StubTypeOK, OrphanSteps
<1>. QED
  BY <1>1, <1>3 DEF StubInv

LEMMA SpokenStepOK ==
  ASSUME StubInv, WriteLines \/ SpawnFails \/ SpawnWorker \/ IntermediateExits
  PROVE  StubInv'
<1>1. /\ ip < Len(script.steps) /\ stubPhase' = "runs" /\ orphans' = orphans
      /\ Now.op \in {"Emit", "SpawnChild", "Orphan"} /\ StepEnds(ballast)
  BY DEF WriteLines, SpawnFails, SpawnWorker, IntermediateExits, Doing, MoreSteps, Now,
         StubInv, RunOK
<1>2. StepEnds(Residing(Now, ballast))
  BY <1>1 DEF Residing
<1>3. written' = written + (IF Now.op = "Emit" THEN Now.times * LineBytes(Now.mib) ELSE 0)
  <2>1. written \in Nat
    BY DEF StubInv, RunOK, StubTypeOK
  <2>2. CASE WriteLines
    BY <2>2 DEF WriteLines, Doing, Now
  <2>3. CASE ~WriteLines
    <3>1. written' = written /\ Now.op \in {"SpawnChild", "Orphan"}
      BY <2>3 DEF SpawnFails, SpawnWorker, IntermediateExits, Doing, MoreSteps, Now, StubInv, RunOK
    <3>. QED
      BY <2>1, <3>1
  <2>. QED
    BY <2>2, <2>3
<1>4. stubFailures' \in 0..MaxStubFailures
  BY StubAssumption
  DEF WriteLines, SpawnFails, SpawnWorker, IntermediateExits, StubInv, RunOK, StubTypeOK
<1>5. /\ DOMAIN workers' \subseteq 1..Len(script.steps)
      /\ workers' \in [DOMAIN workers' -> {"runs", "ended"}]
  <2>1. DOMAIN workers \subseteq 1..Len(script.steps) /\ workers \in [DOMAIN workers -> {"runs", "ended"}]
    BY DEF StubInv, RunOK, StubTypeOK
  <2>2. CASE SpawnWorker
    <3>1. ip + 1 \in 1..Len(script.steps)
      BY <1>1, Here DEF StubInv
    <3>2. workers' = [i \in DOMAIN workers \cup {ip + 1} |-> IF i = ip + 1 THEN "runs" ELSE workers[i]]
      BY <2>2 DEF SpawnWorker
    <3>. QED
      BY <2>1, <3>1, <3>2
  <2>3. CASE ~SpawnWorker
    BY <2>1, <2>3 DEF WriteLines, SpawnFails, IntermediateExits
  <2>. QED
    BY <2>2, <2>3
<1>. QED
  BY <1>1, <1>2, <1>3, <1>4, <1>5, StepTaken

(* What happens around the script leaves it where it is.                   *)
LEMMA AroundOK ==
  ASSUME StubInv,
         \/ WriteBreaks \/ SpawnIntermediate \/ ScriptEnds \/ WaitForAll \/ UNCHANGED stubVars
         \/ \E i \in DOMAIN workers : WorkerEnds(i)
         \/ \E i \in orphans : OrphanEnds(i)
  PROVE  StubInv'
<1>1. UNCHANGED <<script, trajectory, ip, ballast, peak, written>>
  BY DEF WriteBreaks, SpawnIntermediate, ScriptEnds, WaitForAll, stubVars, WorkerEnds, OrphanEnds
<1>2. FollowsOK'
  BY <1>1 DEF StubInv, FollowsOK
<1>3. ip < Len(script.steps) => ip + 1 \in 1..Len(script.steps)
  BY Here DEF StubInv
<1>4. /\ ip \in 0..Len(script.steps) /\ {ballast, peak, written} \subseteq Nat
      /\ DOMAIN workers \subseteq 1..Len(script.steps) /\ orphans \subseteq OrphanSteps
      /\ workers \in [DOMAIN workers -> {"runs", "ended"}]
      /\ stubFailures \in 0..MaxStubFailures
  BY DEF StubInv, RunOK, StubTypeOK
<1>5. OrphanSteps' = OrphanSteps /\ OrphanSteps \subseteq 1..Len(script.steps)
  BY <1>1 DEF OrphanSteps
<1>6. stubFailures' \in 0..MaxStubFailures
  BY <1>4, StubAssumption
  DEF WriteBreaks, SpawnIntermediate, ScriptEnds, WaitForAll, stubVars, WorkerEnds, OrphanEnds
<1>7. orphans' \subseteq OrphanSteps
  <2>1. CASE SpawnIntermediate
    <3>1. ip + 1 \in OrphanSteps
      BY <1>3, <2>1 DEF SpawnIntermediate, Doing, MoreSteps, OrphanSteps
    <3>. QED
      BY <1>4, <2>1, <3>1 DEF SpawnIntermediate
  <2>2. CASE ~SpawnIntermediate
    BY <1>4, <2>2 DEF WriteBreaks, ScriptEnds, WaitForAll, stubVars, WorkerEnds, OrphanEnds
  <2>. QED
    BY <2>1, <2>2
<1>8. /\ DOMAIN workers' = DOMAIN workers /\ workers' \in [DOMAIN workers -> {"runs", "ended"}]
      /\ \A i \in DOMAIN workers : workers[i] = "ended" => workers'[i] = "ended"
  BY <1>4
  DEF WriteBreaks, SpawnIntermediate, ScriptEnds, WaitForAll, stubVars, WorkerEnds, OrphanEnds
<1>9. /\ stubPhase' \in {"runs", "settles", "waits", "done", "broken"}
      /\ stubPhase' = "settles" => ip < Len(script.steps) /\ script.steps[ip + 1].op = "Orphan"
      /\ stubPhase' \in {"waits", "done"} => ip = Len(script.steps)
      /\ stubPhase' = "done" => \A i \in DOMAIN workers : workers'[i] = "ended"
  <2>1. CASE WriteBreaks \/ SpawnIntermediate \/ ScriptEnds
    BY <2>1 DEF WriteBreaks, SpawnIntermediate, ScriptEnds, Doing, MoreSteps
  <2>2. CASE WaitForAll
    BY <1>8, <2>2 DEF WaitForAll, StubInv, RunOK
  <2>3. CASE stubPhase' = stubPhase
    BY <1>8, <2>3 DEF StubInv, RunOK, StubTypeOK
  <2>. QED
    BY <2>1, <2>2, <2>3 DEF stubVars, WorkerEnds, OrphanEnds
<1>10. RunOK'
  BY <1>1, <1>4, <1>5, <1>6, <1>7, <1>8, <1>9 DEF StubInv, RunOK, StubTypeOK
<1>. QED
  BY <1>2, <1>10 DEF StubInv

LEMMA StubInvariant == StubSpec => []StubInv
<1>1. StubInit => StubInv
  BY StubInitOK
<1>2. StubInv /\ [StubNext]_stubVars => StubInv'
  BY QuietStepOK, SpokenStepOK, AroundOK DEF StubNext
<1>. QED
  BY <1>1, <1>2, PTL DEF StubSpec

-----------------------------------------------------------------------------
(* What the run shows of its script.                                       *)

(* The largest of the trajectory's points so far is the one execute kept.  *)
LEMMA PeakKept == ASSUME StubInv PROVE peak = PeakUpTo(trajectory, ip)
<1>. DEFINE seen == {trajectory[i].resident : i \in 0..ip}
<1>1. ip \in Nat /\ \A i \in 0..ip : trajectory[i].resident \in Nat
  <2>1. trajectory \in [0..Len(script.steps) -> Point] /\ ip \in 0..Len(script.steps) /\ Len(script.steps) \in Nat
    BY Here DEF StubInv
  <2>. QED
    BY <2>1 DEF Point
<1>2. peak \in seen /\ \A i \in 0..ip : peak >= trajectory[i].resident
  BY <1>1 DEF StubInv, FollowsOK, RunOK, StubTypeOK
<1>3. ASSUME NEW n \in seen, \A i \in 0..ip : n >= trajectory[i].resident PROVE n = peak
  <2>1. PICK j \in 0..ip : trajectory[j].resident = peak
    BY DEF StubInv, FollowsOK
  <2>2. n >= peak /\ n \in Nat /\ peak \in Nat
    BY <1>1, <1>3, <2>1
  <2>3. peak >= n
    BY <1>2
  <2>. QED
    BY <2>2, <2>3
<1>4. PeakUpTo(trajectory, ip) = CHOOSE n \in seen : \A i \in 0..ip : n >= trajectory[i].resident
  BY DEF PeakUpTo
<1>. QED
  BY <1>2, <1>3, <1>4

(* A trajectory that grows ends at its peak, above its base.               *)
LEMMA GrowthKept ==
  ASSUME StubInv, ip = Len(script.steps), MonotonicGrowth(trajectory)
  PROVE  ballast = peak /\ peak > script.base
<1>. DEFINE n == Len(script.steps)
            At(i) == trajectory[i].resident
<1>1. /\ n \in Nat /\ ip \in 0..n /\ trajectory \in [0..n -> Point]
      /\ trajectory[0].resident = script.base
  BY Here DEF StubInv
<1>2. Cardinality(DOMAIN trajectory) - 1 = n
  BY <1>1, FS_Interval
<1>3. \A i \in 0..n : At(i) \in Nat
  BY <1>1 DEF Point
<1>4. (\A i \in 1..n : At(i) >= At(i - 1)) /\ At(n) > At(0)
  BY <1>2 DEF MonotonicGrowth
<1>. DEFINE Capped == {k \in 0..n : \A i \in 0..k : At(i) <= At(k)}
<1>5. 0 \in Capped
  <2>1. \A i \in 0..0 : i = 0
    OBVIOUS
  <2>. QED
    BY <1>1, <1>3, <2>1
<1>6. ASSUME NEW k \in 0..(n - 1), k \in Capped PROVE k + 1 \in Capped
  <2>1. k + 1 \in 1..n /\ k \in 0..n /\ k + 1 \in 0..n /\ (k + 1) - 1 = k
    BY <1>1
  <2>2. At(k + 1) >= At(k)
    BY <1>4, <2>1
  <2>3. ASSUME NEW i \in 0..(k + 1) PROVE At(i) <= At(k + 1)
    <3>1. CASE i = k + 1
      BY <1>3, <2>1, <3>1
    <3>2. CASE i # k + 1
      <4>1. i \in 0..k /\ i \in 0..n
        BY <2>1, <3>2
      <4>2. At(i) <= At(k)
        BY <1>6, <4>1
      <4>3. At(i) \in Nat /\ At(k) \in Nat /\ At(k + 1) \in Nat
        BY <1>3, <2>1, <4>1
      <4>. HIDE DEF At
      <4>. QED
        BY <2>2, <4>2, <4>3
    <3>. QED
      BY <3>1, <3>2
  <2>. QED
    BY <2>1, <2>3
<1>. HIDE DEF Capped
<1>7. \A k \in 0..n : k \in Capped
  <2>1. n \in Nat
    BY <1>1
  <2>. HIDE DEF n
  <2>. QED
    BY ONLY <2>1, <1>5, <1>6, UpTo
<1>8. \A i \in 0..n : At(i) <= At(n)
  BY <1>1, <1>7 DEF Capped
<1>9. PICK j \in 0..n : At(j) = peak
  BY DEF StubInv, FollowsOK
<1>10. ballast = At(n) /\ At(n) <= peak
  BY <1>1 DEF StubInv, FollowsOK
<1>11. At(j) <= At(n) /\ At(j) \in Nat /\ At(n) \in Nat /\ At(0) \in Nat
  BY <1>1, <1>3, <1>8
<1>. QED
  BY <1>1, <1>4, <1>9, <1>10, <1>11

LEMMA EscapesCounted == ASSUME StubInv PROVE Cardinality(orphans) <= EscapesPerAgent(script)
<1>1. script \in Scripts /\ orphans \subseteq OrphanSteps
  BY DEF StubInv, RunOK
<1>2. Len(script.steps) \in Nat /\ DOMAIN script.steps = 1..Len(script.steps)
  BY <1>1, SimulatedOK
<1>3. IsFiniteSet(1..Len(script.steps))
  BY <1>2, FS_Interval
<1>4. OrphanSteps \subseteq 1..Len(script.steps)
  BY DEF OrphanSteps
<1>5. IsFiniteSet(OrphanSteps)
  BY <1>3, <1>4, FS_Subset
<1>6. Cardinality(orphans) <= Cardinality(OrphanSteps)
  BY <1>1, <1>5, FS_Subset
<1>. QED
  BY <1>2, <1>6 DEF EscapesPerAgent, OrphanSteps

(* The stub's state stays within its types.                                *)
THEOREM StubTypeCorrect == StubSpec => []StubTypeOK
<1>1. StubInv => StubTypeOK
  BY DEF StubInv, RunOK
<1>. QED
  BY <1>1, StubInvariant, PTL

(* A live run is what simulate predicted, whatever its workers do: the     *)
(* same memory, output and peak after every step, growth exactly where the *)
(* script grows, no worker left behind, no more escapes than it scripts.   *)
THEOREM RunsMatchSimulation == StubSpec => []RunMatchesSimulation
<1>1. ASSUME StubInv PROVE RunMatchesSimulation
  <2>1. ballast = trajectory[ip].resident
    BY <1>1 DEF StubInv, FollowsOK
  <2>2. (\A i \in 1..ip : script.steps[i].op = "Emit" => script.steps[i].mib > 0) =>
          written = trajectory[ip].emitted
    BY <1>1 DEF StubInv, FollowsOK
  <2>3. stubPhase = "done" => ip = Len(script.steps) /\ \A i \in DOMAIN workers : workers[i] = "ended"
    BY <1>1 DEF StubInv, RunOK
  <2>4. MonotonicGrowth(trajectory) /\ stubPhase = "done" => ballast = peak /\ peak > script.base
    BY <1>1, <2>3, GrowthKept
  <2>. QED
    BY <1>1, <2>1, <2>2, <2>3, <2>4, PeakKept, EscapesCounted DEF RunMatchesSimulation
<1>2. StubInv => RunMatchesSimulation
  BY <1>1
<1>. QED
  BY <1>2, StubInvariant, PTL

=============================================================================
