----------------------------- MODULE Admission -----------------------------
(***************************************************************************)
(* The admission planner (memmux-sched): the peak a resource class         *)
(* reserves, the score of a queued task, and the greedy plan over a set of *)
(* candidates.  Memory is in MiB; every class prior is a whole number.     *)
(***************************************************************************)
EXTENDS Integers, FiniteSets, FiniteSetsExt, Functions, SequencesExt

Priorities == {"Low", "Normal", "High", "Urgent"}
Classes    == {"Small", "Standard", "BrowserHeavy", "BuildHeavy", "Custom"}

(* The order of the priorities.  3.0 * priority_weight(p) is this rank.    *)
PriorityRank ==
  [p \in Priorities |->
    CASE p = "Low" -> 0 [] p = "Normal" -> 1 [] p = "High" -> 2 [] p = "Urgent" -> 3]

(* Peak of a class prior: base + isolation + tools + overlay, plus burst.  *)
PeakOf ==
  [c \in Classes |->
    CASE c = "Small"        -> 250 + 60 + 40 + 30 + 200
      [] c = "Standard"     -> 400 + 90 + 250 + 80 + 500
      [] c = "BrowserHeavy" -> 450 + 100 + 1200 + 80 + 900
      [] c = "BuildHeavy"   -> 400 + 100 + 500 + 120 + 1500
      [] c = "Custom"       -> 400 + 90 + 250 + 80 + 500]

(* The score of a candidate under the default weights and the inputs the   *)
(* daemon gives (priority, age, peak; the rest are zero), multiplied by    *)
(* ageUnit * budget so that it is an integer: age is counted in ageUnit-ths *)
(* of the 30-minute normaliser and saturates there, the peak fraction      *)
(* saturates at 2 and is 1 for a zero budget.                              *)
Score(priority, age, peak, ageUnit, budget) ==
  LET reward  == PriorityRank[priority] * ageUnit + Min({age, ageUnit})
      penalty == IF budget = 0 THEN 2 * ageUnit
                 ELSE 2 * ageUnit * Min({peak, 2 * budget})
  IN  reward * (IF budget = 0 THEN 1 ELSE budget) - penalty

(* Breaks ties for the newest.                                             *)
PrecedesNewestFirst(c, d) ==
  \/ c.score > d.score
  \/ c.score = d.score /\ c.id > d.id

(* A candidate is [id, score, peak].  Higher score first, then smaller id. *)
Precedes(c, d) ==
  \/ c.score > d.score
  \/ c.score = d.score /\ c.id < d.id

(* Reads the whole budget instead of what earlier admissions left of it.   *)
TakeIgnoringEarlier(plan, c) ==
  IF c.peak <= plan.available
  THEN [plan EXCEPT !.remaining = @ - c.peak, !.admitted = @ \cup {c.id}]
  ELSE plan

(* One candidate of the planning loop: admitted when it fits what is left, *)
(* deferred otherwise; the ones behind it are still considered.            *)
Take(plan, c) ==
  IF c.peak <= plan.remaining
  THEN [plan EXCEPT !.remaining = @ - c.peak, !.admitted = @ \cup {c.id}]
  ELSE plan

(* The candidates in the order in which they are considered: in place k is *)
(* the one that k - 1 others precede.                                      *)
InOrder(candidates) ==
  [k \in 1..Cardinality(candidates) |->
     CHOOSE c \in candidates : Cardinality({d \in candidates : Precedes(d, c)}) = k - 1]

(* The tasks plan_admission admits out of the candidates.                  *)
PlanAdmission(candidates, available) ==
  FoldLeft(Take,
           [available |-> available, remaining |-> available, admitted |-> {}],
           InOrder(candidates)).admitted

(* reserved_bytes: the sum of the peaks of a set of reserved tasks.        *)
ReservedBytes(reserved, peak) == SumFunctionOnSet(peak, reserved)

(* headroom_bytes(..).max(0)                                               *)
Headroom(budget, reserved) == Max({budget - reserved, 0})

=============================================================================
