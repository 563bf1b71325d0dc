--------------------------- MODULE AdmissionQueue ---------------------------
(***************************************************************************)
(* The queue the admission planner works on: tasks arrive with every mix   *)
(* of priority and class, they age, the headroom changes, and the plan     *)
(* over the queue is compared with what an admission pass should achieve.  *)
(***************************************************************************)
EXTENDS Admission, Sequences

CONSTANTS
  MaxWaiting,    \* bound: how many tasks wait at most
  Budgets,       \* the headrooms an admission pass may find, in MiB
  AgeSteps,      \* bound: resolution of a task's age in the score
  Arrivals       \* the priorities and classes that arrive

ASSUME QueueAssumption ==
  /\ MaxWaiting \in Nat /\ AgeSteps \in Nat \ {0}
  /\ Budgets \subseteq Nat /\ \E b \in Budgets : \A c \in Budgets : c <= b
  /\ Arrivals \subseteq Priorities \X Classes

VARIABLES
  waiting,       \* the queued tasks: [priority, class, age], by arrival
  available      \* the headroom

queueVars == <<waiting, available>>

QueueInit == waiting = <<>> /\ available \in Budgets

Arrive ==
  /\ Len(waiting) < MaxWaiting
  /\ \E k \in Arrivals :
       waiting' = Append(waiting, [priority |-> k[1], class |-> k[2], age |-> 0])
  /\ UNCHANGED available

(* Time passes: everything in the queue grows older together.              *)
TimePasses ==
  /\ \E i \in DOMAIN waiting : waiting[i].age < AgeSteps
  /\ waiting' = [i \in DOMAIN waiting |->
                   [waiting[i] EXCEPT !.age = IF @ < AgeSteps THEN @ + 1 ELSE @]]
  /\ UNCHANGED available

HeadroomChanges == available' \in Budgets \ {available} /\ UNCHANGED waiting

QueueNext == Arrive \/ TimePasses \/ HeadroomChanges
QueueSpec == QueueInit /\ [][QueueNext]_queueVars

-----------------------------------------------------------------------------
Biggest == CHOOSE b \in Budgets : \A c \in Budgets : c <= b
PeakAt == [i \in DOMAIN waiting |-> PeakOf[waiting[i].class]]

Queue ==
  {[id |-> i, peak |-> PeakAt[i],
    score |-> Score(waiting[i].priority, waiting[i].age, PeakAt[i], AgeSteps, Biggest)] :
   i \in DOMAIN waiting}
Admitted == PlanAdmission(Queue, available)

(* Going down the queue in score order, plan_admission (score.rs:126)      *)
(* admits exactly those tasks that fit beside the admitted ones ahead of   *)
(* them: it never exceeds the headroom, and what it defers does not fit.   *)
(* And nothing overtakes its like: of two tasks of the same priority and   *)
(* class the one created first is never passed over for the other.         *)
PlanIsFair ==
  LET queue    == Queue
      admitted == Admitted
      Ahead(c) == {d.id : d \in {d \in queue : d.id \in admitted /\ d # c /\ Precedes(d, c)}}
  IN  /\ \A c \in queue :
           c.id \in admitted <=> c.peak + ReservedBytes(Ahead(c), PeakAt) <= available
      /\ \A i, j \in DOMAIN waiting :
           /\ i < j /\ j \in admitted
           /\ waiting[i].priority = waiting[j].priority /\ waiting[i].class = waiting[j].class
           => i \in admitted

=============================================================================
