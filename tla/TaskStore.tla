------------------------------ MODULE TaskStore ------------------------------
(***************************************************************************)
(* The task tables of the durable store, statement by statement.  A        *)
(* handler of the daemon runs under one lock but writes a task's history,  *)
(* its row and its checkpoint reference in separate statements; each may   *)
(* fail, most failures are ignored, and the process may die between any    *)
(* two of them.  What survives is what the next boot reads.                *)
(***************************************************************************)
EXTENDS TaskLifecycle, Sequences, FiniteSets, SequencesExt

CONSTANTS
  StoredTasks,
  MaxFailedWrites,  \* bound: statements that fail
  MaxBoots,         \* bound: times the daemon dies
  MaxHandlers       \* bound: handlers that begin

ASSUME StoreAssumption ==
  MaxFailedWrites \in Nat /\ MaxBoots \in Nat /\ MaxHandlers \in Nat

VARIABLES
  rows,         \* table tasks: the state of each task, or Absent
  lastRecorded, \* table transitions: where each task's history ends, or Absent
  gaps,         \* ... and how often an entry does not start where the one before ended
  refs,         \* table checkpoints: the tasks with a reference
  registry,     \* DaemonState::tasks, in memory
  live,         \* DaemonState::runtimes, in memory
  handler,      \* the handler under way, with the statements it has yet to execute
  created, forgotten,     \* tasks ever submitted, and forgotten with success
  lost,                   \* tasks of which an ignored write failed
  failedWrites, boots, handlers

tableVars == <<rows, lastRecorded, gaps, refs>>
countVars == <<created, forgotten, lost, failedWrites, boots, handlers>>
storeVars == <<tableVars, registry, live, handler, countVars>>

NoHandler == [task |-> {}, statements |-> <<>>, after |-> Absent, alive |-> FALSE]

Operations == {"insert", "update", "record", "saveRef", "dropRef",
               "deleteHistory", "deleteRef", "deleteRow"}

StoreTypeOK ==
  /\ rows \in [StoredTasks -> TaskState \cup {Absent}]
  /\ lastRecorded \in [StoredTasks -> TaskState \cup {Absent}]
  /\ gaps \in [StoredTasks -> Nat] /\ refs \subseteq StoredTasks
  /\ registry \in [StoredTasks -> TaskState \cup {Absent}] /\ live \subseteq StoredTasks
  /\ handler.task \subseteq StoredTasks /\ handler.after \in TaskState \cup {Absent}
  /\ \A s \in ToSet(handler.statements) : s.op \in Operations
  /\ created \subseteq StoredTasks /\ forgotten \subseteq StoredTasks /\ lost \subseteq StoredTasks
  /\ failedWrites \in 0..MaxFailedWrites /\ boots \in 0..MaxBoots /\ handlers \in 0..MaxHandlers

StoreInit ==
  /\ rows = [t \in StoredTasks |-> Absent] /\ lastRecorded = [t \in StoredTasks |-> Absent]
  /\ gaps = [t \in StoredTasks |-> 0] /\ refs = {}
  /\ registry = [t \in StoredTasks |-> Absent] /\ live = {} /\ handler = NoHandler
  /\ created = {} /\ forgotten = {} /\ lost = {}
  /\ failedWrites = 0 /\ boots = 0 /\ handlers = 0

-----------------------------------------------------------------------------
(* The statements of a handler.                                            *)

Statement(op, from, to) == [op |-> op, from |-> from, to |-> to]
Plain(op)  == Statement(op, Absent, Absent)
Update(s)  == Statement("update", Absent, s)
Insert(s)  == Statement("insert", Absent, s)

(* task.transition, record_transition: a move the table does not allow is  *)
(* skipped.                                                                *)
Move(s, to) == IF CanTransitionTo(s, to) THEN <<Statement("record", s, to)>> ELSE <<>>

(* for (to, reason) in [first, second] { transition; record }; upsert_task *)
Walk(s, first, second) ==
  LET between == Transition(s, first)
  IN  Move(s, first) \o Move(between, second) \o <<Update(Transition(between, second))>>

Recycled(s)       == Transition(s, "Recycling")
RecyclingWalk(s)  == Move(s, "Recycling") \o <<Update(Recycled(s))>>
RecycleFailing(s) == Move(s, "Failed") \o <<Update(Transition(s, "Failed"))>>

LaunchOutcome(ok) == IF ok THEN "Active" ELSE "Failed"
LaunchRecords(ok) == Move("Queued", "Admitting") \o Walk("Admitting", "Starting", LaunchOutcome(ok))

(* force_requeue: a round after the other until the task is Queued.        *)
RequeueRecords(s) ==
  LET after[n \in 0..MaxRequeueRounds] == IF n = 0 THEN s ELSE RequeueRound(after[n - 1])
      rounds == CHOOSE n \in 0..MaxRequeueRounds :
                  after[n] = "Queued" /\ \A m \in 0..(n - 1) : after[m] # "Queued"
  IN  [n \in 1..rounds |-> Statement("record", after[n - 1], after[n])]

Begins(t, statements, after, alive) ==
  /\ handler = NoHandler /\ handlers < MaxHandlers /\ handlers' = handlers + 1
  /\ handler' = [task |-> {t}, statements |-> statements, after |-> after, alive |-> alive]

-----------------------------------------------------------------------------
(* The handlers.                                                           *)

StoreCreate(t) ==
  /\ t \notin created /\ created' = created \cup {t}
  /\ Begins(t, <<Insert("Queued"), Statement("record", "Created", "Queued")>>, "Queued", FALSE)
  /\ UNCHANGED <<tableVars, registry, live, forgotten, lost, failedWrites, boots>>

Unchanged == UNCHANGED <<tableVars, registry, live, created, forgotten, lost, failedWrites, boots>>

StoreLaunch(t) ==
  /\ registry[t] = "Queued" /\ t \notin live
  /\ \E ok \in BOOLEAN :
       Begins(t, LaunchRecords(ok), LaunchOutcome(ok), ok)
  /\ Unchanged

StoreRestart(t) ==
  LET s == registry[t] IN
  /\ s \notin {Absent, "Terminated"} /\ t \notin live /\ ForceRequeue(s) = "Queued"
  /\ \E ok \in BOOLEAN :
       Begins(t, RequeueRecords(s) \o <<Update("Queued")>> \o LaunchRecords(ok), LaunchOutcome(ok), ok)
  /\ Unchanged

(* The checkpoint's reference is the only write whose failure stops it.    *)
StoreHibernate(t) ==
  LET s == registry[t] IN
  /\ t \in live /\ AtSafePoint(s)
  /\ Begins(t, <<Plain("saveRef")>> \o Walk(s, "Checkpointing", "Hibernated"), HibernateWalk(s), FALSE)
  /\ Unchanged

(* The reference goes before the row says so.                              *)
StoreResumeEarly(t) ==
  /\ registry[t] = "Hibernated" /\ t \in refs
  /\ Begins(t, <<Plain("dropRef")>> \o Walk("Hibernated", "Resuming", "Active"), "Active", TRUE)
  /\ Unchanged

StoreResume(t) ==
  /\ registry[t] = "Hibernated" /\ t \in refs
  /\ Begins(t, Walk("Hibernated", "Resuming", "Active") \o <<Plain("dropRef")>>, "Active", TRUE)
  /\ Unchanged

StoreRecycle(t) ==
  LET s == registry[t]  down == <<Plain("saveRef")>> \o RecyclingWalk(s) IN
  /\ t \in live /\ AtSafePoint(s)
  /\ \/ Begins(t, down \o Walk(Recycled(s), "Resuming", "Active") \o <<Plain("dropRef")>>, RecycleWalk(s), TRUE)
     \/ Begins(t, down \o RecycleFailing(Recycled(s)), RecycleFailWalk(s), FALSE)
  /\ Unchanged

(* Of an operator, or of pump when the provider has exited.                *)
StoreTerminate(t) ==
  LET s == registry[t] IN
  /\ s # Absent
  /\ Begins(t, Walk(s, "Terminating", "Terminated"), TerminateWalk(s), FALSE)
  /\ Unchanged

(* Gone from memory before the first statement; the first that fails is    *)
(* the last.                                                               *)
StoreForget(t) ==
  /\ registry[t] \in {"Failed", "Terminated"} /\ t \notin live
  /\ Begins(t, <<Plain("deleteHistory"), Plain("deleteRef"), Plain("deleteRow")>>, Absent, FALSE)
  /\ registry' = [registry EXCEPT ![t] = Absent]
  /\ UNCHANGED <<tableVars, live, created, forgotten, lost, failedWrites, boots>>

-----------------------------------------------------------------------------
(* Executing the next statement.                                           *)

(* What the handler leaves in memory when it has come to its end.          *)
Finishes(t) ==
  /\ registry' = [registry EXCEPT ![t] = handler.after]
  /\ live' = IF handler.alive THEN live \cup {t} ELSE live \ {t}
  /\ handler' = NoHandler

Advance(t) ==
  IF Tail(handler.statements) = <<>> THEN Finishes(t)
  ELSE /\ handler' = [handler EXCEPT !.statements = Tail(@)]
       /\ UNCHANGED <<registry, live>>

Began(t) == IF lastRecorded[t] = Absent THEN "Created" ELSE lastRecorded[t]

Writes(t, s) ==
  /\ rows' = CASE s.op \in {"insert", "update"} -> [rows EXCEPT ![t] = s.to]
               [] s.op = "deleteRow" -> [rows EXCEPT ![t] = Absent]
               [] OTHER -> rows
  /\ lastRecorded' = CASE s.op = "record" -> [lastRecorded EXCEPT ![t] = s.to]
                       [] s.op = "deleteHistory" -> [lastRecorded EXCEPT ![t] = Absent]
                       [] OTHER -> lastRecorded
  /\ gaps' = IF s.op = "record" /\ s.from # Began(t) THEN [gaps EXCEPT ![t] = @ + 1] ELSE gaps
  /\ refs' = CASE s.op = "saveRef" -> refs \cup {t}
               [] s.op \in {"dropRef", "deleteRef"} -> refs \ {t}
               [] OTHER -> refs

Succeeds ==
  \E t \in handler.task :
    LET s == Head(handler.statements) IN
    /\ Writes(t, s) /\ Advance(t)
    /\ forgotten' = IF s.op = "deleteRow" THEN forgotten \cup {t} ELSE forgotten
    /\ UNCHANGED <<created, lost, failedWrites, boots, handlers>>

(* A failed insert, reference or deletion is the handler's answer; any     *)
(* other failed statement goes unnoticed.                                  *)
Fails ==
  \E t \in handler.task :
    LET s == Head(handler.statements) IN
    /\ failedWrites < MaxFailedWrites /\ failedWrites' = failedWrites + 1
    /\ IF s.op \in {"insert", "saveRef", "deleteHistory", "deleteRef", "deleteRow"}
         THEN handler' = NoHandler /\ UNCHANGED <<registry, live, lost>>
         ELSE Advance(t) /\ lost' = lost \cup {t}
    /\ UNCHANGED <<tableVars, created, forgotten, boots, handlers>>

(* The process dies and another one boots: load_tasks.                     *)
Reboot ==
  /\ boots < MaxBoots /\ boots' = boots + 1
  /\ registry' = rows /\ live' = {} /\ handler' = NoHandler
  /\ UNCHANGED <<tableVars, created, forgotten, lost, failedWrites, handlers>>

StoreNext ==
  \/ \E t \in StoredTasks :
       \/ StoreCreate(t) \/ StoreLaunch(t) \/ StoreRestart(t) \/ StoreHibernate(t)
       \/ StoreResume(t) \/ StoreRecycle(t) \/ StoreTerminate(t) \/ StoreForget(t)
  \/ Succeeds \/ Fails \/ Reboot

StoreSpec == StoreInit /\ [][StoreNext]_storeVars

-----------------------------------------------------------------------------
(* Properties.                                                             *)

(* What a boot finds can be trusted: a row that says Hibernated has its    *)
(* checkpoint's reference beside it (hibernate writes it first), unless    *)
(* the store refused to take the news of an earlier resume; and a task's   *)
(* history is connected but for deaths of the daemon and failed statements.*)
RowsAreRecoverable ==
  \A t \in StoredTasks :
    /\ rows[t] = "Hibernated" => t \in refs \cup lost
    /\ gaps[t] <= boots + failedWrites

(* A task forgotten with success has left nothing to come back at a boot:  *)
(* forget (daemon.rs:704) reports the first deletion that fails.           *)
ForgottenLeavesNothing ==
  \A t \in forgotten : rows[t] = Absent /\ lastRecorded[t] = Absent /\ t \notin refs

(* What a boot finds, after deaths and refused statements anywhere.        *)
BootsAreSound == RowsAreRecoverable /\ ForgottenLeavesNothing

=============================================================================
