----------------------------- MODULE DaemonJoins -----------------------------
(***************************************************************************)
(* The daemon whose mutex holder may have to wait.  Dropping a provider's  *)
(* session joins the thread that reads its terminal, and a descendant of   *)
(* the provider may hold that terminal open: a request or the pump then    *)
(* has stopped the provider, waits with the mutex held, and goes on when   *)
(* the reader has ended.  A wait that begins is, for MemMuxDaemon, the     *)
(* exit of a provider; every other step is a step of its own or changes    *)
(* nothing of it.  One life of the daemon: a crash ends every wait and     *)
(* whatever was waiting.                                                   *)
(***************************************************************************)
EXTENDS MemMuxDaemon

CONSTANT Nobody    \* no task

ASSUME DaemonJoinsAssumption == Nobody \notin Tasks

VARIABLE joining    \* the task whose reader the holder of the mutex waits for

joinVars == <<vars, joining>>

JoinsInit == Init /\ joining = Nobody

(* A step under the mutex: nobody waits with it, and whatever session this *)
(* step drops, nobody holds its terminal.                                  *)
Unhindered == joining = Nobody /\ UNCHANGED joining

RequestGoesOn == RequestStep /\ Unhindered
PumpStarts    == PumpBegin /\ Unhindered
HolderGoesOn  == HolderStep /\ Unhindered

(* The pump is about to drop the session of t.                             *)
PumpDrops(t) ==
  \/ phase = "retire" /\ t \in todo
  \/ phase = "recycle" /\ t \in todo /\ AtSafePoint(task[t])
  \/ LadderAt("HibernateLowPriority") /\ FirstVictim(t, {u \in runtimes : AtSafePoint(task[u])})
  \/ LadderAt("RecycleBloatedProviders") /\ t \in samples /\ AtSafePoint(task[t])
  \/ LadderAt("TerminateLowestPriorityTree") /\ t \in preserved

(* PtySession::drop: the provider is killed, and its reader is waited for  *)
(* because somebody else still holds the terminal.                         *)
JoinBegins(t) ==
  /\ joining = Nobody /\ t \in runtimes
  /\ joining' = t /\ alive' = alive \ {t}
  /\ UNCHANGED <<disk, registry, worktrees, measured, holder, inTree, environment>>

PumpJoins(t)    == PumpDrops(t) /\ JoinBegins(t)
RequestJoins(t) == Unlocked /\ JoinBegins(t)     \* terminate, hibernate, recycle

(* The step drops the session of t: its instance goes, or is replaced.     *)
Dropped(t) == t \in runtimes /\ (t \notin runtimes' \/ t \in alive' \ alive)

(* ... until nobody holds the terminal; then the rest of the handler runs. *)
JoinEnds ==
  /\ joining # Nobody
  /\ \/ TerminateTask(joining) \/ HibernateTask(joining) \/ RecycleTask(joining)
     \/ RetireExited(joining) \/ RecycleTriggered(joining)
     \/ HibernateLowPriority \/ RecycleBloated \/ TerminateVictim
  /\ Dropped(joining)
  /\ joining' = Nobody

JoinsNext ==
  \/ RequestGoesOn \/ PumpStarts \/ HolderGoesOn \/ JoinEnds
  \/ ProviderStep /\ UNCHANGED joining
  \/ \E t \in Tasks : PumpJoins(t) \/ RequestJoins(t)

(* Whoever holds the mutex and need not wait for a terminal runs to its    *)
(* end, and the pump timer gets the mutex again and again however requests *)
(* interleave with it.  JoinEnds is up to whoever holds the terminal.      *)
JoinsFairness ==
  /\ WF_joinVars(HolderGoesOn \/ \E t \in Tasks : PumpJoins(t))
  /\ SF_joinVars(PumpStarts)

JoinsSpec == JoinsInit /\ [][JoinsNext]_joinVars /\ JoinsFairness

-----------------------------------------------------------------------------
(* No wait for a terminal lasts for good.  That is up to the descendants   *)
(* of the providers: a wait that does last takes the whole daemon down     *)
(* with it (session.rs:186).                                               *)
JoinsReturn == []<>(joining = Nobody)

(* A provider that exits does not keep its slot: the pump retires it, or   *)
(* something relaunches it (daemon.rs:1315), if joins return.              *)
ExitedIsRetired ==
  JoinsReturn =>
    \A t \in Tasks : (t \in runtimes /\ t \notin alive) ~> (t \notin runtimes \/ t \in alive)

Admissible(t) ==
  /\ t \in pending /\ t \notin runtimes /\ task[t] = "Queued"
  /\ ~(Priority(t) = "Low" /\ AtLeast(stage, "High"))
  /\ Peak[t] <= Available

(* A deferred start is not forgotten (daemon.rs:1359): a queued task does  *)
(* not stay in the queue with enough headroom for it forever, if joins     *)
(* return.                                                                 *)
HeadroomIsUsed ==
  JoinsReturn => \A t \in Tasks : Admissible(t) ~> ~Admissible(t)

=============================================================================
