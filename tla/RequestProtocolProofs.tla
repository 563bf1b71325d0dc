------------------------ MODULE RequestProtocolProofs ------------------------
(***************************************************************************)
(* Proofs about the requests on the daemon's socket, for any number of     *)
(* clients, repositories, tasks and faults.                                *)
(***************************************************************************)
EXTENDS RequestProtocol, FiniteSetTheorems, SequenceTheorems, TLAPS

(* What memory and tables look like whatever the handlers do to them.      *)
EventKinds == {"workspace_added", "workspace_removed", "task_created", "started", "restarted",
               "terminated", "forgotten", "process_exited"}
Event == EventKinds \X (Repos \cup Ids)

MemoryOK(d) ==
  /\ d = [tasks |-> d.tasks, live |-> d.live, pending |-> d.pending, folders |-> d.folders]
  /\ DOMAIN d.tasks \subseteq Ids /\ d.live \subseteq DOMAIN d.tasks /\ d.folders \subseteq Repos

TablesOK(s) ==
  /\ s = [tasks |-> s.tasks, folders |-> s.folders, events |-> s.events]
  /\ DOMAIN s.tasks \subseteq Ids /\ s.folders \subseteq Repos /\ s.events \in Seq(Event)

(* A task in memory or in the tables was logged when it was created.       *)
Logged(s, id) == <<"task_created", id>> \in Range(s.events)
AllLogged == \A id \in (DOMAIN daemon.tasks \cup DOMAIN store.tasks) \ unlogged : Logged(store, id)

(* The programs a client may be in: one call, or what is left of a refresh. *)
FetchFrom ==
  <<Fetch,
    <<Req("pressure", Nothing), Req("info", Nothing), Req("events", Nothing), Req("folders", Nothing)>>,
    <<Req("info", Nothing), Req("events", Nothing), Req("folders", Nothing)>>,
    <<Req("events", Nothing), Req("folders", Nothing)>>,
    <<Req("folders", Nothing)>>>>
Single == {r \in Request : r.op \in TaskOps \cup {"create", "submit", "add"}}
ProgramsOf(c) ==
  {<<>>} \cup (IF c \in Shells THEN {<<r>> : r \in Request}
               ELSE {<<r>> : r \in Single} \cup {FetchFrom[k] : k \in 1..5})

AnswerOK(c) ==
  LET r == conn[c].request
      a == conn[c].answer
  IN  /\ a.kind = "Error" /\ conn[c].changed => r.op \in {"restart", "forget"}
      /\ r.op \in ReadOps => a.kind = r.op
      /\ r.op \in {"create", "submit"} /\ a.kind # "Error" =>
           a.kind = "Task" /\ a.data \in Ids /\ a.data \in DOMAIN store.tasks \cup dropped
      /\ a.at \in Nat /\ a.at <= version

ConnOK(c) ==
  /\ conn[c] = [phase |-> conn[c].phase, request |-> conn[c].request, answer |-> conn[c].answer,
                ran |-> conn[c].ran, changed |-> conn[c].changed, user |-> conn[c].user]
  /\ conn[c].phase \in {"closed", "sent", "answered", "broken"}
  /\ conn[c].request \in Request /\ conn[c].ran \in {0, 1}
  /\ program[c] \in ProgramsOf(c)
  /\ Phase(c, "closed") <=> program[c] = <<>>
  /\ program[c] # <<>> => conn[c].request = Head(program[c])
  /\ Phase(c, "sent") => serving /\ conn[c].ran = 0
  /\ Phase(c, "answered") => conn[c].ran = 1 /\ AnswerOK(c)

ToldOK(c) ==
  LET t == told[c]
  IN  /\ t.ran \in {0, 1} /\ (t.result \in {"ok", "error"} => t.ran = 1)
      /\ t.result = "error" /\ t.changed => t.op \in {"restart", "forget"}
      /\ t.result = "ok" /\ t.kind = "Error" => t.op \in {"add", "submit"}

CallInv ==
  /\ serving \in BOOLEAN /\ MemoryOK(daemon) /\ TablesOK(store) /\ version \in Nat
  /\ DOMAIN conn = Callers /\ DOMAIN program = Callers /\ DOMAIN told = Callers
  /\ \A c \in Callers : ConnOK(c) /\ ToldOK(c)
  /\ promised \subseteq DOMAIN store.tasks \cup dropped
  /\ promised \subseteq Ids /\ dropped \subseteq Ids
  /\ born \in 0..MaxTasks /\ DOMAIN daemon.tasks \cup DOMAIN store.tasks \subseteq 1..born
  /\ actions \in 0..MaxActions /\ faults \in 0..MaxFaults /\ AllLogged

-----------------------------------------------------------------------------
(* A refresh.  An answer of the current version shows the current state,   *)
(* and every answer is later than those before it.                         *)
Agree(list, a) ==
  list.kind = "list" /\ a.at = list.at =>
    /\ a.kind = "info" => a.data = Cardinality(DOMAIN list.data)
    /\ a.kind = "folders" => \A f \in DOMAIN a.data :
         a.data[f] = Cardinality({id \in DOMAIN list.data : list.data[id].repo = f})
    /\ a.kind = "events" => \A id \in DOMAIN list.data \ unlogged :
         <<"task_created", id>> \in Range(a.data) \/ Len(a.data) = EventPage

Current(a) == a.kind = "list" /\ a.at = version => a.data = daemon.tasks

Ordered(f, k) == \A i \in 1..k : i < k => f[Fetch[i].op].at <= f[Fetch[i + 1].op].at

PartialOK(p) ==
  /\ DOMAIN p = ReadOps
  /\ \A op \in ReadOps : p[op].at \in Nat /\ p[op].at <= version /\ Agree(p["list"], p[op])
  /\ Current(p["list"])

(* An answer under way, and the parts gathered before it.                  *)
AnswerFits(p, a) ==
  /\ Current(a) /\ Agree(p["list"], a)
  /\ \A op \in ReadOps : p[op].at <= a.at

ShownOK(d) ==
  /\ DOMAIN d = ReadOps /\ (d # NoData => Ordered(d, 5))
  /\ \A op \in ReadOps : d[op].at \in Nat /\ Agree(d["list"], d[op])

RefreshOK(c) ==
  /\ PartialOK(partial[c]) /\ ShownOK(dashboard[c])
  /\ Phase(c, "answered") => AnswerFits(partial[c], conn[c].answer)
  /\ \A k \in 1..5 : program[c] = FetchFrom[k] => Ordered(partial[c], k - 1)

RefreshInv ==
  /\ CallInv /\ DOMAIN partial = Dashboards /\ DOMAIN dashboard = Dashboards
  /\ \A c \in Dashboards : RefreshOK(c)

-----------------------------------------------------------------------------
(* The handlers.  What a handler, or a part of one, may do to memory and   *)
(* tables that is no creation and no deletion.                             *)
Follows(d, s, e, t) ==
  /\ MemoryOK(e) /\ TablesOK(t)
  /\ DOMAIN e.tasks = DOMAIN d.tasks /\ DOMAIN t.tasks = DOMAIN s.tasks
  /\ Range(s.events) \subseteq Range(t.events)

LEMMA LogFollows ==
  ASSUME NEW d, NEW s, NEW e, NEW refused, MemoryOK(d), TablesOK(s), e \in Event
  PROVE  Follows(d, s, d, Log(s, e, refused)) /\ Log(s, e, refused).tasks = s.tasks
<1>1. CASE "event" \in refused
  BY <1>1 DEF Log, Follows
<1>2. CASE "event" \notin refused
  <2>1. Log(s, e, refused) = [tasks |-> s.tasks, folders |-> s.folders, events |-> Append(s.events, e)]
    BY <1>2 DEF Log, TablesOK
  <2>2. Append(s.events, e) \in Seq(Event)
    BY DEF TablesOK
  <2>3. Range(s.events) \subseteq Range(Append(s.events, e))
    BY DEF TablesOK, Range
  <2>. QED
    BY <2>1, <2>2, <2>3 DEF TablesOK, Follows
<1>. QED
  BY <1>1, <1>2

LEMMA MovedFollows ==
  ASSUME NEW d, NEW s, NEW to, MemoryOK(d), TablesOK(s), NEW id \in DOMAIN d.tasks
  PROVE  LET m == Moved(d, s, id, to)
         IN  Follows(d, s, m.d, m.s) /\ m = [d |-> m.d, s |-> m.s]
<1>. DEFINE live == IF to = "Active" THEN d.live \cup {id} ELSE d.live \ {id}
            moved == [d.tasks EXCEPT ![id].state = to]
            rows == [s.tasks EXCEPT ![id].state = to]
            m == Moved(d, s, id, to)
<1>1. m.d = [tasks |-> moved, live |-> live, pending |-> d.pending, folders |-> d.folders]
  BY DEF Moved, MemoryOK
<1>2. m.s = [tasks |-> rows, folders |-> s.folders, events |-> s.events]
  BY DEF Moved, TablesOK
<1>3. DOMAIN moved = DOMAIN d.tasks /\ DOMAIN rows = DOMAIN s.tasks /\ live \subseteq DOMAIN d.tasks
  BY DEF MemoryOK
<1>4. m = [d |-> m.d, s |-> m.s]
  BY DEF Moved
<1>5. Follows(d, s, m.d, m.s)
  <2>. HIDE DEF live, moved, rows, m
  <2>. QED
    BY <1>1, <1>2, <1>3 DEF Follows, MemoryOK, TablesOK
<1>. QED
  BY <1>4, <1>5

LEMMA FollowsOn ==
  ASSUME NEW d, NEW s, NEW e, NEW t, NEW f, NEW u, Follows(d, s, e, t), Follows(e, t, f, u)
  PROVE  Follows(d, s, f, u)
BY DEF Follows

LEMMA LaunchFollows ==
  ASSUME NEW d, NEW s, NEW ok \in BOOLEAN, NEW refused, MemoryOK(d), TablesOK(s), NEW id \in DOMAIN d.tasks
  PROVE  Follows(d, s, Launch(d, s, id, ok, refused).d, Launch(d, s, id, ok, refused).s)
<1>. DEFINE to == IF ok THEN LaunchWalk(d.tasks[id].state) ELSE LaunchFailWalk(d.tasks[id].state)
            m == Moved(d, s, id, to)
<1>1. Follows(d, s, m.d, m.s) /\ m = [d |-> m.d, s |-> m.s]
  BY MovedFollows
<1>2. Launch(d, s, id, ok, refused) = IF ok THEN [m EXCEPT !.s = Log(m.s, <<"started", id>>, refused)] ELSE m
  BY DEF Launch
<1>. HIDE DEF m
<1>3. CASE ~ok
  BY <1>1, <1>2, <1>3
<1>4. CASE ok
  <2>1. Launch(d, s, id, ok, refused) = [d |-> m.d, s |-> Log(m.s, <<"started", id>>, refused)]
    BY <1>1, <1>2, <1>4
  <2>2. <<"started", id>> \in Event /\ MemoryOK(m.d) /\ TablesOK(m.s)
    <3>1. id \in Ids
      BY DEF MemoryOK
    <3>2. <<"started", id>> \in Event
      BY <3>1 DEF Event, EventKinds
    <3>. QED
      BY <1>1, <3>2 DEF Follows
  <2>3. Follows(m.d, m.s, m.d, Log(m.s, <<"started", id>>, refused))
    BY <2>2, LogFollows
  <2>. QED
    BY <1>1, <2>1, <2>3, FollowsOn
<1>. QED
  BY <1>3, <1>4

LEMMA AdmitsFollow ==
  ASSUME NEW d, NEW s, NEW refused, MemoryOK(d), TablesOK(s), NEW m \in Admits(d, s, refused)
  PROVE  Follows(d, s, m.d, m.s)
<1>. DEFINE waiting == {id \in d.pending : id \in DOMAIN d.tasks /\ d.tasks[id].state = "Queued"}
            kept    == [d EXCEPT !.pending = waiting]
            without(id) == [kept EXCEPT !.pending = @ \ {id}]
<1>1. /\ kept = [tasks |-> d.tasks, live |-> d.live, pending |-> waiting, folders |-> d.folders]
      /\ waiting \subseteq DOMAIN d.tasks
  <2>1. waiting \subseteq DOMAIN d.tasks
    OBVIOUS
  <2>. HIDE DEF waiting
  <2>. QED
    BY <2>1 DEF MemoryOK
<1>. HIDE DEF waiting, kept
<1>2. Follows(d, s, kept, s)
  BY <1>1 DEF Follows, MemoryOK
<1>3. ASSUME NEW id \in waiting
      PROVE  Follows(d, s, without(id), s) /\ id \in DOMAIN without(id).tasks
  <2>1. without(id) = [tasks |-> d.tasks, live |-> d.live, pending |-> waiting \ {id}, folders |-> d.folders]
    BY <1>1
  <2>. HIDE DEF without
  <2>. QED
    BY <1>1, <2>1 DEF Follows, MemoryOK
<1>4. CASE m = [d |-> kept, s |-> s]
  BY <1>2, <1>4
<1>5. CASE \E x \in waiting \X BOOLEAN : m = Launch(without(x[1]), s, x[1], x[2], refused)
  <2>1. PICK x \in waiting \X BOOLEAN : m = Launch(without(x[1]), s, x[1], x[2], refused)
    BY <1>5
  <2>2. PICK id \in waiting, ok \in BOOLEAN : m = Launch(without(id), s, id, ok, refused)
    BY <2>1
  <2>3. Follows(d, s, without(id), s) /\ id \in DOMAIN without(id).tasks
    BY <1>3
  <2>. HIDE DEF without
  <2>4. MemoryOK(without(id))
    BY <2>3 DEF Follows
  <2>5. Follows(without(id), s, m.d, m.s)
    BY <2>2, <2>3, <2>4, LaunchFollows
  <2>. QED
    BY <2>3, <2>5, FollowsOn
<1>6. \/ m = [d |-> kept, s |-> s]
      \/ \E x \in waiting \X BOOLEAN : m = Launch(without(x[1]), s, x[1], x[2], refused)
  BY DEF Admits, waiting, kept
<1>. QED
  BY <1>4, <1>5, <1>6

(* What any handler may make of a request.                                 *)
TasksAfter(o)  == DOMAIN o.daemon.tasks \cup DOMAIN o.store.tasks
TasksBefore    == DOMAIN daemon.tasks \cup DOMAIN store.tasks
Unchanging(o)  == o.daemon = daemon /\ o.store = store

OutcomeOK(op, refused, o) ==
  /\ MemoryOK(o.daemon) /\ TablesOK(o.store) /\ o.answer.at = version
  /\ DOMAIN store.tasks \subseteq DOMAIN o.store.tasks \cup (DOMAIN daemon.tasks \ DOMAIN o.daemon.tasks)
  /\ TasksAfter(o) \subseteq TasksBefore \cup {born + 1}
  /\ TasksAfter(o) \subseteq TasksBefore \/ op \in {"create", "submit"}
  /\ DOMAIN o.store.tasks \subseteq DOMAIN store.tasks \cup DOMAIN o.daemon.tasks
  /\ Range(store.events) \subseteq Range(o.store.events)
  /\ \A id \in TasksAfter(o) \ TasksBefore :
       Logged(o.store, id) \/ ("event" \in refused /\ id \in DOMAIN o.daemon.tasks \ DOMAIN daemon.tasks)
  /\ o.answer.kind = "Error" /\ ~Unchanging(o) => op \in {"restart", "forget"}
  /\ o.answer.kind \in ReadOps \/ op \in ReadOps => o.answer.kind = op /\ Unchanging(o)
  /\ o.answer.kind = "list" => o.answer.data = daemon.tasks
  /\ o.answer.kind = "info" => o.answer.data = Cardinality(DOMAIN daemon.tasks)
  /\ o.answer.kind = "folders" => o.answer.data = WorkspaceViews
  /\ o.answer.kind = "events" => o.answer.data = EventViews
  /\ op \in {"create", "submit"} /\ o.answer.kind # "Error" =>
       o.answer.kind = "Task" /\ o.answer.data = born + 1 /\ born + 1 \in DOMAIN o.store.tasks

Ground == MemoryOK(daemon) /\ TablesOK(store)

LEMMA GivesIs ==
  ASSUME NEW d, NEW s, NEW kind, NEW data
  PROVE  LET o == Gives(d, s, kind, data)
         IN  /\ o.daemon = d /\ o.store = s
             /\ o.answer.kind = kind /\ o.answer.data = data /\ o.answer.at = version
BY DEF Gives

(* Nothing was done, or nothing that adds or removes a task.               *)
LEMMA FollowingIsOK ==
  ASSUME Ground, NEW op, NEW refused, NEW kind, NEW data, NEW d, NEW s, Follows(daemon, store, d, s),
         kind \notin ReadOps, op \notin ReadOps,
         kind = "Error" => (d = daemon /\ s = store) \/ op = "restart",
         op \in {"create", "submit"} => kind = "Error"
  PROVE  OutcomeOK(op, refused, Gives(d, s, kind, data))
<1>. DEFINE o == Gives(d, s, kind, data)
<1>1. /\ o.daemon = d /\ o.store = s
      /\ o.answer.kind = kind /\ o.answer.data = data /\ o.answer.at = version
  BY GivesIs
<1>. HIDE DEF o
<1>2. TasksAfter(o) = TasksBefore
  BY <1>1 DEF Follows, TasksAfter, TasksBefore
<1>3. /\ MemoryOK(o.daemon) /\ TablesOK(o.store) /\ Range(store.events) \subseteq Range(o.store.events)
      /\ DOMAIN store.tasks = DOMAIN o.store.tasks
  BY <1>1 DEF Follows
<1>4. o.answer.kind = "Error" /\ ~Unchanging(o) => op \in {"restart", "forget"}
  BY <1>1 DEF Unchanging
<1>5. o.answer.kind \notin {"list", "pressure", "info", "events", "folders"}
  BY <1>1 DEF ReadOps
<1>6. OutcomeOK(op, refused, o)
  BY <1>1, <1>2, <1>3, <1>4, <1>5 DEF OutcomeOK, ReadOps
<1>. QED
  BY <1>6 DEF o

LEMMA SameFollows == Ground => Follows(daemon, store, daemon, store)
BY DEF Ground, Follows

LEMMA RefusesOK ==
  ASSUME Ground, NEW op, NEW refused, op \notin ReadOps, NEW o \in Refuses
  PROVE  OutcomeOK(op, refused, o)
BY SameFollows, FollowingIsOK DEF Refuses, ReadOps

LEMMA StartTaskOK ==
  ASSUME Ground, NEW id \in Ids, NEW refused, NEW o \in StartTask(id, refused)
  PROVE  OutcomeOK("start", refused, o)
<1>1. CASE id \in daemon.live
  BY <1>1, SameFollows, FollowingIsOK DEF StartTask, ReadOps
<1>2. CASE id \notin daemon.live /\ (id \notin DOMAIN daemon.tasks \/ daemon.tasks[id].state # "Queued")
  BY <1>2, RefusesOK DEF StartTask, ReadOps
<1>3. CASE id \notin daemon.live /\ id \in DOMAIN daemon.tasks /\ daemon.tasks[id].state = "Queued"
  <2>. DEFINE d == [daemon EXCEPT !.pending = @ \cup {id}]
  <2>1. d = [tasks |-> daemon.tasks, live |-> daemon.live, pending |-> daemon.pending \cup {id},
             folders |-> daemon.folders]
    BY DEF Ground, MemoryOK
  <2>2. PICK m \in Admits(d, store, refused) : o = Gives(m.d, m.s, "Task", id)
    BY <1>3 DEF StartTask
  <2>. HIDE DEF d
  <2>3. MemoryOK(d) /\ Follows(daemon, store, d, store)
    BY <2>1 DEF Ground, MemoryOK, Follows
  <2>4. Follows(d, store, m.d, m.s)
    BY <2>3, AdmitsFollow DEF Ground
  <2>5. Follows(daemon, store, m.d, m.s)
    BY <2>3, <2>4, FollowsOn
  <2>. QED
    BY <2>2, <2>5, FollowingIsOK DEF ReadOps
<1>. QED
  BY <1>1, <1>2, <1>3

LEMMA EventOf ==
  ASSUME NEW x \in Repos \cup Ids, NEW k \in EventKinds PROVE <<k, x>> \in Event
BY DEF Event

LEMMA RestartOK ==
  ASSUME Ground, NEW id \in Ids, NEW refused, NEW o \in Restart(id, refused)
  PROVE  OutcomeOK("restart", refused, o)
<1>1. CASE id \in daemon.live
  BY <1>1, SameFollows, FollowingIsOK DEF Restart, ReadOps
<1>2. CASE id \notin daemon.live /\ (id \notin DOMAIN daemon.tasks \/ daemon.tasks[id].state = "Terminated")
  BY <1>2, RefusesOK DEF Restart, ReadOps
<1>3. CASE ~(id \in daemon.live) /\ ~(id \notin DOMAIN daemon.tasks \/ daemon.tasks[id].state = "Terminated")
  <2>. DEFINE m == Moved(daemon, store, id, ForceRequeue(daemon.tasks[id].state))
              s == Log(m.s, <<"restarted", id>>, refused)
              L(ok) == Launch(m.d, s, id, ok, refused)
  <2>1. o \in {Gives(L(TRUE).d, L(TRUE).s, "Task", id), Gives(L(FALSE).d, L(FALSE).s, "Error", Nothing)}
    BY <1>3 DEF Restart
  <2>2. Follows(daemon, store, m.d, m.s)
    BY <1>3, MovedFollows DEF Ground
  <2>. HIDE DEF m
  <2>3. <<"restarted", id>> \in Event
    BY EventOf DEF EventKinds
  <2>4. Follows(m.d, m.s, m.d, s)
    BY <2>2, <2>3, LogFollows DEF Follows
  <2>. HIDE DEF s
  <2>5. Follows(daemon, store, m.d, s)
    BY <2>2, <2>4, FollowsOn
  <2>6. \A ok \in BOOLEAN : Follows(daemon, store, L(ok).d, L(ok).s)
    <3>1. id \in DOMAIN m.d.tasks /\ MemoryOK(m.d) /\ TablesOK(s)
      BY <1>3, <2>2, <2>4 DEF Follows
    <3>2. \A ok \in BOOLEAN : Follows(m.d, s, L(ok).d, L(ok).s)
      BY <3>1, LaunchFollows
    <3>. HIDE DEF L
    <3>. QED
      BY <2>5, <3>2, FollowsOn
  <2>. HIDE DEF L
  <2>7. OutcomeOK("restart", refused, Gives(L(TRUE).d, L(TRUE).s, "Task", id))
    BY <2>6, FollowingIsOK DEF ReadOps
  <2>8. OutcomeOK("restart", refused, Gives(L(FALSE).d, L(FALSE).s, "Error", Nothing))
    BY <2>6, FollowingIsOK DEF ReadOps
  <2>. QED
    BY <2>1, <2>7, <2>8
<1>. QED
  BY <1>1, <1>2, <1>3

LEMMA TerminateOK ==
  ASSUME Ground, NEW id \in Ids, NEW refused, NEW o \in Terminate(id, refused)
  PROVE  OutcomeOK("terminate", refused, o)
<1>1. CASE id \notin DOMAIN daemon.tasks
  BY <1>1, RefusesOK DEF Terminate, ReadOps
<1>2. CASE id \in DOMAIN daemon.tasks
  <2>. DEFINE m == Moved(daemon, store, id, TerminateWalk(daemon.tasks[id].state))
              d == [m.d EXCEPT !.pending = @ \ {id}]
              s == Log(m.s, <<"terminated", id>>, refused)
  <2>1. o = Gives(d, s, "Task", id)
    BY <1>2 DEF Terminate
  <2>2. Follows(daemon, store, m.d, m.s)
    BY <1>2, MovedFollows DEF Ground
  <2>. HIDE DEF m
  <2>3. d = [tasks |-> m.d.tasks, live |-> m.d.live, pending |-> m.d.pending \ {id}, folders |-> m.d.folders]
    BY <2>2 DEF Follows, MemoryOK
  <2>. HIDE DEF d
  <2>4. Follows(daemon, store, d, m.s)
    BY <2>2, <2>3 DEF Follows, MemoryOK
  <2>5. <<"terminated", id>> \in Event
    BY EventOf DEF EventKinds
  <2>6. Follows(d, m.s, d, s)
    BY <2>4, <2>5, LogFollows DEF Follows
  <2>. HIDE DEF s
  <2>7. Follows(daemon, store, d, s)
    BY <2>4, <2>6, FollowsOn
  <2>. QED
    BY <2>1, <2>7, FollowingIsOK DEF ReadOps
<1>. QED
  BY <1>1, <1>2

LEMMA AppendHas == ASSUME NEW S, NEW q \in Seq(S), NEW e \in S PROVE e \in Range(Append(q, e))
<1>. DEFINE n == Len(q) + 1
            r == Append(q, e)
<1>1. n \in DOMAIN r /\ r[n] = e
  OBVIOUS
<1>. HIDE DEF n, r
<1>2. r[n] \in Range(r)
  BY <1>1, Zenon DEF Range
<1>. QED
  BY <1>1, <1>2 DEF r

LEMMA CreateTaskOK ==
  ASSUME Ground, NEW repo \in Repos \cup {Nothing}, NEW refused, born \in Nat, born < MaxTasks,
         NEW op \in {"create", "submit"}, NEW o \in CreateTask(repo, refused)
  PROVE  OutcomeOK(op, refused, o)
<1>. USE ProtocolAssumption
<1>1. CASE repo = Nothing \/ "row" \in refused
  BY <1>1, RefusesOK DEF CreateTask, ReadOps
<1>2. CASE ~(repo = Nothing \/ "row" \in refused)
  <2>. DEFINE t == [state |-> "Queued", repo |-> repo]
              d == [daemon EXCEPT !.tasks = With(@, born + 1, t)]
              row == [store EXCEPT !.tasks = With(@, born + 1, t)]
              s == Log(row, <<"task_created", born + 1>>, refused)
  <2>1. o = Gives(d, s, "Task", born + 1)
    BY <1>2 DEF CreateTask
  <2>2. born + 1 \in Ids
    BY DEF Ids
  <2>3. MemoryOK(d) /\ DOMAIN d.tasks = DOMAIN daemon.tasks \cup {born + 1}
    <3>1. d = [tasks |-> With(daemon.tasks, born + 1, t), live |-> daemon.live, pending |-> daemon.pending,
               folders |-> daemon.folders]
      BY DEF Ground, MemoryOK
    <3>2. DOMAIN With(daemon.tasks, born + 1, t) = DOMAIN daemon.tasks \cup {born + 1}
      BY DEF With
    <3>. HIDE DEF d, t
    <3>. QED
      BY <2>2, <3>1, <3>2 DEF Ground, MemoryOK
  <2>4. TablesOK(row) /\ DOMAIN row.tasks = DOMAIN store.tasks \cup {born + 1} /\ row.events = store.events
    <3>1. row = [tasks |-> With(store.tasks, born + 1, t), folders |-> store.folders, events |-> store.events]
      BY DEF Ground, TablesOK
    <3>2. DOMAIN With(store.tasks, born + 1, t) = DOMAIN store.tasks \cup {born + 1}
      BY DEF With
    <3>. HIDE DEF row, t
    <3>. QED
      BY <2>2, <3>1, <3>2 DEF Ground, TablesOK
  <2>. HIDE DEF t, d, row
  <2>5. <<"task_created", born + 1>> \in Event
    BY <2>2, EventOf DEF EventKinds
  <2>6. Follows(d, row, d, s) /\ s.tasks = row.tasks
    BY <2>3, <2>4, <2>5, LogFollows
  <2>7. "event" \notin refused => Logged(s, born + 1)
    <3>1. CASE "event" \notin refused
      <4>1. s.events = Append(store.events, <<"task_created", born + 1>>)
        BY <2>4, <3>1 DEF Log, TablesOK
      <4>2. store.events \in Seq(Event)
        BY DEF Ground, TablesOK
      <4>3. <<"task_created", born + 1>> \in Range(Append(store.events, <<"task_created", born + 1>>))
        BY <2>5, <4>2, AppendHas
      <4>. QED
        BY <4>1, <4>3 DEF Logged
    <3>. QED
      BY <3>1
  <2>. HIDE DEF s
  <2>8. /\ o.daemon = d /\ o.store = s /\ o.answer.kind = "Task" /\ o.answer.data = born + 1
        /\ o.answer.at = version
    BY <2>1, GivesIs
  <2>9. /\ TasksAfter(o) = TasksBefore \cup {born + 1} /\ MemoryOK(o.daemon) /\ TablesOK(o.store)
        /\ Range(store.events) \subseteq Range(o.store.events)
        /\ DOMAIN o.store.tasks = DOMAIN store.tasks \cup {born + 1}
        /\ DOMAIN o.daemon.tasks = DOMAIN daemon.tasks \cup {born + 1}
    BY <2>3, <2>4, <2>6, <2>8 DEF TasksAfter, TasksBefore, Follows
  <2>10. \A id \in TasksAfter(o) \ TasksBefore :
           Logged(o.store, id) \/ ("event" \in refused /\ id \in DOMAIN o.daemon.tasks \ DOMAIN daemon.tasks)
    BY <2>7, <2>8, <2>9 DEF TasksBefore
  <2>. QED
    BY <2>8, <2>9, <2>10 DEF OutcomeOK, ReadOps
<1>. QED
  BY <1>1, <1>2

LEMMA WithoutIs ==
  ASSUME NEW f, NEW id PROVE DOMAIN Restrict(f, DOMAIN f \ {id}) = DOMAIN f \ {id}
BY DEF Restrict

LEMMA ForgetOK ==
  ASSUME Ground, NEW id \in Ids, NEW refused, NEW o \in Forget(id, refused)
  PROVE  OutcomeOK("forget", refused, o)
<1>1. CASE id \in daemon.live \/ id \notin DOMAIN daemon.tasks
           \/ daemon.tasks[id].state \notin {"Failed", "Terminated"}
  BY <1>1, RefusesOK DEF Forget, ReadOps
<1>2. CASE ~(id \in daemon.live \/ id \notin DOMAIN daemon.tasks
             \/ daemon.tasks[id].state \notin {"Failed", "Terminated"})
  <2>. DEFINE d == [daemon EXCEPT !.tasks = Restrict(@, DOMAIN @ \ {id})]
              row == [store EXCEPT !.tasks = Restrict(@, DOMAIN @ \ {id})]
              s == Log(row, <<"forgotten", id>>, refused)
  <2>1. MemoryOK(d) /\ DOMAIN d.tasks = DOMAIN daemon.tasks \ {id}
    <3>1. d = [tasks |-> Restrict(daemon.tasks, DOMAIN daemon.tasks \ {id}), live |-> daemon.live,
               pending |-> daemon.pending, folders |-> daemon.folders]
      BY DEF Ground, MemoryOK
    <3>. HIDE DEF d
    <3>. QED
      BY <1>2, <3>1, WithoutIs DEF Ground, MemoryOK
  <2>2. TablesOK(row) /\ DOMAIN row.tasks = DOMAIN store.tasks \ {id} /\ row.events = store.events
    <3>1. row = [tasks |-> Restrict(store.tasks, DOMAIN store.tasks \ {id}), folders |-> store.folders,
                 events |-> store.events]
      BY DEF Ground, TablesOK
    <3>. HIDE DEF row
    <3>. QED
      BY <3>1, WithoutIs DEF Ground, TablesOK
  <2>3. \/ o = Gives(d, store, "Error", Nothing)
        \/ o = Gives(d, s, "Ok", Nothing)
    BY <1>2 DEF Forget
  <2>. HIDE DEF d, row
  <2>4. Follows(d, row, d, s)
    BY <2>1, <2>2, EventOf, LogFollows DEF EventKinds
  <2>. HIDE DEF s
  <2>5. PICK t \in {store, s}, kind \in {"Error", "Ok"} : o = Gives(d, t, kind, Nothing)
    BY <2>3
  <2>6. /\ TablesOK(t) /\ DOMAIN t.tasks \subseteq DOMAIN store.tasks
        /\ DOMAIN store.tasks \subseteq DOMAIN t.tasks \cup {id}
        /\ Range(store.events) \subseteq Range(t.events)
    BY <2>2, <2>4 DEF Follows, Ground
  <2>7. o.daemon = d /\ o.store = t /\ o.answer.kind = kind /\ o.answer.at = version
    BY <2>5, GivesIs
  <2>8. /\ TasksAfter(o) \subseteq TasksBefore
        /\ DOMAIN store.tasks \subseteq DOMAIN o.store.tasks \cup (DOMAIN daemon.tasks \ DOMAIN o.daemon.tasks)
    BY <1>2, <2>1, <2>6, <2>7 DEF TasksAfter, TasksBefore
  <2>. QED
    BY <2>1, <2>6, <2>7, <2>8 DEF OutcomeOK, ReadOps
<1>. QED
  BY <1>1, <1>2

LEMMA AddWorkspaceOK ==
  ASSUME Ground, NEW repo \in Repos \cup {Nothing}, NEW refused, NEW o \in AddWorkspace(repo, refused)
  PROVE  OutcomeOK("add", refused, o)
<1>1. CASE repo = Nothing \/ "row" \in refused
  BY <1>1, RefusesOK DEF AddWorkspace, ReadOps
<1>2. CASE ~(repo = Nothing \/ "row" \in refused)
  <2>. DEFINE d == [daemon EXCEPT !.folders = @ \cup {repo}]
              row == [store EXCEPT !.folders = @ \cup {repo}]
              s == Log(row, <<"workspace_added", repo>>, refused)
  <2>1. o = Gives(d, s, "Workspace", repo)
    BY <1>2 DEF AddWorkspace
  <2>2. d = [tasks |-> daemon.tasks, live |-> daemon.live, pending |-> daemon.pending,
             folders |-> daemon.folders \cup {repo}]
    BY DEF Ground, MemoryOK
  <2>3. row = [tasks |-> store.tasks, folders |-> store.folders \cup {repo}, events |-> store.events]
    <3>1. store = [tasks |-> store.tasks, folders |-> store.folders, events |-> store.events]
      BY DEF Ground, TablesOK
    <3>. QED
      BY <3>1
  <2>. HIDE DEF d, row
  <2>4. Follows(daemon, store, d, row)
    BY <1>2, <2>2, <2>3 DEF Ground, Follows, MemoryOK, TablesOK
  <2>5. Follows(d, row, d, s)
    BY <1>2, <2>4, EventOf, LogFollows DEF EventKinds, Follows
  <2>. HIDE DEF s
  <2>. QED
    BY <2>1, <2>4, <2>5, FollowsOn, FollowingIsOK DEF ReadOps
<1>. QED
  BY <1>1, <1>2

LEMMA RemoveWorkspaceOK ==
  ASSUME Ground, NEW repo, NEW refused, NEW o \in RemoveWorkspace(repo, refused)
  PROVE  OutcomeOK("remove", refused, o)
<1>1. CASE repo \notin daemon.folders
  BY <1>1, RefusesOK DEF RemoveWorkspace, ReadOps
<1>2. CASE repo \in daemon.folders
  <2>. DEFINE d == [daemon EXCEPT !.folders = @ \ {repo}]
              row == IF "row" \in refused THEN store ELSE [store EXCEPT !.folders = @ \ {repo}]
              s == Log(row, <<"workspace_removed", repo>>, refused)
  <2>1. o = Gives(d, s, "Ok", Nothing)
    BY <1>2 DEF RemoveWorkspace
  <2>2. d = [tasks |-> daemon.tasks, live |-> daemon.live, pending |-> daemon.pending,
             folders |-> daemon.folders \ {repo}]
    BY DEF Ground, MemoryOK
  <2>3. \/ row = store
        \/ row = [tasks |-> store.tasks, folders |-> store.folders \ {repo}, events |-> store.events]
    BY DEF Ground, TablesOK
  <2>. HIDE DEF d, row
  <2>4. Follows(daemon, store, d, row)
    BY <2>2, <2>3 DEF Ground, Follows, MemoryOK, TablesOK
  <2>5. Follows(d, row, d, s)
    <3>1. repo \in Repos \cup Ids
      BY <1>2 DEF Ground, MemoryOK
    <3>. QED
      BY <2>4, <3>1, EventOf, LogFollows DEF EventKinds, Follows
  <2>. HIDE DEF s
  <2>. QED
    BY <2>1, <2>4, <2>5, FollowsOn, FollowingIsOK DEF ReadOps
<1>. QED
  BY <1>1, <1>2

LEMMA ReadOK ==
  ASSUME Ground, NEW op \in ReadOps, NEW refused, NEW o \in Read(op)
  PROVE  OutcomeOK(op, refused, o)
<1>1. /\ o.daemon = daemon /\ o.store = store /\ o.answer.kind = op /\ o.answer.at = version
      /\ op = "list" => o.answer.data = daemon.tasks
      /\ op = "info" => o.answer.data = Cardinality(DOMAIN daemon.tasks)
      /\ op = "events" => o.answer.data = EventViews
      /\ op = "folders" => o.answer.data = WorkspaceViews
  BY DEF Read, Gives, ListTasks, InfoNow
<1>2. op \notin {"create", "submit", "Error"}
  BY DEF ReadOps
<1>3. TasksAfter(o) = TasksBefore
  BY <1>1 DEF TasksAfter, TasksBefore
<1>. QED
  BY <1>1, <1>2, <1>3 DEF OutcomeOK, Unchanging, Ground

LEMMA HandlersOK ==
  ASSUME Ground, NEW r \in Request, r.op # "oversized", NEW refused, born \in Nat,
         r.op \in {"create", "submit"} => born < MaxTasks,
         NEW o \in HandlerOutcomes(r, refused)
  PROVE  OutcomeOK(r.op, refused, o)
<1>1. CASE r.op \in {"create", "submit"}
  <2>1. r.arg \in Repos \cup {Nothing} /\ o \in CreateTask(r.arg, refused)
    BY <1>1 DEF Request, HandlerOutcomes, TaskOps, ReadOps
  <2>. QED
    BY <1>1, <2>1, CreateTaskOK
<1>2. CASE r.op \in TaskOps
  <2>1. r.arg \in Ids
    BY <1>2 DEF Request, TaskOps, ReadOps
  <2>2. CASE r.op = "start"
    <3>1. o \in StartTask(r.arg, refused)
      BY <2>2 DEF HandlerOutcomes, ReadOps
    <3>2. OutcomeOK("start", refused, o)
      BY <2>1, <3>1, StartTaskOK
    <3>. QED
      BY <2>2, <3>2
  <2>3. CASE r.op = "restart"
    <3>1. o \in Restart(r.arg, refused)
      BY <2>3 DEF HandlerOutcomes, ReadOps
    <3>2. OutcomeOK("restart", refused, o)
      BY <2>1, <3>1, RestartOK
    <3>. QED
      BY <2>3, <3>2
  <2>4. CASE r.op = "terminate"
    <3>1. o \in Terminate(r.arg, refused)
      BY <2>4 DEF HandlerOutcomes, ReadOps
    <3>2. OutcomeOK("terminate", refused, o)
      BY <2>1, <3>1, TerminateOK
    <3>. QED
      BY <2>4, <3>2
  <2>5. CASE r.op = "forget"
    <3>1. o \in Forget(r.arg, refused)
      BY <2>5 DEF HandlerOutcomes, ReadOps
    <3>2. OutcomeOK("forget", refused, o)
      BY <2>1, <3>1, ForgetOK
    <3>. QED
      BY <2>5, <3>2
  <2>. QED
    BY <1>2, <2>2, <2>3, <2>4, <2>5 DEF TaskOps
<1>3. CASE r.op = "add"
  <2>1. r.arg \in Repos \cup {Nothing} /\ o \in AddWorkspace(r.arg, refused)
    BY <1>3 DEF Request, HandlerOutcomes, TaskOps, ReadOps
  <2>. QED
    BY <1>3, <2>1, AddWorkspaceOK
<1>4. CASE r.op = "remove"
  <2>1. o \in RemoveWorkspace(r.arg, refused)
    BY <1>4 DEF HandlerOutcomes, ReadOps
  <2>2. OutcomeOK("remove", refused, o)
    BY <2>1, RemoveWorkspaceOK
  <2>. QED
    BY <1>4, <2>2
<1>5. CASE r.op \in ReadOps
  <2>1. o \in Read(r.op)
    BY <1>5 DEF HandlerOutcomes, ReadOps
  <2>. QED
    BY <1>5, <2>1, ReadOK
<1>6. CASE r.op = "garbage"
  <2>1. o \in Refuses
    BY <1>6 DEF HandlerOutcomes, ReadOps
  <2>. QED
    BY <1>6, <2>1, RefusesOK DEF ReadOps
<1>. QED
  BY <1>1, <1>2, <1>3, <1>4, <1>5, <1>6 DEF Request

-----------------------------------------------------------------------------
(* The programs of the clients.                                            *)

LEMMA RefreshParts ==
  /\ Head(FetchFrom[1]) = Fetch[1] /\ Tail(FetchFrom[1]) = FetchFrom[2]
  /\ Head(FetchFrom[2]) = Fetch[2] /\ Tail(FetchFrom[2]) = FetchFrom[3]
  /\ Head(FetchFrom[3]) = Fetch[3] /\ Tail(FetchFrom[3]) = FetchFrom[4]
  /\ Head(FetchFrom[4]) = Fetch[4] /\ Tail(FetchFrom[4]) = FetchFrom[5]
  /\ Head(FetchFrom[5]) = Fetch[5] /\ Tail(FetchFrom[5]) = <<>>
  /\ FetchFrom[1] = Fetch
  /\ \A k \in 1..5 : FetchFrom[k] # <<>>
BY DEF FetchFrom, Fetch

LEMMA NextPart ==
  \A k \in 1..5 : Tail(FetchFrom[k]) = <<>> \/ \E j \in 1..5 : Tail(FetchFrom[k]) = FetchFrom[j]
<1>1. ASSUME NEW k \in 1..5, NEW j \in 1..5, Tail(FetchFrom[k]) = FetchFrom[j]
      PROVE  \E i \in 1..5 : Tail(FetchFrom[k]) = FetchFrom[i]
  BY <1>1, Zenon
<1>2. \E j \in 1..5 : Tail(FetchFrom[1]) = FetchFrom[j]
  BY <1>1, RefreshParts
<1>3. \E j \in 1..5 : Tail(FetchFrom[2]) = FetchFrom[j]
  BY <1>1, RefreshParts
<1>4. \E j \in 1..5 : Tail(FetchFrom[3]) = FetchFrom[j]
  BY <1>1, RefreshParts
<1>5. \E j \in 1..5 : Tail(FetchFrom[4]) = FetchFrom[j]
  BY <1>1, RefreshParts
<1>6. \A k \in 1..5 : k = 1 \/ k = 2 \/ k = 3 \/ k = 4 \/ k = 5
  OBVIOUS
<1>. QED
  BY <1>2, <1>3, <1>4, <1>5, <1>6, RefreshParts

LEMMA FetchOps ==
  /\ Fetch[1] = Req("list", Nothing) /\ Fetch[2] = Req("pressure", Nothing)
  /\ Fetch[3] = Req("info", Nothing) /\ Fetch[4] = Req("events", Nothing)
  /\ Fetch[5] = Req("folders", Nothing)
  /\ \A k \in 1..5 : Fetch[k] \in Request /\ Fetch[k].op \in ReadOps
<1>1. /\ Fetch[1] = Req("list", Nothing) /\ Fetch[2] = Req("pressure", Nothing)
      /\ Fetch[3] = Req("info", Nothing) /\ Fetch[4] = Req("events", Nothing)
      /\ Fetch[5] = Req("folders", Nothing)
  BY DEF Fetch
<1>2. \A op \in ReadOps : Req(op, Nothing) \in Request /\ Req(op, Nothing).op = op
  BY DEF Req, Request, ReadOps
<1>3. \A k \in 1..5 : k = 1 \/ k = 2 \/ k = 3 \/ k = 4 \/ k = 5
  OBVIOUS
<1>. QED
  BY <1>1, <1>2, <1>3 DEF ReadOps

DashboardOps == TaskOps \cup {"create", "submit", "add"} \cup ReadOps

LEMMA HeadOfSingle == ASSUME NEW r PROVE <<r>> # <<>> /\ Head(<<r>>) = r /\ Tail(<<r>>) = <<>>
OBVIOUS

LEMMA ProgramHead ==
  ASSUME NEW c \in Callers, NEW p \in ProgramsOf(c), p # <<>>
  PROVE  /\ Head(p) \in Request
         /\ c \notin Shells => Head(p).op \in DashboardOps
         /\ c \notin Shells /\ Head(p).op \in ReadOps =>
              \E k \in 1..5 : p = FetchFrom[k] /\ Head(p) = Fetch[k]
<1>1. CASE c \in Shells
  <2>1. PICK r \in Request : p = <<r>>
    BY <1>1 DEF ProgramsOf
  <2>. QED
    BY <1>1, <2>1, HeadOfSingle
<1>2. CASE c \notin Shells /\ \E r \in Single : p = <<r>>
  <2>1. PICK r \in Single : p = <<r>>
    BY <1>2
  <2>2. r \in Request /\ r.op \in DashboardOps /\ r.op \notin ReadOps
    BY DEF Single, DashboardOps, TaskOps, ReadOps
  <2>. QED
    BY <1>2, <2>1, <2>2, HeadOfSingle
<1>3. CASE c \notin Shells /\ \E k \in 1..5 : p = FetchFrom[k]
  <2>1. PICK k \in 1..5 : p = FetchFrom[k]
    BY <1>3
  <2>2. k = 1 \/ k = 2 \/ k = 3 \/ k = 4 \/ k = 5
    OBVIOUS
  <2>3. Head(p) = Fetch[k]
    BY <2>1, <2>2, RefreshParts
  <2>4. Head(p) \in Request /\ Head(p).op \in ReadOps
    BY <2>3, FetchOps
  <2>. QED
    BY <1>3, <2>1, <2>3, <2>4 DEF DashboardOps
<1>. QED
  BY <1>1, <1>2, <1>3 DEF ProgramsOf

(* A dialled connection.                                                   *)
LEMMA DialledOK ==
  ASSUME NEW c \in Callers, NEW p \in ProgramsOf(c), serving \in BOOLEAN,
         conn'[c] = Dialled(p), program'[c] = p, serving' = serving
  PROVE  ConnOK(c)'
<1>1. Closed = [phase |-> "closed", request |-> Req("info", Nothing), answer |-> NoAnswer, ran |-> 0,
                changed |-> FALSE, user |-> TRUE]
  BY DEF Closed
<1>2. Req("info", Nothing) \in Request
  BY DEF Req, Request, ReadOps
<1>3. CASE p = <<>>
  <2>1. conn'[c] = Closed
    BY <1>3 DEF Dialled
  <2>. QED
    BY <1>1, <1>2, <1>3, <2>1 DEF ConnOK, Phase
<1>4. CASE p # <<>>
  <2>1. PICK phase \in {"sent", "broken"} :
          conn'[c] = [Closed EXCEPT !.phase = phase, !.request = Head(p)] /\ (phase = "sent" => serving)
    BY <1>4 DEF Dialled
  <2>2. conn'[c] = [phase |-> phase, request |-> Head(p), answer |-> NoAnswer, ran |-> 0, changed |-> FALSE,
                    user |-> TRUE]
    BY <1>1, <2>1
  <2>3. Head(p) \in Request
    BY <1>4, ProgramHead
  <2>4. /\ conn'[c].phase = phase /\ conn'[c].request = Head(p) /\ conn'[c].answer = NoAnswer
        /\ conn'[c].ran = 0 /\ conn'[c].changed = FALSE /\ conn'[c].user = TRUE
    BY <2>2
  <2>5. phase # "closed" /\ phase # "answered"
    BY <2>1
  <2>. QED
    BY <1>4, <2>1, <2>2, <2>3, <2>4, <2>5 DEF ConnOK, Phase
<1>. QED
  BY <1>3, <1>4

-----------------------------------------------------------------------------
(* The end of a call.                                                      *)

LEMMA ResultIs ==
  ASSUME NEW c \in Callers, NEW arrived \in BOOLEAN
  PROVE  /\ Result(c, arrived) \in {"interrupted", "failed", "error", "ok"}
         /\ Result(c, arrived) \in {"error", "ok"} => arrived
         /\ Result(c, arrived) = "error" => conn[c].answer.kind = "Error"
         /\ Result(c, arrived) = "ok" /\ conn[c].answer.kind = "Error" => ~Heeds(c, conn[c].request.op)
BY DEF Result

LEMMA OnwardOK ==
  ASSUME NEW c \in Callers, ConnOK(c), ~Phase(c, "closed"), NEW arrived \in BOOLEAN,
         arrived => Phase(c, "answered")
  PROVE  Onward(c, Result(c, arrived)) \in ProgramsOf(c)
<1>. DEFINE p == Onward(c, Result(c, arrived))
            op == conn[c].request.op
<1>. USE DEF ProgramsOf
<1>1. CASE c \in Shells
  <2>1. p = <<>>
    BY <1>1 DEF Onward
  <2>. QED
    BY <2>1
<1>2. CASE c \notin Shells
  <2>1. /\ program[c] # <<>> /\ program[c] \in ProgramsOf(c) /\ conn[c].request = Head(program[c])
        /\ conn[c].request \in Request
    BY DEF ConnOK
  <2>2. op \in DashboardOps
    BY <1>2, <2>1, ProgramHead
  <2>3. <<>> \in ProgramsOf(c) /\ Fetch \in ProgramsOf(c)
    BY <1>2, RefreshParts
  <2>4. \A r \in Single : <<r>> \in ProgramsOf(c)
    BY <1>2
  <2>. HIDE DEF ProgramsOf
  <2>5. CASE op = "create"
    <3>1. p = IF Result(c, arrived) = "ok" THEN <<Req("start", conn[c].answer.data)>> ELSE <<>>
      BY <1>2, <2>5 DEF Onward, ReadOps
    <3>2. CASE Result(c, arrived) = "ok"
      <4>1. Phase(c, "answered") /\ conn[c].answer.kind # "Error"
        BY <2>5, <3>2, ResultIs DEF Heeds
      <4>2. conn[c].answer.data \in Ids
        BY <2>5, <4>1 DEF ConnOK, AnswerOK
      <4>3. Req("start", conn[c].answer.data) \in Single
        BY <4>2 DEF Req, Single, Request, TaskOps
      <4>. QED
        BY <2>4, <3>1, <3>2, <4>3
    <3>. QED
      BY <2>3, <3>1, <3>2
  <2>6. CASE op = "start"
    <3>1. p = IF Result(c, arrived) = "ok" THEN Fetch ELSE <<Req("restart", conn[c].request.arg)>>
      BY <1>2, <2>6 DEF Onward, ReadOps
    <3>2. conn[c].request.arg \in Ids
      BY <2>1, <2>6 DEF Request, ReadOps
    <3>3. Req("restart", conn[c].request.arg) \in Single
      BY <3>2 DEF Req, Single, Request, TaskOps
    <3>. QED
      BY <2>3, <2>4, <3>1, <3>3
  <2>7. CASE op = "restart"
    <3>1. p = Fetch
      BY <1>2, <2>7 DEF Onward, ReadOps
    <3>. QED
      BY <2>3, <3>1
  <2>8. CASE op \in {"submit", "add", "terminate", "forget"}
    <3>1. p = Fetch \/ p = <<>>
      BY <1>2, <2>8 DEF Onward, ReadOps
    <3>. QED
      BY <2>3, <3>1
  <2>9. CASE op \in ReadOps
    <3>1. p = Tail(program[c]) \/ p = <<>>
      BY <1>2, <2>9 DEF Onward, ReadOps
    <3>2. PICK k \in 1..5 : program[c] = FetchFrom[k]
      BY <1>2, <2>1, <2>9, ProgramHead
    <3>4. Tail(program[c]) = <<>> \/ \E j \in 1..5 : Tail(program[c]) = FetchFrom[j]
      BY <3>2, NextPart
    <3>5. \A j \in 1..5 : FetchFrom[j] \in ProgramsOf(c)
      BY <1>2 DEF ProgramsOf
    <3>. QED
      BY <2>3, <3>1, <3>4, <3>5
  <2>. QED
    BY <2>2, <2>5, <2>6, <2>7, <2>8, <2>9 DEF DashboardOps, TaskOps
<1>. QED
  BY <1>1, <1>2

LEMMA TellsOK ==
  ASSUME NEW c \in Callers, ConnOK(c), ~Phase(c, "closed"), NEW arrived \in BOOLEAN,
         arrived => Phase(c, "answered"), DOMAIN told = Callers, EndCall(c, arrived)
  PROVE  ToldOK(c)'
<1>. DEFINE op == conn[c].request.op
            result == Result(c, arrived)
<1>1. told'[c] = [op |-> op, kind |-> conn[c].answer.kind, ran |-> conn[c].ran,
                  changed |-> conn[c].changed, result |-> result]
  BY DEF EndCall
<1>2. PICK t : t = told'[c]
  OBVIOUS
<1>3. /\ t.op = op /\ t.kind = conn[c].answer.kind /\ t.ran = conn[c].ran
      /\ t.changed = conn[c].changed /\ t.result = result
  BY <1>1, <1>2
<1>4. conn[c].ran \in {0, 1} /\ (result \in {"ok", "error"} => conn[c].ran = 1)
  BY ResultIs DEF ConnOK
<1>5. result = "error" /\ conn[c].changed => op \in {"restart", "forget"}
  BY ResultIs DEF ConnOK, AnswerOK
<1>6. result = "ok" /\ conn[c].answer.kind = "Error" => op \in {"add", "submit"}
  <2>. SUFFICES ASSUME result = "ok", conn[c].answer.kind = "Error" PROVE op \in {"add", "submit"}
    OBVIOUS
  <2>1. c \notin Shells /\ op \notin TaskOps \cup {"create"}
    BY ResultIs DEF Heeds
  <2>2. op \in DashboardOps
    BY <2>1, ProgramHead DEF ConnOK
  <2>3. op \notin ReadOps
    BY ResultIs DEF ConnOK, AnswerOK, ReadOps
  <2>. QED
    BY <2>1, <2>2, <2>3 DEF DashboardOps
<1>. HIDE DEF op, result
<1>. QED
  BY <1>2, <1>3, <1>4, <1>5, <1>6 DEF ToldOK

-----------------------------------------------------------------------------
(* The steps.                                                              *)

LEMMA GrowsTo ==
  ASSUME NEW b \in Nat, NEW S \in SUBSET (1..(b + 1))
  PROVE  Max({b} \cup S) = IF b + 1 \in S THEN b + 1 ELSE b
<1>. DEFINE m == IF b + 1 \in S THEN b + 1 ELSE b
            T == {b} \cup S
<1>1. m \in T /\ \A y \in T : m >= y
  OBVIOUS
<1>2. T \subseteq 0..(b + 1)
  OBVIOUS
<1>3. \A x \in T : (\A y \in T : x >= y) => x = m
  <2>. HIDE DEF T
  <2>. QED
    BY <1>1, <1>2
<1>. HIDE DEF m, T
<1>4. Max(T) = m
  BY <1>1, <1>3 DEF Max
<1>. QED
  BY <1>4 DEF m, T

(* What was promised and answered stays so while the tables only grow, or  *)
(* lose what is dropped.                                                   *)
Keeping ==
  /\ DOMAIN store.tasks \cup dropped \subseteq DOMAIN store'.tasks \cup dropped'
  /\ version \in Nat /\ version' \in Nat /\ version <= version'

LEMMA ConnStays ==
  ASSUME NEW c \in Callers, ConnOK(c), Keeping, conn'[c] = conn[c], program'[c] = program[c],
         serving => serving'
  PROVE  ConnOK(c)'
<1>1. AnswerOK(c) => AnswerOK(c)'
  BY DEF AnswerOK, Keeping
<1>2. \A p : Phase(c, p)' <=> Phase(c, p)
  BY DEF Phase
<1>3. ProgramsOf(c)' = ProgramsOf(c)
  BY DEF ProgramsOf
<1>. QED
  BY <1>1, <1>2, <1>3 DEF ConnOK

LEMMA ToldStays == ASSUME NEW c, ToldOK(c), told'[c] = told[c] PROVE ToldOK(c)'
BY DEF ToldOK

LEMMA HandleKeeps == ASSUME CallInv, NEW c \in Callers, Handle(c) PROVE CallInv'
<1>1. PICK refused \in SUBSET {"row", "event"} :
        /\ faults + Cardinality(refused) <= MaxFaults
        /\ conn[c].request.op \in {"create", "submit"} => born < MaxTasks
        /\ \E o \in HandlerOutcomes(conn[c].request, refused) :
             /\ daemon' = o.daemon /\ store' = o.store
             /\ version' = IF <<o.daemon, o.store>> = <<daemon, store>> THEN version ELSE version + 1
             /\ conn' = [conn EXCEPT ![c].phase = "answered", ![c].answer = o.answer,
                                     ![c].ran = @ + 1, ![c].changed = <<o.daemon, o.store>> # <<daemon, store>>]
             /\ born' = Max({born} \cup DOMAIN o.daemon.tasks)
             /\ dropped' = dropped \cup (DOMAIN daemon.tasks \ DOMAIN o.daemon.tasks)
             /\ unlogged' = unlogged \cup
                  (IF "event" \in refused THEN DOMAIN o.daemon.tasks \ DOMAIN daemon.tasks ELSE {})
        /\ faults' = faults + Cardinality(refused)
  BY DEF Handle
<1>2. PICK o \in HandlerOutcomes(conn[c].request, refused) :
        /\ daemon' = o.daemon /\ store' = o.store
        /\ version' = IF <<o.daemon, o.store>> = <<daemon, store>> THEN version ELSE version + 1
        /\ conn' = [conn EXCEPT ![c].phase = "answered", ![c].answer = o.answer,
                                ![c].ran = @ + 1, ![c].changed = <<o.daemon, o.store>> # <<daemon, store>>]
        /\ born' = Max({born} \cup DOMAIN o.daemon.tasks)
        /\ dropped' = dropped \cup (DOMAIN daemon.tasks \ DOMAIN o.daemon.tasks)
        /\ unlogged' = unlogged \cup
             (IF "event" \in refused THEN DOMAIN o.daemon.tasks \ DOMAIN daemon.tasks ELSE {})
  BY <1>1
<1>3. /\ UNCHANGED <<serving, clientVars, promised, actions>> /\ serving
      /\ Phase(c, "sent") /\ conn[c].request.op # "oversized"
      /\ program' = program /\ told' = told
  BY DEF Handle, clientVars
<1>4. OutcomeOK(conn[c].request.op, refused, o)
  <2>1. Ground /\ conn[c].request \in Request /\ born \in Nat
    BY DEF CallInv, ConnOK, Ground
  <2>. QED
    BY <1>1, <1>3, <2>1, HandlersOK
<1>5. /\ born' = IF born + 1 \in DOMAIN o.daemon.tasks THEN born + 1 ELSE born
      /\ born' \in 0..MaxTasks /\ born \in Nat
      /\ DOMAIN daemon'.tasks \cup DOMAIN store'.tasks \subseteq 1..born'
  <2>1. DOMAIN o.daemon.tasks \subseteq 1..(born + 1) /\ born \in Nat /\ born \in 0..MaxTasks
    BY <1>4 DEF OutcomeOK, TasksAfter, TasksBefore, CallInv
  <2>2. born' = IF born + 1 \in DOMAIN o.daemon.tasks THEN born + 1 ELSE born
    BY <1>2, <2>1, GrowsTo
  <2>3. DOMAIN o.daemon.tasks \subseteq 1..MaxTasks
    BY <1>4 DEF OutcomeOK, MemoryOK, Ids
  <2>4. DOMAIN o.store.tasks \subseteq 1..born'
    BY <1>4, <2>1, <2>2 DEF OutcomeOK, CallInv
  <2>5. DOMAIN o.daemon.tasks \subseteq 1..born'
    BY <2>1, <2>2
  <2>6. born' \in 0..MaxTasks
    BY <2>1, <2>2, <2>3, ProtocolAssumption
  <2>. QED
    BY <1>2, <2>1, <2>2, <2>4, <2>5, <2>6
<1>6. Keeping
  BY <1>2, <1>4 DEF Keeping, CallInv, OutcomeOK
<1>7. ConnOK(c)'
  <2>1. /\ conn[c] = [phase |-> conn[c].phase, request |-> conn[c].request, answer |-> conn[c].answer,
                      ran |-> conn[c].ran, changed |-> conn[c].changed, user |-> conn[c].user]
        /\ c \in DOMAIN conn /\ conn[c].ran = 0 /\ conn[c].request \in Request
        /\ program[c] \in ProgramsOf(c) /\ program[c] # <<>> /\ conn[c].request = Head(program[c])
    BY <1>3 DEF CallInv, ConnOK, Phase
  <2>. DEFINE changed == <<o.daemon, o.store>> # <<daemon, store>>
  <2>7. conn' = [conn EXCEPT ![c].phase = "answered", ![c].answer = o.answer,
                             ![c].ran = @ + 1, ![c].changed = changed]
    BY <1>2
  <2>3. changed <=> ~Unchanging(o)
    BY DEF Unchanging
  <2>. HIDE DEF changed
  <2>8. conn'[c] = [conn[c] EXCEPT !.phase = "answered", !.answer = o.answer, !.ran = 0 + 1, !.changed = changed]
    BY <2>1, <2>7
  <2>2. conn'[c] = [phase |-> "answered", request |-> conn[c].request, answer |-> o.answer,
                    ran |-> 1, changed |-> changed, user |-> conn[c].user]
    <3>1. PICK x : x = conn[c]
      OBVIOUS
    <3>2. x = [phase |-> x.phase, request |-> x.request, answer |-> x.answer, ran |-> x.ran,
               changed |-> x.changed, user |-> x.user]
      BY <2>1, <3>1
    <3>. DEFINE y == [x EXCEPT !.phase = "answered"]
                z == [y EXCEPT !.answer = o.answer]
                w == [z EXCEPT !.ran = 0 + 1]
                v == [w EXCEPT !.changed = changed]
    <3>3. conn'[c] = v
      BY <2>8, <3>1
    <3>4. y = [phase |-> "answered", request |-> x.request, answer |-> x.answer, ran |-> x.ran,
               changed |-> x.changed, user |-> x.user]
      BY <3>2
    <3>. HIDE DEF y
    <3>5. z = [phase |-> "answered", request |-> x.request, answer |-> o.answer, ran |-> x.ran,
               changed |-> x.changed, user |-> x.user]
      BY <3>4
    <3>. HIDE DEF z
    <3>6. w = [phase |-> "answered", request |-> x.request, answer |-> o.answer, ran |-> 1,
               changed |-> x.changed, user |-> x.user]
      BY <3>5
    <3>. HIDE DEF w
    <3>7. v = [phase |-> "answered", request |-> x.request, answer |-> o.answer, ran |-> 1,
               changed |-> changed, user |-> x.user]
      BY <3>6
    <3>. QED
      BY <3>1, <3>3, <3>7
  <2>4. /\ conn'[c].phase = "answered" /\ conn'[c].request = conn[c].request
        /\ conn'[c].answer = o.answer /\ conn'[c].ran = 1 /\ conn'[c].changed = changed
        /\ conn'[c].user = conn[c].user
    BY <2>2
  <2>5. AnswerOK(c)'
    <3>1. o.answer.kind = "Error" /\ changed => conn[c].request.op \in {"restart", "forget"}
      BY <1>4, <2>3 DEF OutcomeOK
    <3>2. conn[c].request.op \in ReadOps => o.answer.kind = conn[c].request.op
      BY <1>4 DEF OutcomeOK
    <3>3. conn[c].request.op \in {"create", "submit"} /\ o.answer.kind # "Error" =>
            /\ o.answer.kind = "Task" /\ o.answer.data \in Ids
            /\ o.answer.data \in DOMAIN store'.tasks \cup dropped'
      BY <1>2, <1>4 DEF OutcomeOK, TablesOK
    <3>4. o.answer.at \in Nat /\ o.answer.at <= version'
      BY <1>4, <1>6 DEF OutcomeOK, Keeping
    <3>. QED
      BY <2>4, <3>1, <3>2, <3>3, <3>4 DEF AnswerOK
  <2>6. program'[c] = program[c] /\ ProgramsOf(c)' = ProgramsOf(c)
    BY <1>3 DEF ProgramsOf
  <2>. QED
    BY <1>3, <2>1, <2>2, <2>4, <2>5, <2>6 DEF ConnOK, Phase
<1>8. \A d \in Callers : ConnOK(d)' /\ ToldOK(d)'
  <2>. SUFFICES ASSUME NEW d \in Callers PROVE ConnOK(d)' /\ ToldOK(d)'
    OBVIOUS
  <2>1. ToldOK(d)'
    BY <1>3, ToldStays DEF CallInv
  <2>2. d # c => conn'[d] = conn[d]
    BY <1>2 DEF CallInv
  <2>. QED
    BY <1>3, <1>6, <1>7, <2>1, <2>2, ConnStays DEF CallInv
<1>9. AllLogged'
  <2>. SUFFICES ASSUME NEW id \in (DOMAIN daemon'.tasks \cup DOMAIN store'.tasks) \ unlogged'
                PROVE  Logged(store', id)
    BY DEF AllLogged
  <2>1. id \in TasksAfter(o) /\ id \notin unlogged
    BY <1>2 DEF TasksAfter
  <2>2. CASE id \in TasksBefore
    BY <1>2, <1>4, <2>1, <2>2 DEF CallInv, AllLogged, TasksBefore, Logged, OutcomeOK
  <2>3. CASE id \notin TasksBefore
    BY <1>2, <1>4, <2>1, <2>3 DEF OutcomeOK
  <2>. QED
    BY <2>2, <2>3
<1>10. faults' \in 0..MaxFaults
  <2>1. IsFiniteSet({"row"} \cup {"event"})
    BY FS_Singleton, FS_AddElement
  <2>2. refused \subseteq {"row"} \cup {"event"}
    OBVIOUS
  <2>3. Cardinality(refused) \in Nat
    BY <2>1, <2>2, FS_Subset, FS_CardinalityType
  <2>. QED
    BY <1>1, <2>3, ProtocolAssumption DEF CallInv
<1>11. /\ MemoryOK(daemon') /\ TablesOK(store') /\ dropped' \subseteq Ids
       /\ promised' \subseteq DOMAIN store'.tasks \cup dropped' /\ promised' \subseteq Ids
       /\ version' \in Nat /\ actions' \in 0..MaxActions
       /\ DOMAIN conn' = Callers /\ DOMAIN program' = Callers /\ DOMAIN told' = Callers
  BY <1>2, <1>3, <1>4, <1>6 DEF CallInv, OutcomeOK, Keeping, MemoryOK
<1>. QED
  BY <1>3, <1>5, <1>8, <1>9, <1>10, <1>11 DEF CallInv

(* A step of one client that leaves the daemon as it is.                   *)
LEMMA ClientKeeps ==
  ASSUME CallInv, NEW c \in Callers, ConnOK(c)', ToldOK(c)',
         UNCHANGED <<serving, daemon, store, version, dropped, unlogged, born>>,
         DOMAIN conn' = Callers, DOMAIN program' = Callers, DOMAIN told' = Callers,
         \A d \in Callers \ {c} : conn'[d] = conn[d] /\ program'[d] = program[d] /\ told'[d] = told[d],
         promised' \subseteq DOMAIN store.tasks \cup dropped, promised' \subseteq Ids,
         actions' \in 0..MaxActions, faults' \in 0..MaxFaults
  PROVE  CallInv'
<1>1. Keeping
  BY DEF Keeping, CallInv
<1>2. ASSUME NEW d \in Callers PROVE ConnOK(d)' /\ ToldOK(d)'
  <2>1. CASE d = c
    BY <2>1
  <2>2. CASE d # c
    <3>1. conn'[d] = conn[d] /\ program'[d] = program[d] /\ told'[d] = told[d]
      BY <2>2 DEF CallInv
    <3>. QED
      BY <1>1, <3>1, ConnStays, ToldStays DEF CallInv
  <2>. QED
    BY <2>1, <2>2
<1>3. AllLogged'
  BY DEF CallInv, AllLogged, Logged
<1>. QED
  BY <1>2, <1>3 DEF CallInv

LEMMA RejectKeeps == ASSUME CallInv, NEW c \in Callers, RejectOversized(c) PROVE CallInv'
<1>1. /\ conn' = [conn EXCEPT ![c].phase = "broken"] /\ Phase(c, "sent")
      /\ UNCHANGED <<serving, daemon, store, version, dropped, unlogged, born, actions, faults, promised,
                     program, told>>
  BY DEF RejectOversized, clientVars, historyVars
<1>2. c \in DOMAIN conn /\ c \in DOMAIN program /\ c \in DOMAIN told /\ ConnOK(c) /\ ToldOK(c)
  BY DEF CallInv
<1>3. conn'[c] = [phase |-> "broken", request |-> conn[c].request, answer |-> conn[c].answer,
                  ran |-> conn[c].ran, changed |-> conn[c].changed, user |-> conn[c].user]
  BY <1>1, <1>2 DEF ConnOK
<1>4. ConnOK(c)'
  <2>1. program'[c] = program[c] /\ ProgramsOf(c)' = ProgramsOf(c)
    BY <1>1 DEF ProgramsOf
  <2>. QED
    BY <1>1, <1>2, <1>3, <2>1 DEF ConnOK, Phase
<1>5. ToldOK(c)'
  BY <1>1, <1>2, ToldStays
<1>6. DOMAIN conn' = Callers /\ \A d \in Callers \ {c} : conn'[d] = conn[d]
  BY <1>1 DEF CallInv
<1>. QED
  BY <1>1, <1>4, <1>5, <1>6, ClientKeeps DEF CallInv

LEMMA InterruptKeeps == ASSUME CallInv, NEW c \in Callers, Interrupt(c) PROVE CallInv'
<1>1. PICK whole \in BOOLEAN :
        conn' = [conn EXCEPT ![c].user = FALSE, ![c].phase = IF whole THEN @ ELSE "broken"]
  BY DEF Interrupt
<1>2. /\ Phase(c, "sent") /\ faults < MaxFaults /\ faults' = faults + 1
      /\ UNCHANGED <<serving, daemon, store, version, dropped, unlogged, born, actions, promised,
                     program, told>>
  BY DEF Interrupt, clientVars, historyVars
<1>3. c \in DOMAIN conn /\ c \in DOMAIN program /\ c \in DOMAIN told /\ ConnOK(c) /\ ToldOK(c)
  BY DEF CallInv
<1>. DEFINE left == IF whole THEN "sent" ELSE "broken"
<1>13. PICK u : u = FALSE
  OBVIOUS
<1>. DEFINE x == [conn[c] EXCEPT !.user = u]
            y == [x EXCEPT !.phase = left]
<1>14. conn[c] = [phase |-> conn[c].phase, request |-> conn[c].request, answer |-> conn[c].answer,
                 ran |-> conn[c].ran, changed |-> conn[c].changed, user |-> conn[c].user]
  BY <1>3 DEF ConnOK
<1>4. conn' = [conn EXCEPT ![c] = y]
  BY <1>1, <1>2, <1>3, <1>13 DEF Phase
<1>5. x = [phase |-> conn[c].phase, request |-> conn[c].request, answer |-> conn[c].answer,
           ran |-> conn[c].ran, changed |-> conn[c].changed, user |-> u]
  BY <1>14
<1>. HIDE DEF x
<1>6. left \in {"sent", "broken"} /\ left # "closed" /\ left # "answered"
  OBVIOUS
<1>. HIDE DEF left
<1>7. y = [phase |-> left, request |-> conn[c].request, answer |-> conn[c].answer,
           ran |-> conn[c].ran, changed |-> conn[c].changed, user |-> u]
  BY <1>5
<1>. HIDE DEF y
<1>8. conn'[c] = y
  BY <1>3, <1>4
<1>9. ConnOK(c)'
  <2>1. program'[c] = program[c] /\ ProgramsOf(c)' = ProgramsOf(c)
    BY <1>2 DEF ProgramsOf
  <2>. QED
    BY <1>2, <1>3, <1>6, <1>7, <1>8, <2>1 DEF ConnOK, Phase
<1>10. ToldOK(c)'
  BY <1>2, <1>3, ToldStays
<1>11. DOMAIN conn' = Callers /\ \A d \in Callers \ {c} : conn'[d] = conn[d]
  BY <1>4 DEF CallInv
<1>12. faults' \in 0..MaxFaults
  BY <1>2, ProtocolAssumption DEF CallInv
<1>. QED
  BY <1>2, <1>4, <1>9, <1>10, <1>11, <1>12, ClientKeeps DEF CallInv

LEMMA AsksKeeps == ASSUME CallInv, NEW c \in Callers, Asks(c) PROVE CallInv'
<1>1. PICK p \in IF c \in Shells THEN AskedByShell ELSE AskedByDashboard :
        /\ program' = [program EXCEPT ![c] = p]
        /\ conn' = [conn EXCEPT ![c] = Dialled(p)]
  BY DEF Asks
<1>2. /\ told' = [told EXCEPT ![c] = NoneTold] /\ actions < MaxActions /\ actions' = actions + 1
      /\ UNCHANGED <<serving, daemon, store, version, dropped, unlogged, born, faults, promised>>
  BY DEF Asks, historyVars
<1>3. c \in DOMAIN conn /\ c \in DOMAIN program /\ c \in DOMAIN told
  BY DEF CallInv
<1>4. p \in ProgramsOf(c)
  <2>1. CASE c \in Shells
    BY <1>1, <2>1 DEF AskedByShell, ProgramsOf
  <2>2. CASE c \notin Shells
    <3>1. CASE p = Fetch
      BY <2>2, <3>1, RefreshParts DEF ProgramsOf
    <3>2. CASE p # Fetch
      <4>1. PICK r \in [op : {"create", "submit", "add"}, arg : Repos \cup {Nothing}] \cup
                       [op : {"start", "terminate", "forget"}, arg : 1..born] : p = <<r>>
        BY <1>1, <2>2, <3>2 DEF AskedByDashboard
      <4>2. 1..born \subseteq Ids
        BY ProtocolAssumption DEF CallInv, Ids
      <4>3. r \in Single
        BY <4>2 DEF Single, Request, TaskOps
      <4>. QED
        BY <2>2, <4>1, <4>3 DEF ProgramsOf
    <3>. QED
      BY <3>1, <3>2
  <2>. QED
    BY <2>1, <2>2
<1>5. ConnOK(c)'
  <2>1. conn'[c] = Dialled(p) /\ program'[c] = p
    BY <1>1, <1>3
  <2>2. serving \in BOOLEAN
    BY DEF CallInv
  <2>. QED
    BY <1>2, <1>4, <2>1, <2>2, DialledOK
<1>6. ToldOK(c)'
  <2>1. told'[c] = NoneTold
    BY <1>2, <1>3
  <2>. QED
    BY <2>1 DEF ToldOK, NoneTold
<1>7. actions' \in 0..MaxActions
  BY <1>2, ProtocolAssumption DEF CallInv
<1>8. /\ DOMAIN conn' = Callers /\ DOMAIN program' = Callers /\ DOMAIN told' = Callers
      /\ \A d \in Callers \ {c} : conn'[d] = conn[d] /\ program'[d] = program[d] /\ told'[d] = told[d]
  BY <1>1, <1>2 DEF CallInv
<1>. QED
  BY <1>2, <1>5, <1>6, <1>7, <1>8, ClientKeeps DEF CallInv

LEMMA EndKeeps ==
  ASSUME CallInv, NEW c \in Callers, NEW arrived \in BOOLEAN, EndCall(c, arrived),
         ~Phase(c, "closed"), arrived => Phase(c, "answered")
  PROVE  CallInv'
<1>. DEFINE p == Onward(c, Result(c, arrived))
            t == [op |-> conn[c].request.op, kind |-> conn[c].answer.kind, ran |-> conn[c].ran,
                  changed |-> conn[c].changed, result |-> Result(c, arrived)]
<1>1. /\ told' = [told EXCEPT ![c] = t]
      /\ program' = [program EXCEPT ![c] = p]
      /\ conn' = [conn EXCEPT ![c] = Dialled(program'[c])]
      /\ promised' = IF Result(c, arrived) \in {"ok", "error"} /\ conn[c].answer.kind = "Task"
                        /\ conn[c].request.op \in {"create", "submit"}
                       THEN promised \cup {conn[c].answer.data} ELSE promised
      /\ UNCHANGED <<serving, daemon, store, version, dropped, unlogged, born, actions, faults>>
  BY DEF EndCall
<1>2. c \in DOMAIN conn /\ c \in DOMAIN program /\ c \in DOMAIN told /\ ConnOK(c)
  BY DEF CallInv
<1>3. p \in ProgramsOf(c)
  BY <1>2, OnwardOK
<1>. HIDE DEF p, t
<1>4. ConnOK(c)'
  <2>1. program'[c] = p
    BY <1>1, <1>2
  <2>2. conn'[c] = Dialled(p)
    BY <1>1, <1>2, <2>1
  <2>3. serving \in BOOLEAN
    BY DEF CallInv
  <2>. QED
    BY <1>1, <1>3, <2>1, <2>2, <2>3, DialledOK
<1>5. ToldOK(c)'
  BY <1>2, TellsOK DEF CallInv
<1>6. promised' \subseteq DOMAIN store.tasks \cup dropped /\ promised' \subseteq Ids
  <2>1. CASE promised' = promised
    BY <2>1 DEF CallInv
  <2>2. CASE promised' # promised
    <3>1. /\ Result(c, arrived) \in {"ok", "error"} /\ conn[c].answer.kind = "Task"
          /\ conn[c].request.op \in {"create", "submit"} /\ promised' = promised \cup {conn[c].answer.data}
      BY <1>1, <2>2
    <3>2. AnswerOK(c)
      BY <1>2, <3>1, ResultIs DEF ConnOK
    <3>3. conn[c].answer.data \in Ids /\ conn[c].answer.data \in DOMAIN store.tasks \cup dropped
      BY <3>1, <3>2 DEF AnswerOK
    <3>. QED
      BY <3>1, <3>3 DEF CallInv
  <2>. QED
    BY <2>1, <2>2
<1>7. /\ DOMAIN conn' = Callers /\ DOMAIN program' = Callers /\ DOMAIN told' = Callers
      /\ \A d \in Callers \ {c} : conn'[d] = conn[d] /\ program'[d] = program[d] /\ told'[d] = told[d]
  BY <1>1 DEF CallInv
<1>. QED
  BY <1>1, <1>4, <1>5, <1>6, <1>7, ClientKeeps DEF CallInv

LEMMA DiesKeeps == ASSUME CallInv, DaemonDies PROVE CallInv'
<1>1. PICK unwritten \in SUBSET {c \in Callers : Phase(c, "answered")} :
        conn' = [c \in Callers |->
                   IF Phase(c, "sent") \/ c \in unwritten
                     THEN [conn[c] EXCEPT !.phase = "broken"] ELSE conn[c]]
  BY DEF DaemonDies
<1>2. /\ faults < MaxFaults /\ faults' = faults + 1 /\ serving' = FALSE
      /\ UNCHANGED <<daemon, store, version, dropped, unlogged, born, actions, promised, program, told>>
  BY DEF DaemonDies, clientVars, historyVars
<1>3. Keeping
  BY <1>2 DEF Keeping, CallInv
<1>4. ASSUME NEW c \in Callers PROVE ConnOK(c)' /\ ToldOK(c)'
  <2>1. ConnOK(c) /\ program'[c] = program[c] /\ ProgramsOf(c)' = ProgramsOf(c)
    BY <1>2 DEF CallInv, ProgramsOf
  <2>2. CASE Phase(c, "sent") \/ c \in unwritten
    <3>1. Phase(c, "sent") \/ Phase(c, "answered")
      BY <2>2
    <3>2. conn'[c] = [phase |-> "broken", request |-> conn[c].request, answer |-> conn[c].answer,
                      ran |-> conn[c].ran, changed |-> conn[c].changed, user |-> conn[c].user]
      BY <1>1, <2>1, <2>2 DEF ConnOK
    <3>3. ConnOK(c)'
      BY <2>1, <3>1, <3>2 DEF ConnOK, Phase
    <3>. QED
      BY <1>2, <3>3, ToldStays DEF CallInv
  <2>3. CASE ~(Phase(c, "sent") \/ c \in unwritten)
    <3>1. conn'[c] = conn[c] /\ ~Phase(c, "sent")
      BY <1>1, <2>3
    <3>2. AnswerOK(c) => AnswerOK(c)'
      BY <1>3, <3>1 DEF AnswerOK, Keeping
    <3>3. ConnOK(c)'
      BY <2>1, <3>1, <3>2 DEF ConnOK, Phase
    <3>. QED
      BY <1>2, <3>3, ToldStays DEF CallInv
  <2>. QED
    BY <2>2, <2>3
<1>5. AllLogged'
  BY <1>2 DEF CallInv, AllLogged, Logged
<1>6. faults' \in 0..MaxFaults /\ DOMAIN conn' = Callers
  BY <1>1, <1>2, ProtocolAssumption DEF CallInv
<1>. QED
  BY <1>2, <1>4, <1>5, <1>6 DEF CallInv

(* The daemon alone acts: its tables keep their tasks and their log.       *)
LEMMA DaemonKeeps ==
  ASSUME CallInv, MemoryOK(daemon'), TablesOK(store'), serving' = TRUE,
         DOMAIN store'.tasks = DOMAIN store.tasks,
         DOMAIN daemon'.tasks \subseteq DOMAIN daemon.tasks \cup DOMAIN store.tasks,
         Range(store.events) \subseteq Range(store'.events),
         version' = version + 1, UNCHANGED <<conn, clientVars, historyVars, born, actions, faults>>
  PROVE  CallInv'
<1>1. UNCHANGED <<program, told, promised, dropped, unlogged>>
  BY DEF clientVars, historyVars
<1>2. Keeping
  BY <1>1 DEF Keeping, CallInv
<1>3. \A c \in Callers : ConnOK(c)' /\ ToldOK(c)'
  BY <1>1, <1>2, ConnStays, ToldStays DEF CallInv
<1>4. AllLogged'
  BY <1>1 DEF CallInv, AllLogged, Logged
<1>5. version' \in Nat
  BY DEF CallInv
<1>. QED
  BY <1>1, <1>3, <1>4, <1>5 DEF CallInv

LEMMA ServeKeeps == ASSUME CallInv, Serve PROVE CallInv'
<1>1. /\ daemon' = [tasks |-> store.tasks, live |-> {}, pending |-> {}, folders |-> store.folders]
      /\ version' = version + 1 /\ serving'
      /\ UNCHANGED <<store, conn, clientVars, historyVars, born, actions, faults>>
  BY DEF Serve
<1>2. MemoryOK(daemon')
  BY <1>1 DEF CallInv, MemoryOK, TablesOK
<1>. QED
  BY <1>1, <1>2, DaemonKeeps DEF CallInv

LEMMA PumpsKeeps == ASSUME CallInv, Pumps PROVE CallInv'
<1>. DEFINE exit(id) == Moved(daemon, Log(store, <<"process_exited", id>>, {}), id,
                              TerminateWalk(daemon.tasks[id].state))
<1>1. PICK m \in {exit(id) : id \in daemon.live} \cup Admits(daemon, store, {}) :
        daemon' = m.d /\ store' = m.s /\ version' = version + 1
  BY DEF Pumps
<1>2. serving' /\ UNCHANGED <<conn, clientVars, historyVars, born, actions, faults>>
  BY DEF Pumps
<1>3. MemoryOK(daemon) /\ TablesOK(store)
  BY DEF CallInv
<1>4. Follows(daemon, store, m.d, m.s)
  <2>1. CASE m \in Admits(daemon, store, {})
    BY <1>3, <2>1, AdmitsFollow
  <2>2. CASE m \in {exit(id) : id \in daemon.live}
    <3>1. PICK id \in daemon.live : m = exit(id)
      BY <2>2
    <3>2. id \in DOMAIN daemon.tasks /\ id \in Ids
      BY <1>3 DEF MemoryOK
    <3>. DEFINE s == Log(store, <<"process_exited", id>>, {})
    <3>3. Follows(daemon, store, daemon, s)
      BY <1>3, <3>2, EventOf, LogFollows DEF EventKinds
    <3>. HIDE DEF s
    <3>4. TablesOK(s)
      BY <3>3 DEF Follows
    <3>5. m = Moved(daemon, s, id, TerminateWalk(daemon.tasks[id].state))
      BY <3>1 DEF s
    <3>6. Follows(daemon, s, m.d, m.s)
      BY <1>3, <3>2, <3>4, <3>5, MovedFollows
    <3>. QED
      BY <3>3, <3>6, FollowsOn
  <2>. QED
    BY <1>1, <2>1, <2>2
<1>. QED
  BY <1>1, <1>2, <1>4, DaemonKeeps DEF Follows

-----------------------------------------------------------------------------
(* A fresh daemon's tables, and those of one that runs a task.             *)
LEMMA StartsOK ==
  ASSUME NEW s \in Starts
  PROVE  /\ TablesOK(s) /\ DOMAIN s.tasks = 1..Cardinality(DOMAIN s.tasks)
         /\ Cardinality(DOMAIN s.tasks) \in {0, 1}
         /\ \A id \in DOMAIN s.tasks : Logged(s, id)
<1>1. CASE s = [tasks |-> <<>>, folders |-> {}, events |-> <<>>]
  <2>1. DOMAIN s.tasks = {} /\ s.folders = {} /\ s.events = <<>>
    BY <1>1
  <2>2. Cardinality(DOMAIN s.tasks) = 0
    BY <2>1, FS_EmptySet
  <2>. QED
    BY <1>1, <2>1, <2>2 DEF TablesOK
<1>2. CASE s # [tasks |-> <<>>, folders |-> {}, events |-> <<>>]
  <2>1. PICK r \in Repos :
          s = [tasks |-> <<[state |-> "Active", repo |-> r]>>, folders |-> {r},
               events |-> <<<<"workspace_added", r>>, <<"task_created", 1>>, <<"started", 1>>>>]
    BY <1>2 DEF Starts
  <2>2. DOMAIN s.tasks = {1} /\ 1 \in Ids /\ {1} = 1..1
    BY <2>1, ProtocolAssumption DEF Ids
  <2>3. Cardinality(DOMAIN s.tasks) = 1
    BY <2>2, FS_Singleton
  <2>4. <<"workspace_added", r>> \in Event /\ <<"task_created", 1>> \in Event /\ <<"started", 1>> \in Event
    BY <2>2, EventOf DEF EventKinds
  <2>5. s.events \in Seq(Event) /\ s.events[2] = <<"task_created", 1>> /\ 2 \in DOMAIN s.events
    BY <2>1, <2>4
  <2>6. s.events[2] \in Range(s.events)
    BY <2>5, Zenon DEF Range
  <2>7. s = [tasks |-> s.tasks, folders |-> s.folders, events |-> s.events] /\ s.folders \subseteq Repos
    BY <2>1
  <2>. QED
    BY <2>2, <2>3, <2>5, <2>6, <2>7 DEF TablesOK, Logged
<1>. QED
  BY <1>1, <1>2

LEMMA CallInvInit == ProtocolInit => CallInv
<1>. SUFFICES ASSUME ProtocolInit PROVE CallInv
  OBVIOUS
<1>1. store \in Starts /\ born = Cardinality(DOMAIN store.tasks)
      /\ daemon = [tasks |-> store.tasks, live |-> DOMAIN store.tasks, pending |-> {},
                   folders |-> store.folders]
  BY DEF ProtocolInit
<1>2. /\ TablesOK(store) /\ DOMAIN store.tasks = 1..born /\ born \in {0, 1}
      /\ \A id \in DOMAIN store.tasks : Logged(store, id)
  BY <1>1, StartsOK
<1>3. MemoryOK(daemon) /\ daemon.tasks = store.tasks
  BY <1>1, <1>2 DEF MemoryOK, TablesOK
<1>4. AllLogged
  BY <1>2, <1>3 DEF AllLogged
<1>5. ASSUME NEW c \in Callers PROVE ConnOK(c) /\ ToldOK(c)
  <2>1. conn[c] = Closed /\ program[c] = <<>> /\ told[c] = NoneTold
    BY DEF ProtocolInit
  <2>2. Closed = [phase |-> "closed", request |-> Req("info", Nothing), answer |-> NoAnswer, ran |-> 0,
                  changed |-> FALSE, user |-> TRUE]
    BY DEF Closed
  <2>3. Req("info", Nothing) \in Request
    BY DEF Req, Request, ReadOps
  <2>4. ConnOK(c)
    BY <2>1, <2>2, <2>3 DEF ConnOK, Phase, ProgramsOf
  <2>5. ToldOK(c)
    BY <2>1 DEF ToldOK, NoneTold
  <2>. QED
    BY <2>4, <2>5
<1>6. /\ serving \in BOOLEAN /\ version \in Nat /\ promised = {} /\ dropped = {}
      /\ DOMAIN conn = Callers /\ DOMAIN program = Callers /\ DOMAIN told = Callers
      /\ actions \in 0..MaxActions /\ faults \in 0..MaxFaults /\ born \in 0..MaxTasks
  BY <1>2, ProtocolAssumption DEF ProtocolInit
<1>. QED
  BY <1>2, <1>3, <1>4, <1>5, <1>6 DEF CallInv

LEMMA CallInvNext == CallInv /\ [ProtocolNext]_protocolVars => CallInv'
<1>. SUFFICES ASSUME CallInv, [ProtocolNext]_protocolVars PROVE CallInv'
  OBVIOUS
<1>1. ASSUME NEW c \in Callers, ClientStep(c) PROVE CallInv'
  <2>1. CASE Asks(c)
    BY <2>1, AsksKeeps
  <2>2. CASE Receive(c)
    BY <2>2, EndKeeps DEF Receive, Phase
  <2>3. CASE LoseLine(c)
    BY <2>3, EndKeeps DEF LoseLine, Phase
  <2>4. CASE Interrupt(c)
    BY <2>4, InterruptKeeps
  <2>. QED
    BY <1>1, <2>1, <2>2, <2>3, <2>4 DEF ClientStep
<1>2. ASSUME NEW c \in Callers, ConnectionStep(c) PROVE CallInv'
  BY <1>2, HandleKeeps, RejectKeeps DEF ConnectionStep
<1>3. CASE UNCHANGED protocolVars
  <2>1. UNCHANGED <<serving, daemon, store, version, conn, program, told, promised, dropped, unlogged,
                    born, actions, faults>>
    BY <1>3 DEF protocolVars, clientVars, historyVars
  <2>2. Keeping
    BY <2>1 DEF Keeping, CallInv
  <2>3. \A c \in Callers : ConnOK(c)' /\ ToldOK(c)'
    BY <2>1, <2>2, ConnStays, ToldStays DEF CallInv
  <2>4. AllLogged'
    BY <2>1 DEF CallInv, AllLogged, Logged
  <2>. QED
    BY <2>1, <2>3, <2>4 DEF CallInv
<1>. QED
  BY <1>1, <1>2, <1>3, DiesKeeps, ServeKeeps, PumpsKeeps DEF ProtocolNext

LEMMA CallInvHolds == ProtocolSpec => []CallInv
BY CallInvInit, CallInvNext, PTL DEF ProtocolSpec

LEMMA RangeOfSingle == ASSUME NEW r PROVE Range(<<r>>) = {r}
BY DEF Range

LEMMA ProgramsAreRequests ==
  ASSUME NEW c \in Callers, NEW p \in ProgramsOf(c) PROVE Range(p) \subseteq Request
<1>1. CASE p = <<>>
  BY <1>1 DEF Range
<1>2. CASE \E r \in Request : p = <<r>>
  BY <1>2, RangeOfSingle
<1>3. CASE \E k \in 1..5 : p = FetchFrom[k]
  <2>1. \A op \in ReadOps : Req(op, Nothing) \in Request
    BY DEF Req, Request
  <2>2. /\ Req("list", Nothing) \in Request /\ Req("pressure", Nothing) \in Request
        /\ Req("info", Nothing) \in Request /\ Req("events", Nothing) \in Request
        /\ Req("folders", Nothing) \in Request
    BY <2>1 DEF ReadOps
  <2>3. FetchFrom[1] \in Seq(Request) /\ FetchFrom[2] \in Seq(Request) /\ FetchFrom[3] \in Seq(Request)
        /\ FetchFrom[4] \in Seq(Request) /\ FetchFrom[5] \in Seq(Request)
    BY <2>2 DEF FetchFrom, Fetch
  <2>4. p \in Seq(Request)
    <3>1. PICK k \in 1..5 : p = FetchFrom[k]
      BY <1>3
    <3>2. k = 1 \/ k = 2 \/ k = 3 \/ k = 4 \/ k = 5
      OBVIOUS
    <3>. QED
      BY <2>3, <3>1, <3>2
  <2>. QED
    BY <2>4 DEF Range
<1>. QED
  BY <1>1, <1>2, <1>3 DEF ProgramsOf, Single

(* Every reachable state is well typed (server.rs, client.rs and lib.rs of *)
(* memmux-proto): a live task is a known one, connections are in a phase   *)
(* of the call, programs consist of requests, and the tasks a client was   *)
(* told of have been created.                                              *)
THEOREM ProtocolTypeCorrect == ProtocolSpec => []ProtocolTypeOK
<1>1. CallInv => ProtocolTypeOK
  BY ProgramsAreRequests DEF CallInv, ProtocolTypeOK, ConnOK, MemoryOK, TablesOK
<1>. QED
  BY <1>1, CallInvHolds, PTL

(* Client::call, handle_conn and the handlers of DaemonState::handle: a    *)
(* call runs at most once, once if its answer came; an error changed       *)
(* nothing but for restart and forget; success was success but where the   *)
(* client looks only at the transport; and a task that a client was told   *)
(* of stays in the tables until a forget removes it.                       *)
THEOREM CallsAreHonest == ProtocolSpec => []CallsAreTruthful
<1>1. CallInv => CallsAreTruthful
  BY DEF CallInv, CallsAreTruthful, ConnOK, ToldOK
<1>. QED
  BY <1>1, CallInvHolds, PTL

-----------------------------------------------------------------------------
(* Refreshes.  The state grows older; what was seen of it keeps agreeing.  *)

Aging ==
  /\ version \in Nat /\ version' \in Nat /\ version <= version'
  /\ unlogged \subseteq unlogged' /\ (version' = version => daemon' = daemon)

LEMMA AgreeStays ==
  ASSUME NEW list, NEW a, unlogged \subseteq unlogged', Agree(list, a) PROVE Agree(list, a)'
BY DEF Agree

LEMMA CurrentStays ==
  ASSUME NEW a, Aging, a.at \in Nat, a.at <= version, Current(a) PROVE Current(a)'
BY DEF Current, Aging

LEMMA PartialStays == ASSUME NEW p, Aging, PartialOK(p) PROVE PartialOK(p)'
<1>1. \A op \in ReadOps : Agree(p["list"], p[op])'
  BY AgreeStays DEF PartialOK, Aging
<1>2. "list" \in ReadOps
  BY DEF ReadOps
<1>3. Current(p["list"])'
  BY <1>2, CurrentStays DEF PartialOK
<1>. QED
  BY <1>1, <1>3 DEF PartialOK, Aging

LEMMA ShownStays == ASSUME NEW d, Aging, ShownOK(d) PROVE ShownOK(d)'
<1>1. \A op \in ReadOps : Agree(d["list"], d[op])'
  BY AgreeStays DEF ShownOK, Aging
<1>. QED
  BY <1>1 DEF ShownOK, Ordered

LEMMA FitsStays ==
  ASSUME NEW p, NEW a, Aging, a.at \in Nat, a.at <= version, AnswerFits(p, a) PROVE AnswerFits(p, a)'
<1>1. Agree(p["list"], a)' /\ Current(a)'
  BY AgreeStays, CurrentStays DEF AnswerFits, Aging
<1>. QED
  BY <1>1 DEF AnswerFits

LEMMA RefreshStays ==
  ASSUME NEW c \in Dashboards, RefreshOK(c), ConnOK(c), Aging,
         conn'[c] = conn[c] \/ conn'[c].phase # "answered",
         program'[c] = program[c], partial'[c] = partial[c], dashboard'[c] = dashboard[c]
  PROVE  RefreshOK(c)'
<1>1. PICK p : p = partial[c]
  OBVIOUS
<1>2. PICK d : d = dashboard[c]
  OBVIOUS
<1>3. PartialOK(p)' /\ ShownOK(d)'
  BY <1>1, <1>2, PartialStays, ShownStays DEF RefreshOK
<1>4. partial'[c] = p /\ dashboard'[c] = d
  BY <1>1, <1>2
<1>5. PartialOK(partial[c])' /\ ShownOK(dashboard[c])'
  BY <1>3, <1>4
<1>6. ASSUME conn'[c].phase = "answered" PROVE AnswerFits(partial[c], conn[c].answer)'
  <2>1. PICK a : a = conn[c].answer
    OBVIOUS
  <2>2. conn'[c].answer = a /\ a.at \in Nat /\ a.at <= version /\ AnswerFits(p, a)
    BY <1>1, <1>6, <2>1 DEF ConnOK, AnswerOK, RefreshOK, Phase
  <2>3. AnswerFits(p, a)'
    BY <2>2, FitsStays
  <2>. QED
    BY <1>4, <2>2, <2>3
<1>7. \A k \in 1..5 : program'[c] = FetchFrom[k] => Ordered(partial'[c], k - 1)
  BY DEF RefreshOK
<1>. QED
  BY <1>5, <1>6, <1>7 DEF RefreshOK, Phase, Ordered

(* The first page of the log shows an event, or it is full.                *)
LEMMA PageShows ==
  ASSUME NEW q \in Seq(Event), NEW e \in Range(q)
  PROVE  e \in Range(Page(q)) \/ Len(Page(q)) = EventPage
<1>. USE ProtocolAssumption
<1>1. CASE Len(q) < EventPage
  <2>1. Page(q) = SubSeq(q, 1, Len(q))
    BY <1>1 DEF Page
  <2>2. SubSeq(q, 1, Len(q)) = q
    OBVIOUS
  <2>. QED
    BY <2>1, <2>2
<1>2. CASE ~(Len(q) < EventPage)
  <2>1. Page(q) = SubSeq(q, 1, EventPage)
    BY <1>2 DEF Page
  <2>2. Len(SubSeq(q, 1, EventPage)) = EventPage
    BY <1>2
  <2>. QED
    BY <2>1, <2>2
<1>. QED
  BY <1>1, <1>2

(* What a handler answers fits what the dashboard has gathered.            *)
LEMMA AnswerFitsNow ==
  ASSUME CallInv, NEW p, PartialOK(p), NEW op, NEW refused, NEW o, OutcomeOK(op, refused, o)
  PROVE  /\ Agree(p["list"], o.answer) /\ \A x \in ReadOps : p[x].at <= o.answer.at
         /\ o.answer.kind = "list" => o.answer.data = daemon.tasks /\ Unchanging(o)
<1>1. o.answer.at = version
  BY DEF OutcomeOK
<1>2. \A x \in ReadOps : p[x].at <= o.answer.at
  BY <1>1 DEF PartialOK
<1>3. o.answer.kind = "list" => o.answer.data = daemon.tasks /\ Unchanging(o)
  BY DEF OutcomeOK, ReadOps
<1>4. ASSUME p["list"].kind = "list", o.answer.at = p["list"].at
      PROVE  Agree(p["list"], o.answer)
  <2>1. p["list"].data = daemon.tasks
    BY <1>1, <1>4 DEF PartialOK, Current
  <2>2. o.answer.kind = "info" => o.answer.data = Cardinality(DOMAIN daemon.tasks)
    BY DEF OutcomeOK
  <2>3. o.answer.kind = "folders" => \A f \in DOMAIN o.answer.data :
          o.answer.data[f] = Cardinality({id \in DOMAIN daemon.tasks : daemon.tasks[id].repo = f})
    BY DEF OutcomeOK, WorkspaceViews, TasksOf
  <2>4. o.answer.kind = "events" => \A id \in DOMAIN daemon.tasks \ unlogged :
          <<"task_created", id>> \in Range(o.answer.data) \/ Len(o.answer.data) = EventPage
    <3>. SUFFICES ASSUME o.answer.kind = "events", NEW id \in DOMAIN daemon.tasks \ unlogged
                  PROVE  <<"task_created", id>> \in Range(o.answer.data) \/ Len(o.answer.data) = EventPage
      OBVIOUS
    <3>1. o.answer.data = Page(store.events)
      BY DEF OutcomeOK, EventViews
    <3>2. <<"task_created", id>> \in Range(store.events) /\ store.events \in Seq(Event)
      BY DEF CallInv, AllLogged, Logged, TablesOK
    <3>. QED
      BY <3>1, <3>2, PageShows
  <2>. QED
    BY <2>1, <2>2, <2>3, <2>4 DEF Agree
<1>5. Agree(p["list"], o.answer)
  BY <1>4 DEF Agree
<1>. QED
  BY <1>2, <1>3, <1>5

LEMMA HandleRefreshes == ASSUME RefreshInv, NEW c \in Callers, Handle(c) PROVE RefreshInv'
<1>1. PICK refused \in SUBSET {"row", "event"} :
        /\ conn[c].request.op \in {"create", "submit"} => born < MaxTasks
        /\ \E o \in HandlerOutcomes(conn[c].request, refused) :
             /\ daemon' = o.daemon /\ store' = o.store
             /\ version' = IF <<o.daemon, o.store>> = <<daemon, store>> THEN version ELSE version + 1
             /\ conn' = [conn EXCEPT ![c].phase = "answered", ![c].answer = o.answer,
                                     ![c].ran = @ + 1, ![c].changed = <<o.daemon, o.store>> # <<daemon, store>>]
             /\ unlogged' = unlogged \cup
                  (IF "event" \in refused THEN DOMAIN o.daemon.tasks \ DOMAIN daemon.tasks ELSE {})
  BY DEF Handle
<1>2. PICK o \in HandlerOutcomes(conn[c].request, refused) :
        /\ daemon' = o.daemon /\ store' = o.store
        /\ version' = IF <<o.daemon, o.store>> = <<daemon, store>> THEN version ELSE version + 1
        /\ conn' = [conn EXCEPT ![c].phase = "answered", ![c].answer = o.answer,
                                ![c].ran = @ + 1, ![c].changed = <<o.daemon, o.store>> # <<daemon, store>>]
        /\ unlogged' = unlogged \cup
             (IF "event" \in refused THEN DOMAIN o.daemon.tasks \ DOMAIN daemon.tasks ELSE {})
  BY <1>1
<1>3. /\ conn[c].request.op # "oversized" /\ program' = program /\ partial' = partial
      /\ dashboard' = dashboard
  BY DEF Handle, clientVars
<1>4. CallInv /\ CallInv'
  BY HandleKeeps DEF RefreshInv
<1>5. OutcomeOK(conn[c].request.op, refused, o)
  <2>1. Ground /\ conn[c].request \in Request /\ born \in Nat
    BY <1>4 DEF CallInv, ConnOK, Ground
  <2>. QED
    BY <1>1, <1>3, <2>1, HandlersOK
<1>6. Aging
  BY <1>2, <1>4 DEF Aging, CallInv
<1>7. ASSUME NEW d \in Dashboards PROVE RefreshOK(d)'
  <2>1. RefreshOK(d) /\ ConnOK(d) /\ d \in Callers
    BY <1>4 DEF RefreshInv, CallInv, Callers
  <2>2. CASE d # c
    <3>1. conn'[d] = conn[d]
      BY <1>2, <1>4, <2>1, <2>2 DEF CallInv
    <3>. QED
      BY <1>3, <1>6, <2>1, <3>1, RefreshStays
  <2>3. CASE d = c
    <3>1. PICK p : p = partial[d]
      OBVIOUS
    <3>2. PICK h : h = dashboard[d]
      OBVIOUS
    <3>3. PartialOK(p) /\ ShownOK(h)
      BY <2>1, <3>1, <3>2 DEF RefreshOK
    <3>4. PartialOK(p)' /\ ShownOK(h)'
      BY <1>6, <3>3, PartialStays, ShownStays
    <3>5. conn'[d].answer = o.answer
      BY <1>2, <1>4, <2>1, <2>3 DEF CallInv
    <3>6. /\ Agree(p["list"], o.answer) /\ \A x \in ReadOps : p[x].at <= o.answer.at
          /\ o.answer.kind = "list" => o.answer.data = daemon.tasks /\ Unchanging(o)
      BY <1>4, <1>5, <3>3, AnswerFitsNow
    <3>7. PICK a : a = o.answer
      OBVIOUS
    <3>8. Agree(p["list"], a)'
      BY <1>6, <3>6, <3>7, AgreeStays DEF Aging
    <3>9. Current(a)'
      BY <1>2, <3>6, <3>7 DEF Current, Unchanging
    <3>10. AnswerFits(p, a)'
      BY <3>6, <3>7, <3>8, <3>9 DEF AnswerFits
    <3>11. partial'[d] = p /\ dashboard'[d] = h /\ conn'[d].answer = a /\ program'[d] = program[d]
      BY <1>3, <3>1, <3>2, <3>5, <3>7
    <3>12. \A k \in 1..5 : program'[d] = FetchFrom[k] => Ordered(partial'[d], k - 1)
      BY <1>3, <2>1 DEF RefreshOK
    <3>. QED
      BY <3>4, <3>10, <3>11, <3>12 DEF RefreshOK, Ordered
  <2>. QED
    BY <2>2, <2>3
<1>8. DOMAIN partial' = Dashboards /\ DOMAIN dashboard' = Dashboards
  BY <1>3 DEF RefreshInv
<1>. QED
  BY <1>4, <1>7, <1>8 DEF RefreshInv

(* The k-th call of a refresh is its k-th request, and no other's.         *)
LEMMA CallsOfFetch ==
  /\ Fetch[1].op = "list" /\ Fetch[2].op = "pressure" /\ Fetch[3].op = "info"
  /\ Fetch[4].op = "events" /\ Fetch[5].op = "folders"
  /\ \A i, j \in 1..5 : Fetch[i].op = Fetch[j].op => i = j
  /\ \A k \in 1..5 : Fetch[k].op \in ReadOps
<1>1. /\ Fetch[1].op = "list" /\ Fetch[2].op = "pressure" /\ Fetch[3].op = "info"
      /\ Fetch[4].op = "events" /\ Fetch[5].op = "folders"
  BY FetchOps DEF Req
<1>2. \A k \in 1..5 : k = 1 \/ k = 2 \/ k = 3 \/ k = 4 \/ k = 5
  OBVIOUS
<1>3. \A i, j \in 1..5 : Fetch[i].op = Fetch[j].op => i = j
  BY <1>1, <1>2
<1>. QED
  BY <1>1, <1>3, FetchOps

LEMMA FetchAdvances ==
  /\ \A k \in 1..5 : Head(FetchFrom[k]) = Fetch[k] /\ FetchFrom[k] # <<>>
  /\ \A k \in 1..4 : Tail(FetchFrom[k]) = FetchFrom[k + 1]
  /\ Tail(FetchFrom[5]) = <<>> /\ FetchFrom[1] = Fetch
<1>1. \A k \in 1..5 : k = 1 \/ k = 2 \/ k = 3 \/ k = 4 \/ k = 5
  OBVIOUS
<1>2. \A k \in 1..5 : Head(FetchFrom[k]) = Fetch[k] /\ FetchFrom[k] # <<>>
  BY <1>1, RefreshParts
<1>3. \A k \in 1..4 : \/ k = 1 /\ k + 1 = 2
                      \/ k = 2 /\ k + 1 = 3
                      \/ k = 3 /\ k + 1 = 4
                      \/ k = 4 /\ k + 1 = 5
  OBVIOUS
<1>4. \A k \in 1..4 : Tail(FetchFrom[k]) = FetchFrom[k + 1]
  BY <1>3, RefreshParts
<1>. QED
  BY <1>2, <1>4, RefreshParts

LEMMA FromIsUnique == ASSUME NEW i \in 1..5, NEW j \in 1..5, FetchFrom[i] = FetchFrom[j] PROVE i = j
BY FetchAdvances, CallsOfFetch

LEMMA NothingGathered == version \in Nat => PartialOK(NoData) /\ \A k \in 0..5 : Ordered(NoData, k)
<1>. SUFFICES ASSUME version \in Nat PROVE PartialOK(NoData) /\ \A k \in 0..5 : Ordered(NoData, k)
  OBVIOUS
<1>1. DOMAIN NoData = ReadOps /\ \A op \in ReadOps : NoData[op] = NoAnswer
  BY DEF NoData
<1>2. NoAnswer.kind = "none" /\ NoAnswer.at = 0
  BY DEF NoAnswer
<1>3. "list" \in ReadOps
  BY DEF ReadOps
<1>4. PartialOK(NoData)
  BY <1>1, <1>2, <1>3 DEF PartialOK, Agree, Current
<1>5. \A k \in 0..5 : Ordered(NoData, k)
  <2>1. \A i \in 1..5 : NoData[Fetch[i].op].at = 0
    BY <1>1, <1>2, CallsOfFetch
  <2>2. \A k \in 0..5 : \A i \in 1..k : i < k => i \in 1..5 /\ i + 1 \in 1..5
    OBVIOUS
  <2>. QED
    BY <2>1, <2>2 DEF Ordered
<1>. QED
  BY <1>4, <1>5

(* Gathering the k-th answer.                                              *)
LEMMA GatherOK ==
  ASSUME CallInv, NEW c \in Dashboards, RefreshOK(c), NEW k \in 1..5, program[c] = FetchFrom[k],
         conn[c].request.op = Fetch[k].op, Phase(c, "answered")
  PROVE  PartialOK(Gather(c)) /\ Ordered(Gather(c), k)
<1>. DEFINE op == conn[c].request.op
            new == IF op = "list" THEN NoData ELSE partial[c]
            g == Gather(c)
<1>1. PICK a : a = conn[c].answer
  OBVIOUS
<1>2. op \in ReadOps /\ (op = "list" <=> k = 1)
  BY CallsOfFetch
<1>3. a.kind = op /\ a.at \in Nat /\ a.at <= version /\ AnswerFits(partial[c], a)
  BY <1>1, <1>2 DEF CallInv, ConnOK, AnswerOK, RefreshOK, Callers
<1>4. g = [new EXCEPT ![op] = a]
  BY <1>1, <1>3 DEF Gather
<1>5. PartialOK(new) /\ \A x \in ReadOps : new[x].at <= a.at
  <2>1. CASE op = "list"
    BY <1>3, <2>1, NothingGathered DEF CallInv, NoData, NoAnswer
  <2>2. CASE op # "list"
    BY <1>3, <2>2 DEF RefreshOK, AnswerFits
  <2>. QED
    BY <2>1, <2>2
<1>6. op # "list" => new = partial[c] /\ Agree(new["list"], a)
  BY <1>3 DEF AnswerFits
<1>7. op = "list" => new = NoData
  OBVIOUS
<1>. HIDE DEF op, new, g
<1>8. DOMAIN g = ReadOps /\ g[op] = a /\ \A x \in ReadOps \ {op} : g[x] = new[x]
  BY <1>2, <1>4, <1>5 DEF PartialOK
<1>9. \A x \in ReadOps : g[x].at \in Nat /\ g[x].at <= version
  BY <1>3, <1>5, <1>8 DEF PartialOK
<1>10. "list" \in ReadOps
  BY DEF ReadOps
<1>11. Current(g["list"])
  <2>1. CASE op = "list"
    BY <1>3, <1>8, <2>1 DEF AnswerFits
  <2>2. CASE op # "list"
    BY <1>5, <1>8, <1>10, <2>2 DEF PartialOK
  <2>. QED
    BY <2>1, <2>2
<1>12. \A x \in ReadOps : Agree(g["list"], g[x])
  <2>. SUFFICES ASSUME NEW x \in ReadOps PROVE Agree(g["list"], g[x])
    OBVIOUS
  <2>1. CASE op = "list" /\ x = op
    BY <1>3, <1>8, <2>1 DEF Agree
  <2>2. CASE op = "list" /\ x # op
    <3>1. g[x] = NoAnswer
      BY <1>7, <1>8, <2>2 DEF NoData
    <3>. QED
      BY <3>1 DEF NoAnswer, Agree
  <2>3. CASE op # "list" /\ x = op
    BY <1>6, <1>8, <1>10, <2>3
  <2>4. CASE op # "list" /\ x # op
    BY <1>5, <1>8, <1>10, <2>4 DEF PartialOK
  <2>. QED
    BY <2>1, <2>2, <2>3, <2>4
<1>13. Ordered(g, k)
  <2>. SUFFICES ASSUME NEW i \in 1..k, i < k PROVE g[Fetch[i].op].at <= g[Fetch[i + 1].op].at
    BY DEF Ordered
  <2>1. i \in 1..5 /\ i + 1 \in 1..5 /\ k # 1 /\ i # k
    OBVIOUS
  <2>2. new = partial[c]
    BY <1>2, <1>6, <2>1
  <2>3. op = Fetch[k].op
    BY DEF op
  <2>4. Fetch[i].op \in ReadOps \ {op} /\ g[Fetch[i].op] = new[Fetch[i].op]
    BY <1>8, <2>1, <2>3, CallsOfFetch
  <2>5. CASE i + 1 = k
    BY <1>5, <1>8, <2>3, <2>4, <2>5
  <2>6. CASE i + 1 # k
    <3>1. Ordered(partial[c], k - 1) /\ i \in 1..(k - 1) /\ i < k - 1
      BY <2>1, <2>6 DEF RefreshOK
    <3>2. Fetch[i + 1].op \in ReadOps \ {op} /\ g[Fetch[i + 1].op] = new[Fetch[i + 1].op]
      BY <1>8, <2>1, <2>3, <2>6, CallsOfFetch
    <3>. QED
      BY <2>2, <2>4, <3>1, <3>2 DEF Ordered
  <2>. QED
    BY <2>5, <2>6
<1>14. PartialOK(g)
  BY <1>8, <1>9, <1>11, <1>12 DEF PartialOK
<1>. QED
  BY <1>13, <1>14 DEF g

LEMMA EndRefreshes ==
  ASSUME RefreshInv, NEW c \in Callers, NEW arrived \in BOOLEAN, EndCall(c, arrived),
         ~Phase(c, "closed"), arrived => Phase(c, "answered")
  PROVE  RefreshInv'
<1>. DEFINE op == conn[c].request.op
            result == Result(c, arrived)
            gathers == op \in ReadOps \ {"folders"} /\ result = "ok"
            shows == op = "folders" /\ result = "ok"
<1>1. /\ program' = [program EXCEPT ![c] = Onward(c, result)]
      /\ conn' = [conn EXCEPT ![c] = Dialled(program'[c])]
      /\ partial' = IF c \in Dashboards
                      THEN [partial EXCEPT ![c] = IF gathers THEN Gather(c) ELSE NoData] ELSE partial
      /\ dashboard' = IF c \in Dashboards /\ shows THEN [dashboard EXCEPT ![c] = Gather(c)] ELSE dashboard
      /\ UNCHANGED <<daemon, version, unlogged>>
  BY DEF EndCall
<1>2. CallInv /\ CallInv'
  BY EndKeeps DEF RefreshInv
<1>3. Aging
  BY <1>1, <1>2 DEF Aging, CallInv
<1>4. ASSUME NEW d \in Dashboards, d # c PROVE RefreshOK(d)'
  <2>1. RefreshOK(d) /\ ConnOK(d) /\ d \in Callers /\ d \in DOMAIN partial /\ d \in DOMAIN dashboard
    BY <1>2 DEF RefreshInv, CallInv, Callers
  <2>2. conn'[d] = conn[d] /\ program'[d] = program[d] /\ partial'[d] = partial[d] /\ dashboard'[d] = dashboard[d]
    BY <1>1, <1>2, <1>4, <2>1 DEF CallInv
  <2>. QED
    BY <1>3, <2>1, <2>2, RefreshStays
<1>5. CASE c \in Dashboards
  <2>1. RefreshOK(c) /\ ConnOK(c) /\ c \notin Shells
    BY <1>2, <1>5, ProtocolAssumption DEF RefreshInv, CallInv
  <2>2. program'[c] = Onward(c, result) /\ conn'[c] = Dialled(program'[c])
    BY <1>1, <1>2 DEF CallInv
  <2>3. ~Phase(c, "answered")'
    BY <2>2 DEF Dialled, Closed, Phase
  <2>4. /\ partial'[c] = IF gathers THEN Gather(c) ELSE NoData
        /\ dashboard'[c] = IF shows THEN Gather(c) ELSE dashboard[c]
    BY <1>1, <1>5 DEF RefreshInv
  <2>5. op \in ReadOps => \E k \in 1..5 : program[c] = FetchFrom[k] /\ op = Fetch[k].op
    BY <2>1, ProgramHead DEF ConnOK
  <2>6. result = "ok" => Phase(c, "answered")
    BY ResultIs
  <2>7. ASSUME NEW k \in 1..5, program[c] = FetchFrom[k], op = Fetch[k].op, result = "ok"
        PROVE  PartialOK(Gather(c)) /\ Ordered(Gather(c), k)
    BY <1>2, <1>5, <2>1, <2>6, <2>7, GatherOK
  <2>8. PartialOK(NoData) /\ \A k \in 0..5 : Ordered(NoData, k)
    BY <1>2, NothingGathered DEF CallInv
  <2>9. PICK p : p = partial'[c]
    OBVIOUS
  <2>10. PICK h : h = dashboard'[c]
    OBVIOUS
  <2>11. PartialOK(p)
    BY <2>4, <2>5, <2>7, <2>8, <2>9
  <2>12. ShownOK(h)
    <3>1. CASE shows
      <4>1. PICK k \in 1..5 : program[c] = FetchFrom[k] /\ op = Fetch[k].op
        BY <2>5, <3>1 DEF ReadOps
      <4>2. k = 5
        BY <3>1, <4>1, CallsOfFetch
      <4>3. h = Gather(c) /\ PartialOK(Gather(c)) /\ Ordered(Gather(c), 5)
        BY <2>4, <2>7, <2>10, <3>1, <4>1, <4>2
      <4>. QED
        BY <4>3 DEF ShownOK, PartialOK
    <3>2. CASE ~shows
      BY <2>1, <2>4, <2>10, <3>2 DEF RefreshOK
    <3>. QED
      BY <3>1, <3>2
  <2>13. PartialOK(p)' /\ ShownOK(h)'
    BY <1>3, <2>11, <2>12, PartialStays, ShownStays
  <2>14. ASSUME NEW j \in 1..5, program'[c] = FetchFrom[j] PROVE Ordered(p, j - 1)
    <3>1. CASE gathers
      <4>1. PICK k \in 1..5 : program[c] = FetchFrom[k] /\ op = Fetch[k].op
        BY <2>5, <3>1
      <4>2. program'[c] = Tail(program[c])
        BY <2>1, <2>2, <3>1 DEF Onward, ReadOps
      <4>3. k # 5 /\ k \in 1..4
        BY <3>1, <4>1, CallsOfFetch
      <4>4. j = k + 1
        <5>1. FetchFrom[j] = FetchFrom[k + 1]
          BY <2>14, <4>1, <4>2, <4>3, FetchAdvances
        <5>. QED
          BY <4>3, <5>1, FromIsUnique
      <4>5. p = Gather(c) /\ Ordered(Gather(c), k)
        BY <2>4, <2>7, <2>9, <3>1, <4>1
      <4>. QED
        BY <4>4, <4>5
    <3>2. CASE ~gathers
      BY <2>4, <2>8, <2>9, <3>2
    <3>. QED
      BY <3>1, <3>2
  <2>15. partial'[c] = p /\ dashboard'[c] = h
    BY <2>9, <2>10
  <2>16. RefreshOK(c)'
    BY <2>3, <2>13, <2>14, <2>15 DEF RefreshOK, Ordered
  <2>17. DOMAIN partial' = Dashboards /\ DOMAIN dashboard' = Dashboards
    BY <1>1 DEF RefreshInv
  <2>. QED
    BY <1>2, <1>4, <2>16, <2>17 DEF RefreshInv
<1>6. CASE c \notin Dashboards
  <2>1. DOMAIN partial' = Dashboards /\ DOMAIN dashboard' = Dashboards
    BY <1>1, <1>6 DEF RefreshInv
  <2>2. \A d \in Dashboards : RefreshOK(d)'
    BY <1>4, <1>6
  <2>. QED
    BY <1>2, <2>1, <2>2 DEF RefreshInv
<1>. QED
  BY <1>5, <1>6

(* No call is answered anew, no program moves on, and the parts stay.      *)
LEMMA OthersRefresh ==
  ASSUME RefreshInv, CallInv', UNCHANGED <<partial, dashboard>>, Aging,
         \A c \in Dashboards : /\ conn'[c] = conn[c] \/ conn'[c].phase # "answered"
                               /\ program'[c] = program[c]
  PROVE  RefreshInv'
<1>1. \A c \in Dashboards : RefreshOK(c) /\ ConnOK(c)
  BY DEF RefreshInv, CallInv, Callers
<1>2. ASSUME NEW c \in Dashboards PROVE RefreshOK(c)'
  <2>1. partial'[c] = partial[c] /\ dashboard'[c] = dashboard[c]
    OBVIOUS
  <2>. QED
    BY <1>1, <2>1, RefreshStays
<1>. QED
  BY <1>2 DEF RefreshInv

LEMMA AsksRefreshes == ASSUME RefreshInv, NEW c \in Callers, Asks(c) PROVE RefreshInv'
<1>1. PICK q \in IF c \in Shells THEN AskedByShell ELSE AskedByDashboard :
        /\ program' = [program EXCEPT ![c] = q]
        /\ conn' = [conn EXCEPT ![c] = Dialled(q)]
  BY DEF Asks
<1>2. UNCHANGED <<daemon, version, unlogged, partial, dashboard>> /\ CallInv /\ CallInv'
  BY AsksKeeps DEF Asks, historyVars, RefreshInv
<1>3. Aging
  BY <1>2 DEF Aging, CallInv
<1>4. ASSUME NEW d \in Dashboards, d # c PROVE RefreshOK(d)'
  <2>1. RefreshOK(d) /\ ConnOK(d)
    BY <1>2 DEF RefreshInv, CallInv, Callers
  <2>2. conn'[d] = conn[d] /\ program'[d] = program[d] /\ partial'[d] = partial[d] /\ dashboard'[d] = dashboard[d]
    BY <1>1, <1>2, <1>4 DEF CallInv, Callers
  <2>. QED
    BY <1>3, <2>1, <2>2, RefreshStays
<1>5. ASSUME c \in Dashboards PROVE RefreshOK(c)'
  <2>1. RefreshOK(c) /\ c \notin Shells
    BY <1>5, ProtocolAssumption DEF RefreshInv
  <2>2. program'[c] = q /\ conn'[c] = Dialled(q)
    BY <1>1, <1>2 DEF CallInv
  <2>3. ~Phase(c, "answered")'
    BY <2>2 DEF Dialled, Closed, Phase
  <2>4. ASSUME NEW k \in 1..5, q = FetchFrom[k] PROVE k = 1
    <3>1. CASE q = Fetch
      <4>1. FetchFrom[k] = FetchFrom[1] /\ 1 \in 1..5
        BY <2>4, <3>1, FetchAdvances
      <4>. QED
        BY <4>1, FromIsUnique
    <3>2. CASE q # Fetch
      <4>1. PICK r \in [op : {"create", "submit", "add"}, arg : Repos \cup {Nothing}] \cup
                       [op : {"start", "terminate", "forget"}, arg : 1..born] : q = <<r>>
        BY <1>1, <2>1, <3>2 DEF AskedByDashboard
      <4>2. r.op \notin ReadOps
        BY DEF ReadOps
      <4>3. Head(q) = r
        BY <4>1, HeadOfSingle
      <4>4. r.op \in ReadOps
        BY <2>4, <4>3, FetchAdvances, CallsOfFetch
      <4>. QED
        BY <4>2, <4>4
    <3>. QED
      BY <3>1, <3>2
  <2>5. PICK p : p = partial[c]
    OBVIOUS
  <2>6. PICK h : h = dashboard[c]
    OBVIOUS
  <2>7. PartialOK(p)' /\ ShownOK(h)'
    BY <1>3, <2>1, <2>5, <2>6, PartialStays, ShownStays DEF RefreshOK
  <2>8. partial'[c] = p /\ dashboard'[c] = h
    BY <1>2, <2>5, <2>6
  <2>9. \A k \in 1..5 : program'[c] = FetchFrom[k] => Ordered(p, k - 1)
    BY <2>2, <2>4 DEF Ordered
  <2>. QED
    BY <2>3, <2>7, <2>8, <2>9 DEF RefreshOK, Ordered
<1>. QED
  BY <1>2, <1>4, <1>5 DEF RefreshInv

LEMMA RefreshInvInit == ProtocolInit => RefreshInv
<1>. SUFFICES ASSUME ProtocolInit PROVE RefreshInv
  OBVIOUS
<1>1. CallInv
  BY CallInvInit
<1>2. PartialOK(NoData) /\ \A k \in 0..5 : Ordered(NoData, k)
  BY <1>1, NothingGathered DEF CallInv
<1>3. ShownOK(NoData)
  BY <1>2 DEF ShownOK, PartialOK
<1>4. ASSUME NEW c \in Dashboards PROVE RefreshOK(c)
  <2>1. partial[c] = NoData /\ dashboard[c] = NoData /\ ~Phase(c, "answered")
    BY DEF ProtocolInit, Callers, Phase, Closed
  <2>. QED
    BY <1>2, <1>3, <2>1 DEF RefreshOK
<1>. QED
  BY <1>1, <1>4 DEF RefreshInv, ProtocolInit

LEMMA RefreshInvNext == RefreshInv /\ [ProtocolNext]_protocolVars => RefreshInv'
<1>. SUFFICES ASSUME RefreshInv, [ProtocolNext]_protocolVars PROVE RefreshInv'
  OBVIOUS
<1>. USE DEF clientVars, historyVars
<1>1. CallInv /\ CallInv' /\ \A c \in Callers : ConnOK(c)
  BY CallInvNext DEF RefreshInv, CallInv
<1>2. ASSUME NEW c \in Callers, Asks(c) \/ Receive(c) \/ LoseLine(c) \/ Handle(c) PROVE RefreshInv'
  BY <1>2, AsksRefreshes, EndRefreshes, HandleRefreshes DEF Receive, LoseLine, Phase
<1>3. ASSUME NEW c \in Callers, RejectOversized(c) PROVE RefreshInv'
  <2>1. Aging
    BY <1>1, <1>3 DEF RejectOversized, Aging, CallInv
  <2>2. \A d \in Dashboards : conn'[d] = conn[d] \/ conn'[d].phase # "answered"
    BY <1>1, <1>3 DEF RejectOversized, CallInv, Callers
  <2>. QED
    BY <1>1, <1>3, <2>1, <2>2, OthersRefresh DEF RejectOversized
<1>4. ASSUME NEW c \in Callers, Interrupt(c) PROVE RefreshInv'
  <2>1. Aging
    BY <1>1, <1>4 DEF Interrupt, Aging, CallInv
  <2>2. \A d \in Dashboards : d # c
    BY <1>4, ProtocolAssumption DEF Interrupt
  <2>3. \A d \in Dashboards : conn'[d] = conn[d]
    BY <1>1, <1>4, <2>2 DEF Interrupt, CallInv, Callers
  <2>. QED
    BY <1>1, <1>4, <2>1, <2>3, OthersRefresh DEF Interrupt
<1>5. CASE DaemonDies
  <2>1. Aging
    BY <1>1, <1>5 DEF DaemonDies, Aging, CallInv
  <2>2. ASSUME NEW d \in Dashboards PROVE conn'[d] = conn[d] \/ conn'[d].phase # "answered"
    <3>1. conn'[d] = conn[d] \/ conn'[d] = [conn[d] EXCEPT !.phase = "broken"]
      BY <1>5 DEF DaemonDies, Callers
    <3>2. d \in Callers /\ ConnOK(d)
      BY <1>1 DEF Callers
    <3>. QED
      BY <3>1, <3>2 DEF ConnOK
  <2>. QED
    BY <1>1, <1>5, <2>1, <2>2, OthersRefresh DEF DaemonDies
<1>6. CASE Serve \/ Pumps
  <2>1. /\ version' = version + 1
        /\ UNCHANGED <<conn, program, partial, dashboard, unlogged>>
    BY <1>6 DEF Serve, Pumps
  <2>2. Aging
    BY <1>1, <2>1 DEF Aging, CallInv
  <2>. QED
    BY <1>1, <2>1, <2>2, OthersRefresh
<1>7. CASE UNCHANGED protocolVars
  <2>1. UNCHANGED <<daemon, version, conn, program, partial, dashboard, unlogged>>
    BY <1>7 DEF protocolVars
  <2>2. Aging
    BY <1>1, <2>1 DEF Aging, CallInv
  <2>. QED
    BY <1>1, <2>1, <2>2, OthersRefresh
<1>. QED
  BY <1>2, <1>3, <1>4, <1>5, <1>6, <1>7 DEF ProtocolNext, ClientStep, ConnectionStep

(* Client::fetch (memmux client.rs:50): the five answers a dashboard shows *)
(* were taken in order, and any that were taken with no change between     *)
(* them agree with its list of tasks, for any page size of the event log.  *)
THEOREM DashboardsAreExplained == ProtocolSpec => []DashboardIsExplained
<1>1. RefreshInv => DashboardIsExplained
  <2>. SUFFICES ASSUME RefreshInv, NEW c \in Dashboards, dashboard[c] # NoData
                PROVE  LET d == dashboard[c] IN
                         /\ Ordered(d, 5) /\ Agree(d["list"], d["info"])
                         /\ Agree(d["list"], d["folders"]) /\ Agree(d["list"], d["events"])
    BY DEF DashboardIsExplained, Ordered, Agree
  <2>. QED
    BY DEF RefreshInv, RefreshOK, ShownOK, ReadOps
<1>. QED
  BY <1>1, RefreshInvInit, RefreshInvNext, PTL DEF ProtocolSpec

=============================================================================
