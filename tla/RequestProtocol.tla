--------------------------- MODULE RequestProtocol ---------------------------
(***************************************************************************)
(* The request/response protocol on the daemon's socket, with its clients  *)
(* and the daemon at the far end.  A client opens a connection per call,   *)
(* writes one framed request and waits without a timeout for one framed    *)
(* answer; the daemon reads the frame, runs the whole handler under its    *)
(* lock, and only then writes.  The dashboard composes calls: five for a   *)
(* refresh, up to eight for a launch.  A client may be interrupted, the    *)
(* daemon may die, and the store may refuse a statement between any two.   *)
(* What a handler does to the tasks is kept to what answers show of it:    *)
(* MemMuxDaemon has the rest, TaskStore the other statements that fail.    *)
(***************************************************************************)
EXTENDS TaskLifecycle, Sequences, FiniteSets, Functions, SequencesExt

CONSTANTS
  Shells,        \* invocations of the memmuxd command line
  Dashboards,    \* running memmux user interfaces
  Repos,         \* repositories a task or a workspace is created for
  Nothing,       \* the argument of a request that has none
  EventPage,     \* the page size of the dashboard's event log
  MaxTasks,      \* bound: tasks created
  MaxActions,    \* bound: what the users of the dashboards ask for, refreshes included
  MaxFaults      \* bound: statements refused, users interrupting, deaths of the daemon

Callers == Shells \cup Dashboards

ASSUME ProtocolAssumption ==
  /\ Shells \cap Dashboards = {} /\ EventPage \in Nat \ {0} /\ Nothing \notin Repos
  /\ MaxTasks \in Nat \ {0} /\ {MaxActions, MaxFaults} \subseteq Nat

VARIABLES
  serving,       \* a daemon accepts connections
  daemon,        \* what it holds in memory: DaemonState
  store,         \* the tables of the durable store
  version,       \* how often either of them changed
  conn,          \* per client: its connection and the call it makes on it
  program,       \* per client: the calls it has still to make, this one first
  partial,       \* per dashboard: Client::fetch's local `data`
  dashboard,     \* per dashboard: Model::data
  told,          \* per client: the last call that ended, and what came of it
  promised,      \* tasks whose creation a client was told of
  dropped,       \* tasks that a forget has removed, from memory at least
  unlogged,      \* events the store refused to append
  born, actions, faults

historyVars  == <<promised, dropped, unlogged>>
clientVars   == <<program, partial, dashboard, told>>
protocolVars == <<serving, daemon, store, version, conn, clientVars, historyVars,
                  born, actions, faults>>

Req(op, arg) == [op |-> op, arg |-> arg]
Ids == 1..MaxTasks

(* Requests that name a task or a repository, and those that name nothing. *)
TaskOps   == {"start", "restart", "terminate", "forget"}
ReadOps   == {"list", "pressure", "info", "events", "folders"}
Request ==
  [op : {"create", "submit", "add", "remove"}, arg : Repos \cup {Nothing}] \cup [op : TaskOps, arg : Ids]
    \cup [op : ReadOps \cup {"garbage", "oversized"}, arg : {Nothing}]

Fetch == <<Req("list", Nothing), Req("pressure", Nothing), Req("info", Nothing),
           Req("events", Nothing), Req("folders", Nothing)>>

NoAnswer == [kind |-> "none", data |-> Nothing, at |-> 0]
Closed   == [phase |-> "closed", request |-> Req("info", Nothing), answer |-> NoAnswer,
             ran |-> 0, changed |-> FALSE, user |-> TRUE]
NoData   == [op \in ReadOps |-> NoAnswer]

NoneTold == [op |-> "none", kind |-> "none", ran |-> 0, changed |-> FALSE, result |-> "none"]

ProtocolTypeOK ==
  /\ serving \in BOOLEAN /\ version \in Nat /\ born \in 0..MaxTasks
  /\ DOMAIN daemon.tasks \subseteq Ids /\ daemon.live \subseteq DOMAIN daemon.tasks
  /\ daemon.folders \subseteq Repos /\ store.folders \subseteq Repos
  /\ \A c \in Callers :
       /\ conn[c].phase \in {"closed", "sent", "answered", "broken"}
       /\ conn[c].request \in Request /\ Range(program[c]) \subseteq Request
  /\ promised \subseteq Ids /\ dropped \subseteq Ids
  /\ actions \in 0..MaxActions /\ faults \in 0..MaxFaults

(* A fresh daemon, or one that runs a task in a registered repository.     *)
Starts ==
  {[tasks |-> <<>>, folders |-> {}, events |-> <<>>]} \cup
  {[tasks |-> <<[state |-> "Active", repo |-> r]>>, folders |-> {r},
    events |-> <<<<"workspace_added", r>>, <<"task_created", 1>>, <<"started", 1>>>>] : r \in Repos}

ProtocolInit ==
  /\ serving = TRUE /\ version = 0
  /\ store \in Starts
  /\ born = Cardinality(DOMAIN store.tasks)
  /\ daemon = [tasks |-> store.tasks, live |-> DOMAIN store.tasks, pending |-> {},
               folders |-> store.folders]
  /\ conn = [c \in Callers |-> Closed] /\ program = [c \in Callers |-> <<>>]
  /\ partial = [c \in Dashboards |-> NoData] /\ dashboard = [c \in Dashboards |-> NoData]
  /\ told = [c \in Callers |-> NoneTold]
  /\ promised = {} /\ dropped = {} /\ unlogged = {}
  /\ actions = 0 /\ faults = 0

-----------------------------------------------------------------------------
(* The handlers, as the outcomes each may have: the memory and the tables  *)
(* it leaves, and its answer.  `refused` says which statement, of a row or *)
(* of an event, the store refuses.                                         *)

Gives(d, s, kind, data) ==
  [daemon |-> d, store |-> s, answer |-> [kind |-> kind, data |-> data, at |-> version]]
Refuses == {Gives(daemon, store, "Error", Nothing)}

(* event: the sequence number is the row's, and a failure is ignored.      *)
Log(s, event, refused) ==
  IF "event" \in refused THEN s ELSE [s EXCEPT !.events = Append(@, event)]

(* A task's state and its row move together.                               *)
Moved(d, s, id, to) ==
  [d |-> [d EXCEPT !.tasks[id].state = to, !.live = IF to = "Active" THEN @ \cup {id} ELSE @ \ {id}],
   s |-> [s EXCEPT !.tasks = [@ EXCEPT ![id].state = to]]]

With(tasks, id, t) == [x \in DOMAIN tasks \cup {id} |-> IF x = id THEN t ELSE tasks[x]]

(* Answers with the task although its row was refused.                     *)
CreateTaskUnstored(repo, refused) ==
  IF repo = Nothing THEN Refuses
  ELSE LET t == [state |-> "Queued", repo |-> repo] IN
       {Gives([daemon EXCEPT !.tasks = With(@, born + 1, t)],
              IF "row" \in refused THEN store ELSE [store EXCEPT !.tasks = With(@, born + 1, t)],
              "Task", born + 1)}

CreateTask(repo, refused) ==
  IF repo = Nothing \/ "row" \in refused THEN Refuses
  ELSE LET t == [state |-> "Queued", repo |-> repo] IN
       {Gives([daemon EXCEPT !.tasks = With(@, born + 1, t)],
              Log([store EXCEPT !.tasks = With(@, born + 1, t)], <<"task_created", born + 1>>, refused),
              "Task", born + 1)}

(* launch_queued, for a provider that starts or fails to.                  *)
Launch(d, s, id, ok, refused) ==
  LET to == IF ok THEN LaunchWalk(d.tasks[id].state) ELSE LaunchFailWalk(d.tasks[id].state)
      m  == Moved(d, s, id, to)
  IN  IF ok THEN [m EXCEPT !.s = Log(@, <<"started", id>>, refused)] ELSE m

(* try_admit_pending: the planner admits one of the waiting tasks or none. *)
Admits(d, s, refused) ==
  LET waiting == {id \in d.pending : id \in DOMAIN d.tasks /\ d.tasks[id].state = "Queued"}
      kept    == [d EXCEPT !.pending = waiting]
  IN  {[d |-> kept, s |-> s]} \cup
      {Launch([kept EXCEPT !.pending = @ \ {x[1]}], s, x[1], x[2], refused) : x \in waiting \X BOOLEAN}

StartTask(id, refused) ==
  IF id \in daemon.live THEN {Gives(daemon, store, "Task", id)}
  ELSE IF id \notin DOMAIN daemon.tasks \/ daemon.tasks[id].state # "Queued" THEN Refuses
  ELSE {Gives(m.d, m.s, "Task", id) :
          m \in Admits([daemon EXCEPT !.pending = @ \cup {id}], store, refused)}

Restart(id, refused) ==
  IF id \in daemon.live THEN {Gives(daemon, store, "Task", id)}
  ELSE IF id \notin DOMAIN daemon.tasks \/ daemon.tasks[id].state = "Terminated" THEN Refuses
  ELSE LET m == Moved(daemon, store, id, ForceRequeue(daemon.tasks[id].state))
           s == Log(m.s, <<"restarted", id>>, refused)
           L(ok) == Launch(m.d, s, id, ok, refused)
       IN  {Gives(L(TRUE).d, L(TRUE).s, "Task", id), Gives(L(FALSE).d, L(FALSE).s, "Error", Nothing)}

Terminate(id, refused) ==
  IF id \notin DOMAIN daemon.tasks THEN Refuses
  ELSE LET m == Moved(daemon, store, id, TerminateWalk(daemon.tasks[id].state))
       IN  {Gives([m.d EXCEPT !.pending = @ \ {id}], Log(m.s, <<"terminated", id>>, refused),
                  "Task", id)}

(* The task leaves memory first: a refused deletion leaves its row behind. *)
Forget(id, refused) ==
  IF id \in daemon.live \/ id \notin DOMAIN daemon.tasks
    \/ daemon.tasks[id].state \notin {"Failed", "Terminated"} THEN Refuses
  ELSE LET Without(f) == Restrict(f, DOMAIN f \ {id})
           d == [daemon EXCEPT !.tasks = Without(@)]
       IN  IF "row" \in refused THEN {Gives(d, store, "Error", Nothing)}
           ELSE {Gives(d, Log([store EXCEPT !.tasks = Without(@)], <<"forgotten", id>>, refused),
                       "Ok", Nothing)}

AddWorkspace(repo, refused) ==
  IF repo = Nothing \/ "row" \in refused THEN Refuses
  ELSE {Gives([daemon EXCEPT !.folders = @ \cup {repo}],
              Log([store EXCEPT !.folders = @ \cup {repo}], <<"workspace_added", repo>>, refused),
              "Workspace", repo)}

RemoveWorkspace(repo, refused) ==
  IF repo \notin daemon.folders THEN Refuses
  ELSE LET s == IF "row" \in refused THEN store ELSE [store EXCEPT !.folders = @ \ {repo}]
       IN  {Gives([daemon EXCEPT !.folders = @ \ {repo}], Log(s, <<"workspace_removed", repo>>, refused),
                  "Ok", Nothing)}

(* Counts the rows, which a refused forget leaves behind.                  *)
RowsFor(repo) == {id \in DOMAIN store.tasks : store.tasks[id].repo = repo}

TasksOf(repo) == {id \in DOMAIN daemon.tasks : daemon.tasks[id].repo = repo}

(* What a reader is given: the tasks, a few figures about the daemon, the  *)
(* first page of the events, and the workspaces with the tasks of each.    *)
ListTasks      == daemon.tasks
InfoNow        == Cardinality(DOMAIN daemon.tasks)
Page(events)   == SubSeq(events, 1, IF Len(events) < EventPage THEN Len(events) ELSE EventPage)
EventViews     == Page(store.events)
WorkspaceViews == [f \in daemon.folders |-> Cardinality(TasksOf(f))]

Read(op) ==
  {Gives(daemon, store, op,
     CASE op = "list"     -> ListTasks
       [] op = "pressure" -> Nothing
       [] op = "info"     -> InfoNow
       [] op = "events"   -> EventViews
       [] op = "folders"  -> WorkspaceViews)}

(* DaemonState::handle, and the answer to a frame that is no request.      *)
HandlerOutcomes(r, refused) ==
  CASE r.op \in {"create", "submit"} -> CreateTask(r.arg, refused)
    [] r.op = "start"     -> StartTask(r.arg, refused)
    [] r.op = "restart"   -> Restart(r.arg, refused)
    [] r.op = "terminate" -> Terminate(r.arg, refused)
    [] r.op = "forget"    -> Forget(r.arg, refused)
    [] r.op = "add"       -> AddWorkspace(r.arg, refused)
    [] r.op = "remove"    -> RemoveWorkspace(r.arg, refused)
    [] r.op \in ReadOps   -> Read(r.op)
    [] r.op = "garbage"   -> Refuses

-----------------------------------------------------------------------------
(* A client's connection, step by step.                                    *)

Phase(c, p) == conn[c].phase = p

(* Client::call: connect, write length and body, flush.                    *)
Dialled(requests) ==
  IF requests = <<>> THEN Closed
  ELSE [Closed EXCEPT !.phase = IF serving THEN "sent" ELSE "broken",
                      !.request = Head(requests)]

(* handle_conn: one frame read, parsed and handled under the lock, and     *)
(* then its answer written.                                                *)
Handle(c) ==
  /\ serving /\ Phase(c, "sent") /\ conn[c].request.op # "oversized"
  /\ \E refused \in SUBSET {"row", "event"} :
       /\ faults + Cardinality(refused) <= MaxFaults
       /\ conn[c].request.op \in {"create", "submit"} => born < MaxTasks
       /\ \E o \in HandlerOutcomes(conn[c].request, refused) :
            /\ daemon' = o.daemon /\ store' = o.store
            /\ version' = IF <<o.daemon, o.store>> = <<daemon, store>> THEN version ELSE version + 1
            /\ conn' = [conn EXCEPT ![c].phase = "answered", ![c].answer = o.answer,
                                    ![c].ran = @ + 1, ![c].changed = <<o.daemon, o.store>> # <<daemon, store>>]
            /\ born' = Max({born} \cup DOMAIN o.daemon.tasks)
            /\ dropped' = dropped \cup (DOMAIN daemon.tasks \ DOMAIN o.daemon.tasks)
            /\ unlogged' = unlogged \cup
                 (IF "event" \in refused THEN DOMAIN o.daemon.tasks \ DOMAIN daemon.tasks ELSE {})
       /\ faults' = faults + Cardinality(refused)
  /\ UNCHANGED <<serving, clientVars, promised, actions>>

(* read_frame turns a frame over 16 MiB into an error: no answer.          *)
RejectOversized(c) ==
  /\ serving /\ Phase(c, "sent") /\ conn[c].request.op = "oversized"
  /\ conn' = [conn EXCEPT ![c].phase = "broken"]
  /\ UNCHANGED <<serving, daemon, store, version, clientVars, historyVars, born, actions, faults>>

-----------------------------------------------------------------------------
(* What a call's end means to the client that made it.                     *)

(* Client::create, start, restart, terminate and forget turn an error      *)
(* answer into a failure, and so does a reader of the command line's       *)
(* output; add_workspace and the new-task form look only at the transport. *)
Heeds(c, op) == c \in Shells \/ op \in TaskOps \cup {"create"}
Result(c, arrived) ==
  IF ~conn[c].user THEN "interrupted"
  ELSE IF ~arrived THEN "failed"
  ELSE IF conn[c].answer.kind = "Error" /\ Heeds(c, conn[c].request.op) THEN "error" ELSE "ok"

(* What a dashboard calls next: a launch starts what it created, then      *)
(* restarts what would not start, then looks; fetch gives up at the first  *)
(* call that fails.                                                        *)
Onward(c, result) ==
  LET op == conn[c].request.op
      ok == result = "ok"
  IN  IF c \in Shells THEN <<>> ELSE
      CASE op = "create" -> IF ok THEN <<Req("start", conn[c].answer.data)>> ELSE <<>>
        [] op = "start"  -> IF ok THEN Fetch ELSE <<Req("restart", conn[c].request.arg)>>
        [] op = "restart" -> Fetch
        [] op \in {"submit", "add", "terminate", "forget"} -> IF ok THEN Fetch ELSE <<>>
        [] op \in ReadOps -> IF ok THEN Tail(program[c]) ELSE <<>>

(* An answer of another kind than asked for leaves that part empty.        *)
Gather(c) ==
  LET op == conn[c].request.op
      a  == conn[c].answer
      new == IF op = "list" THEN NoData ELSE partial[c]
  IN  [new EXCEPT ![op] = IF a.kind = op THEN a ELSE NoAnswer]

EndCall(c, arrived) ==
  LET result == Result(c, arrived)
      op == conn[c].request.op
  IN  /\ told' = [told EXCEPT ![c] = [op |-> op, kind |-> conn[c].answer.kind, ran |-> conn[c].ran,
                                         changed |-> conn[c].changed, result |-> result]]
      /\ program' = [program EXCEPT ![c] = Onward(c, result)]
      /\ conn' = [conn EXCEPT ![c] = Dialled(program'[c])]
      /\ partial' = IF c \in Dashboards
                      THEN [partial EXCEPT ![c] =
                              IF op \in ReadOps \ {"folders"} /\ result = "ok" THEN Gather(c) ELSE NoData]
                      ELSE partial
      /\ dashboard' = IF c \in Dashboards /\ op = "folders" /\ result = "ok"
                        THEN [dashboard EXCEPT ![c] = Gather(c)] ELSE dashboard
      /\ promised' = IF result \in {"ok", "error"} /\ conn[c].answer.kind = "Task" /\ op \in {"create", "submit"}
                       THEN promised \cup {conn[c].answer.data} ELSE promised
      /\ UNCHANGED <<serving, daemon, store, version, dropped, unlogged, born, actions, faults>>

(* Bytes already in the socket are read even after the daemon is gone.     *)
Receive(c)  == Phase(c, "answered") /\ EndCall(c, TRUE)
LoseLine(c) == Phase(c, "broken") /\ EndCall(c, FALSE)

-----------------------------------------------------------------------------
(* Users ask for what the command line and the user interface offer; a     *)
(* program of another version asks for what this daemon cannot parse.      *)
AskedByShell ==
  {<<r>> : r \in Request \ [op : {"submit", "pressure", "info", "events", "folders"} \cup
                                  {"terminate", "forget", "restart"},
                            arg : Repos \cup Ids \cup {Nothing}]}
AskedByDashboard ==
  {Fetch} \cup {<<r>> : r \in [op : {"create", "submit", "add"}, arg : Repos \cup {Nothing}] \cup
                              [op : {"start", "terminate", "forget"}, arg : 1..born]}

Asks(c) ==
  /\ actions < MaxActions /\ actions' = actions + 1
  /\ Phase(c, "closed")
  /\ \E p \in IF c \in Shells THEN AskedByShell ELSE AskedByDashboard :
       /\ program' = [program EXCEPT ![c] = p]
       /\ conn' = [conn EXCEPT ![c] = Dialled(p)]
  /\ told' = [told EXCEPT ![c] = NoneTold]
  /\ UNCHANGED <<serving, daemon, store, version, partial, dashboard, historyVars, born, faults>>

(* The command line interrupted: a frame cut short ends the connection, a  *)
(* whole one is handled all the same.                                      *)
Interrupt(c) ==
  /\ faults < MaxFaults /\ faults' = faults + 1
  /\ c \in Shells /\ conn[c].user /\ Phase(c, "sent")
  /\ \E whole \in BOOLEAN :
       conn' = [conn EXCEPT ![c].user = FALSE, ![c].phase = IF whole THEN @ ELSE "broken"]
  /\ UNCHANGED <<serving, daemon, store, version, clientVars, historyVars, born, actions>>

DaemonDies ==
  /\ serving /\ faults < MaxFaults
  /\ serving' = FALSE /\ faults' = faults + 1
  /\ \E unwritten \in SUBSET {c \in Callers : Phase(c, "answered")} :
       conn' = [c \in Callers |->
                  IF Phase(c, "sent") \/ c \in unwritten
                    THEN [conn[c] EXCEPT !.phase = "broken"] ELSE conn[c]]
  /\ UNCHANGED <<daemon, store, version, clientVars, historyVars, born, actions>>

(* run_serve, boot: memory is what the tables say; no provider survives.   *)
Serve ==
  /\ ~serving /\ serving' = TRUE
  /\ daemon' = [tasks |-> store.tasks, live |-> {}, pending |-> {}, folders |-> store.folders]
  /\ version' = version + 1
  /\ UNCHANGED <<store, conn, clientVars, historyVars, born, actions, faults>>

(* The pump, between requests: a provider exits, a waiting task is admitted. *)
Pumps ==
  /\ serving
  /\ \E m \in {Moved(daemon, Log(store, <<"process_exited", id>>, {}), id,
                      TerminateWalk(daemon.tasks[id].state)) : id \in daemon.live}
             \cup Admits(daemon, store, {}) :
       /\ <<m.d, m.s>> # <<daemon, store>>
       /\ daemon' = m.d /\ store' = m.s /\ version' = version + 1
  /\ UNCHANGED <<serving, conn, clientVars, historyVars, born, actions, faults>>

ConnectionStep(c) ==
  Handle(c) \/ RejectOversized(c)
ClientStep(c) ==
  Asks(c) \/ Receive(c) \/ LoseLine(c) \/ Interrupt(c)

ProtocolNext ==
  \/ \E c \in Callers : ClientStep(c) \/ ConnectionStep(c)
  \/ DaemonDies \/ Serve \/ Pumps

ProtocolSpec == ProtocolInit /\ [][ProtocolNext]_protocolVars

-----------------------------------------------------------------------------
(* What came of a call, and what its client is told of it, agree           *)
(* (memmux client.rs:30, server.rs:57, frame.rs:19):                       *)
(* a call is executed at most once, and exactly once when an answer came;  *)
(* a call that failed may have been executed or not.  What is told to have *)
(* failed changed nothing, but for a restart whose launch failed and a     *)
(* forget whose deletion did.  What is told to have worked did, but for    *)
(* the two calls whose client looks only at the transport.  A task a       *)
(* client was told of is in the durable store until a forget removes it,   *)
(* whatever the daemon lives through.  And nobody waits on a connection    *)
(* that nobody holds.                                                      *)
CallsAreTruthful ==
  /\ \A c \in Callers :
       LET t == told[c]
       IN  /\ {t.ran, conn[c].ran} \subseteq {0, 1}
           /\ t.result \in {"ok", "error"} => t.ran = 1
           /\ t.result = "error" /\ t.changed => t.op \in {"restart", "forget"}
           /\ t.result = "ok" /\ t.kind = "Error" => t.op \in {"add", "submit"}
           /\ Phase(c, "sent") => serving
  /\ promised \subseteq DOMAIN store.tasks \cup dropped

(* The five answers of a dashboard's refresh (memmux client.rs:50) are     *)
(* taken at five moments.  They come from the refresh itself, in order,    *)
(* and two that were taken with no change between them agree: the count of *)
(* tasks with the list, a workspace's count with the tasks of its          *)
(* repository, and the log with the list: a task that is listed was logged *)
(* when it was created, unless the store refused the event or the page     *)
(* ended before.                                                           *)
DashboardIsExplained ==
  \A c \in Dashboards :
    LET seen(op) == dashboard[c][op]
        same(op) == /\ seen("list").kind = "list" /\ seen(op).kind = op
                    /\ seen(op).at = seen("list").at
        listed   == seen("list").data
    IN  dashboard[c] # NoData =>
          /\ \A i \in 1..4 : seen(Fetch[i].op).at <= seen(Fetch[i + 1].op).at
          /\ same("info") => seen("info").data = Cardinality(DOMAIN listed)
          /\ same("folders") => \A f \in DOMAIN seen("folders").data :
               seen("folders").data[f] = Cardinality({id \in DOMAIN listed : listed[id].repo = f})
          /\ same("events") => \A id \in DOMAIN listed \ unlogged :
               \/ <<"task_created", id>> \in Range(seen("events").data)
               \/ Len(seen("events").data) = EventPage

=============================================================================
