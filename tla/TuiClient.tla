------------------------------ MODULE TuiClient ------------------------------
(***************************************************************************)
(* The terminal client: what it last fetched, the sidebar's selections,    *)
(* the panes of each workspace group with their attach sessions, and the   *)
(* keys and clicks that act on them.  A key is handled to its end, socket  *)
(* calls included, before the next is read; the daemon's tasks and         *)
(* workspaces move underneath, seen only when the client fetches.  The     *)
(* tiling of a group is kept as the order of its panes (PaneTree has the   *)
(* tree).                                                                  *)
(***************************************************************************)
EXTENDS Integers, Sequences, FiniteSets, SequencesExt, FiniteSetsExt

CONSTANTS
  Agents,        \* the tasks, in the order the daemon lists them
  Folders,       \* the repositories, in the order their workspaces are listed
  FolderOf,      \* the repository of each task
  OtherGroup,    \* OTHER_WS_KEY
  Nobody,        \* no task, no group, a header row
  AtStart,       \* what the daemon may list when the client starts
  LaunchDir,     \* Model::cwd, the directory the client was started in
  LaunchRepo,    \* Model::cwd_repo, its repository, or Nobody where it is in none
  MaxKeys,       \* bound: keys and clicks
  MaxOutside     \* bound: moves of the daemon and of other clients, calls that fail

ASSUME TuiAssumption ==
  /\ Agents \in Seq(ToSet(Agents)) /\ Folders \in Seq(ToSet(Folders))
  /\ FolderOf \in [ToSet(Agents) -> ToSet(Folders)] /\ {MaxOutside, MaxKeys} \subseteq Nat
  /\ \A start \in AtStart : /\ start.workspaces \subseteq ToSet(Folders)
                             /\ start.tasks \in [ToSet(Agents) ->
                                  {"unborn", "Queued", "Active", "Hibernated", "Failed", "Terminated"}]
  /\ LaunchDir \in ToSet(Folders) /\ LaunchRepo \in {LaunchDir, Nobody}
  /\ {OtherGroup, Nobody} \cap (ToSet(Agents) \cup ToSet(Folders)) = {} /\ OtherGroup # Nobody

VARIABLES
  agentState,    \* the daemon's tasks
  registered,    \* the daemon's workspaces
  ui,            \* Model
  sessions,      \* PaneManager::sessions
  regrouped,     \* tasks that changed group while a pane of theirs was open
  keys, outside

tuiVars == <<agentState, registered, ui, sessions, regrouped, keys, outside>>

Absences == {"unborn", "gone"}
States   == {"Queued", "Active", "Hibernated", "Failed", "Terminated"} \cup Absences
Groups   == ToSet(Folders) \cup {OtherGroup}
AgentIds   == ToSet(Agents)

Fetched == [tasks |-> agentState, workspaces |-> registered]

TuiTypeOK ==
  /\ agentState \in [AgentIds -> States] /\ registered \subseteq ToSet(Folders)
  /\ ui.data.tasks \in [AgentIds -> States] /\ ui.data.workspaces \subseteq ToSet(Folders)
  /\ ui.view \in {"Home", "NewTask", "Launch", "Confirm", "OpenFolder", "Help"}
  /\ ui.pending \in {Nobody} \cup [action : {"Terminate", "Forget"}, task : AgentIds]
  /\ ui.launchRepo \in ToSet(Folders) \cup {Nobody}
  /\ ui.sidebar \in {"Workspaces", "Agents"} /\ ui.focus \in {"Sidebar", "Panes"}
  /\ ui.wsSelected \in Nat \ {0} /\ ui.agentSelected \in Nat \ {0}
  /\ ui.panes \in [Groups -> Seq(AgentIds)]
  /\ ui.activeWs \in Groups \cup {Nobody} /\ ui.focusedPane \in AgentIds \cup {Nobody}
  /\ sessions \in [AgentIds -> {"none", "live", "dead"}]
  /\ regrouped \subseteq AgentIds /\ keys \in 0..MaxKeys /\ outside \in 0..MaxOutside

-----------------------------------------------------------------------------
(* The rows of the two sidebar panels.                                     *)

(* The entries of a list that are in S, in their order.                    *)
Filtered(s, S) ==
  LET upTo[n \in 0..Len(s)] ==
        IF n = 0 THEN <<>>
        ELSE IF s[n] \in S THEN Append(upTo[n - 1], s[n]) ELSE upTo[n - 1]
  IN  upTo[Len(s)]

(* ws_key: where the fetched data puts a task.                             *)
WsKey(data, t) ==
  IF data.tasks[t] \notin Absences /\ FolderOf[t] \in data.workspaces THEN FolderOf[t] ELSE OtherGroup

Listed(data, g) == {t \in AgentIds : data.tasks[t] \notin Absences /\ WsKey(data, t) = g}

RegisteredIn(data) == Filtered(Folders, data.workspaces)

WsItems(data) ==
  RegisteredIn(data) \o IF Listed(data, OtherGroup) = {} THEN <<>> ELSE <<OtherGroup>>

(* The panel by group: the header of each, and every task below it.  Shown *)
(* are the headers of WsItems, and of the tasks those that are in it.      *)
Row(k) ==
  LET each == Len(Agents) + 1  group == (k - 1) \div each + 1  at == (k - 1) % each IN
  [group |-> IF group \in DOMAIN Folders THEN Folders[group] ELSE OtherGroup,
   item  |-> IF at = 0 THEN Nobody ELSE Agents[at]]
AllRows == [k \in 1..((Len(Folders) + 1) * (Len(Agents) + 1)) |-> Row(k)]
NavItems(data) ==
  LET groups == ToSet(WsItems(data))
      shown  == {r \in ToSet(AllRows) : IF r.item = Nobody THEN r.group \in groups
                                         ELSE r.item \in Listed(data, r.group)}
      rows   == Filtered(AllRows, shown)
  IN  [i \in DOMAIN rows |-> rows[i].item]

AgentRows(data) == LET items == NavItems(data) IN {i \in DOMAIN items : items[i] # Nobody}

SelectedAgent(u) ==
  LET items == NavItems(u.data)
  IN  IF u.agentSelected \in DOMAIN items THEN items[u.agentSelected] ELSE Nobody

(* snap_agent_to_selectable, downwards first.                              *)
Snapped(data, row) ==
  LET rows == AgentRows(data)
      last == Len(NavItems(data))
      at   == IF row > last THEN last ELSE row
  IN  IF at \in rows \/ rows = {} THEN IF at = 0 THEN 1 ELSE at
      ELSE IF \E r \in rows : r > at THEN Min({r \in rows : r > at}) ELSE Max(rows)

-----------------------------------------------------------------------------
(* The pure operations of the model.                                       *)

FirstPane(u, g) == IF u.panes[g] = <<>> THEN Nobody ELSE Head(u.panes[g])
Open(u, g)      == g # Nobody /\ u.panes[g] # <<>>

(* Clamps the selection and leaves it on a header.                         *)
SetDataClamping(u, data) ==
  LET last == Len(WsItems(data))  rows == Len(NavItems(data)) IN
  [u EXCEPT !.data = data,
            !.wsSelected = IF @ > last THEN (IF last = 0 THEN 1 ELSE last) ELSE @,
            !.agentSelected = IF @ > rows THEN (IF rows = 0 THEN 1 ELSE rows) ELSE @]

SetData(u, data) ==
  LET last == Len(WsItems(data)) IN
  [u EXCEPT !.data = data,
            !.wsSelected = IF @ > last THEN (IF last = 0 THEN 1 ELSE last) ELSE @,
            !.agentSelected = Snapped(data, @)]

SyncActiveWs(u) ==
  IF u.wsSelected \notin DOMAIN WsItems(u.data) THEN u
  ELSE LET g == WsItems(u.data)[u.wsSelected] IN
       [u EXCEPT !.activeWs = g, !.focusedPane = FirstPane(u, g)]

(* Beside the focused pane if it is in the group, else beside the last.    *)
OpenPane(u, t) ==
  LET g     == WsKey(u.data, t)
      panes == u.panes[g]
      at    == IF u.focusedPane \in ToSet(panes)
               THEN CHOOSE i \in DOMAIN panes : panes[i] = u.focusedPane ELSE Len(panes)
  IN  [u EXCEPT !.focus = "Panes", !.activeWs = g, !.focusedPane = t,
                !.panes[g] = IF t \in ToSet(panes) THEN @ ELSE InsertAt(@, at + 1, t)]

(* What is focused when the pane is gone: its neighbourhood, another       *)
(* group's first pane, or the sidebar.                                     *)
Refocused(u) ==
  LET others == {g \in Groups : u.panes[g] # <<>>}
      next   == IF OtherGroup \in others THEN OtherGroup
                ELSE Head(Filtered(Folders, others))
  IN  IF Open(u, u.activeWs)
        THEN IF u.focusedPane \in ToSet(u.panes[u.activeWs]) THEN u
             ELSE [u EXCEPT !.focusedPane = FirstPane(u, u.activeWs)]
      ELSE IF others # {}
        THEN [u EXCEPT !.activeWs = next, !.focusedPane = FirstPane(u, next)]
      ELSE [u EXCEPT !.activeWs = Nobody, !.focusedPane = Nobody, !.focus = "Sidebar"]

Without(panes, t) == Filtered(panes, AgentIds \ {t})

(* Looks for the pane in the group on screen.                              *)
ClosePaneShown(u, t) ==
  Refocused(IF u.activeWs = Nobody THEN u ELSE [u EXCEPT !.panes[u.activeWs] = Without(@, t)])

(* Looks for the pane in the group the task belongs to now.                *)
ClosePane(u, t) == Refocused([u EXCEPT !.panes[WsKey(u.data, t)] = Without(@, t)])

MoveSelection(u, down) ==
  LET rows  == AgentRows(u.data)
      ahead == {r \in rows : IF down THEN r > u.agentSelected ELSE r < u.agentSelected}
      next  == IF down THEN u.wsSelected + 1 ELSE u.wsSelected - 1
  IN  IF u.sidebar = "Workspaces"
        THEN SyncActiveWs([u EXCEPT !.wsSelected =
                             IF next \in DOMAIN WsItems(u.data) THEN next ELSE @])
      ELSE IF ahead = {} THEN u
      ELSE [u EXCEPT !.agentSelected = IF down THEN Min(ahead) ELSE Max(ahead)]

(* Where a new agent goes: to the repository of the selected workspace, or *)
(* of the selected agent's, else to the one the client was started in; the *)
(* palette falls back on that directory itself, and a split prefers the    *)
(* workspace of the pane it splits.                                        *)
RepoOf(u, g, otherwise) == IF g \in u.data.workspaces THEN g ELSE otherwise
DefaultRepo(u) ==
  LET t == SelectedAgent(u) IN
  IF u.sidebar = "Workspaces"
    THEN IF u.wsSelected \in DOMAIN WsItems(u.data)
         THEN RepoOf(u, WsItems(u.data)[u.wsSelected], LaunchRepo) ELSE LaunchRepo
  ELSE IF t = Nobody THEN LaunchRepo ELSE RepoOf(u, FolderOf[t], LaunchRepo)
LaunchTarget(u) == IF DefaultRepo(u) = Nobody THEN LaunchDir ELSE DefaultRepo(u)
SplitTarget(u) ==
  LET t == u.focusedPane IN
  IF t = Nobody \/ u.data.tasks[t] \in Absences THEN LaunchTarget(u)
  ELSE RepoOf(u, FolderOf[t], LaunchTarget(u))

(* The palette, aimed at a repository; what it aims at is not read again   *)
(* once it is closed.                                                      *)
Palette(u, repo) == [u EXCEPT !.view = "Launch", !.launchRepo = repo]
Home(u)          == [u EXCEPT !.view = "Home", !.pending = Nobody, !.launchRepo = Nobody]

-----------------------------------------------------------------------------
(* One turn of the event loop ends in sync_panes: sessions without a pane  *)
(* are dropped.                                                            *)

Paned(u) == UNION {ToSet(u.panes[g]) : g \in Groups}

Moved(u, v) == {t \in Paned(u) \cup Paned(v) : WsKey(u.data, t) # WsKey(v.data, t)}

EndsTurn(u, kept) ==
  /\ keys < MaxKeys /\ keys' = keys + 1
  /\ ui' = u
  /\ sessions' = [t \in AgentIds |-> IF t \in Paned(ui') THEN kept[t] ELSE "none"]
  /\ regrouped' = regrouped \cup Moved(ui, ui')

Turn(u) == EndsTurn(u, sessions) /\ UNCHANGED <<agentState, registered, outside>>

(* refresh: the daemon answers, or the data stays.                         *)
Refreshes(u, reached) == IF reached THEN SetData(u, [tasks |-> agentState', workspaces |-> registered']) ELSE u

(* Once a second.                                                          *)
RefreshTick ==
  /\ ui' = SetData(ui, Fetched)
  /\ regrouped' = regrouped \cup Moved(ui, ui')
  /\ UNCHANGED <<agentState, registered, sessions, keys, outside>>

(* main fetches before the first key.                                      *)
TuiInit ==
  /\ \E start \in AtStart : agentState = start.tasks /\ registered = start.workspaces
  /\ ui = SetData([data |-> [tasks |-> [t \in AgentIds |-> "unborn"], workspaces |-> {}], view |-> "Home", pending |-> Nobody,
           launchRepo |-> Nobody, sidebar |-> "Workspaces", wsSelected |-> 1, agentSelected |-> 1,
           panes |-> [g \in Groups |-> <<>>], activeWs |-> Nobody, focusedPane |-> Nobody,
           focus |-> "Sidebar"], Fetched)
  /\ sessions = [t \in AgentIds |-> "none"]
  /\ regrouped = {} /\ keys = 0 /\ outside = 0

-----------------------------------------------------------------------------
(* Socket calls.                                                           *)

(* How many of the calls a key makes fail; they count as outside moves.    *)
Outside(events) ==
  /\ outside + events <= MaxOutside
  /\ outside' = outside + events

(* Starts a queued task if it is admitted, or restarts one that has no     *)
(* provider; `ok` is what open_agent_pane goes by.                         *)
Startable == {"Queued", "Active", "Hibernated", "Failed"}
StartOrRestart(t, ok) ==
  \/ /\ ok /\ agentState[t] \in Startable
     /\ \E s \in {"Queued", "Active"} :
          /\ s = "Queued" => agentState[t] = "Queued"
          /\ agentState' = [agentState EXCEPT ![t] = s]
  \/ /\ ~ok
     /\ agentState' = [agentState EXCEPT ![t] = IF @ \in {"Hibernated", "Queued"} THEN "Failed" ELSE @]

(* open_agent_pane, from the model u in which the key left the screen.     *)
OpenAgentPane(u, t) ==
  \/ /\ StartOrRestart(t, TRUE)
     /\ \E reached, attaches \in BOOLEAN :
          LET shown == OpenPane(Refreshes(u, reached), t) IN
          /\ Outside(Cardinality({call \in {<<"fetch", reached>>, <<"attach", attaches>>} : ~call[2]}))
          /\ IF sessions[t] # "none" THEN EndsTurn(shown, sessions)
             ELSE IF attaches THEN EndsTurn(shown, [sessions EXCEPT ![t] = "live"])
             ELSE EndsTurn(ClosePane(shown, t), sessions)
  \/ /\ StartOrRestart(t, FALSE)
     /\ Outside(IF agentState[t] \in Startable THEN 1 ELSE 0)
     /\ EndsTurn(Refreshes(ClosePane(u, t), TRUE), sessions)

-----------------------------------------------------------------------------
(* Keys in the sidebar and in the modal views.                             *)

AtSidebar == ui.view = "Home" /\ ui.focus = "Sidebar"

OpenView(view) ==
  /\ AtSidebar /\ view \in {"Help", "OpenFolder", "Launch", "NewTask"}
  /\ Turn(IF view = "Launch" THEN Palette(ui, LaunchTarget(ui)) ELSE [ui EXCEPT !.view = view])

Escape ==
  /\ ui.view # "Home"
  /\ Turn(Home(ui))

ToggleSection ==
  /\ AtSidebar
  /\ Turn([ui EXCEPT !.sidebar = IF @ = "Agents" THEN "Workspaces" ELSE "Agents"])

Select(down) == AtSidebar /\ Turn(MoveSelection(ui, down))

(* What the state last fetched calls for is settled with the question.     *)
AskToClose ==
  LET t == SelectedAgent(ui) IN
  /\ AtSidebar /\ t # Nobody
  /\ Turn([ui EXCEPT !.view = "Confirm",
             !.pending = [task |-> t, action |-> IF ui.data.tasks[t] \in {"Failed", "Terminated"}
                                                 THEN "Forget" ELSE "Terminate"]])

Activate ==
  /\ AtSidebar
  /\ \/ ui.sidebar = "Workspaces" /\ Turn(Palette(ui, DefaultRepo(ui)))
     \/ LET t == SelectedAgent(ui) IN
        /\ ui.sidebar = "Agents" /\ t # Nobody /\ ui.data.tasks[t] # "Terminated"
        /\ UNCHANGED registered
        /\ OpenAgentPane(OpenPane(ui, t), t)

(* The daemon may have moved on since the question: it forgets only what   *)
(* has ended, and terminates whatever it still has.                        *)
ConfirmClose ==
  LET t == ui.pending.task
      forgets == ui.pending.action = "Forget"
      allowed == IF forgets THEN agentState[t] \in {"Failed", "Terminated"}
                 ELSE agentState[t] \notin Absences
  IN  /\ ui.view = "Confirm" /\ UNCHANGED registered
      /\ \/ /\ allowed /\ Outside(0)
            /\ agentState' = [agentState EXCEPT ![t] = IF forgets THEN "gone" ELSE "Terminated"]
            /\ EndsTurn(Refreshes(ClosePane(Home(ui), t), TRUE),
                        [sessions EXCEPT ![t] = "none"])
         \/ /\ Outside(IF allowed THEN 1 ELSE 0) /\ UNCHANGED agentState
            /\ EndsTurn(Refreshes(Home(ui), TRUE), sessions)

(* The form creates a task; the palette also starts it and opens its pane. *)
SubmitForm ==
  /\ ui.view = "NewTask"
  /\ \E t \in AgentIds :
       /\ agentState[t] = "unborn"
       /\ agentState' = [agentState EXCEPT ![t] = "Queued"]
  /\ UNCHANGED <<registered, outside>>
  /\ EndsTurn(Refreshes(Home(ui), TRUE), sessions)

LaunchNowhere == ui.view = "Launch" /\ ui.launchRepo = Nobody /\ Turn(Home(ui))
QuickLaunch ==
  /\ ui.view = "Launch"
  /\ UNCHANGED registered
  /\ \E t \in {a \in AgentIds : FolderOf[a] = ui.launchRepo}, s \in {"Queued", "Active"}, reached, attaches \in BOOLEAN :
       LET shown == OpenPane(Refreshes(Home(ui), reached), t) IN
       /\ agentState[t] = "unborn"
       /\ agentState' = [agentState EXCEPT ![t] = s]
       /\ Outside(Cardinality({call \in {<<"fetch", reached>>, <<"attach", attaches>>} : ~call[2]}))
       /\ IF attaches THEN EndsTurn(shown, [sessions EXCEPT ![t] = "live"])
          ELSE EndsTurn(ClosePane(shown, t), sessions)

(* The task is made, but its provider comes up neither way.                *)
QuickLaunchFails ==
  /\ ui.view = "Launch"
  /\ UNCHANGED registered
  /\ \E t \in {a \in AgentIds : FolderOf[a] = ui.launchRepo}, s \in {"Queued", "Failed"} :
       /\ agentState[t] = "unborn"
       /\ agentState' = [agentState EXCEPT ![t] = s]
       /\ Outside(1)
       /\ EndsTurn(Refreshes(ClosePane(Home(ui), t), TRUE), sessions)

AddFolder ==
  /\ ui.view = "OpenFolder"
  /\ \E f \in ToSet(Folders) : registered' = registered \cup {f}
  /\ UNCHANGED agentState
  /\ EndsTurn(Refreshes(Home(ui), TRUE), sessions)
  /\ UNCHANGED outside

-----------------------------------------------------------------------------
(* Keys in the pane grid: the leader and the command after it in one step. *)
(* Anything else typed there goes to the focused pane.                     *)

AtPanes == ui.view = "Home" /\ ui.focus = "Panes"

LeaderCommand ==
  /\ AtPanes
  /\ Turn([ui EXCEPT !.focus = "Sidebar"]) \/ Turn(Palette(ui, SplitTarget(ui)))

(* focus_dir: some other pane of the group on screen.                      *)
FocusDir ==
  /\ AtPanes /\ ui.activeWs # Nobody
  /\ \E t \in ToSet(ui.panes[ui.activeWs]) \ {ui.focusedPane} : Turn([ui EXCEPT !.focusedPane = t])

CloseFocused ==
  LET t == ui.focusedPane IN
  /\ AtPanes /\ t # Nobody
  /\ EndsTurn(ClosePane(ui, t), [sessions EXCEPT ![t] = "none"])
  /\ UNCHANGED <<agentState, registered, outside>>

-----------------------------------------------------------------------------
(* Clicks.                                                                 *)

ClickWorkspace ==
  /\ ui.view = "Home"
  /\ \E row \in DOMAIN WsItems(ui.data) :
       Turn(SyncActiveWs([ui EXCEPT !.wsSelected = row, !.sidebar = "Workspaces",
                                    !.focus = "Sidebar"]))

ClickAgent ==
  /\ ui.view = "Home"
  /\ \E row \in DOMAIN NavItems(ui.data) :
       Turn([ui EXCEPT !.agentSelected = Snapped(ui.data, row), !.sidebar = "Agents",
                       !.focus = "Sidebar"])

(* By the rectangles of the tiling, zoomed or not.                         *)
ClickPane ==
  /\ ui.view = "Home" /\ ui.activeWs # Nobody
  /\ \E t \in ToSet(ui.panes[ui.activeWs]) :
       Turn([ui EXCEPT !.focusedPane = t, !.focus = "Panes"])

-----------------------------------------------------------------------------
(* The daemon and its other clients.                                       *)

(* The attach loop of a task without a runtime says so, and ends.          *)
SessionEnds(t) ==
  /\ sessions[t] = "live" /\ agentState[t] # "Active"
  /\ sessions' = [sessions EXCEPT ![t] = "dead"]
  /\ UNCHANGED <<agentState, registered, ui, regrouped, keys, outside>>

DaemonMoves(t) ==
  /\ Outside(1)
  /\ \E move \in {<<"Queued", "Active">>, <<"Active", "Terminated">>, <<"Active", "Hibernated">>,
                  <<"Hibernated", "Active">>, <<"Active", "Failed">>, <<"Terminated", "gone">>,
                  <<"unborn", "Queued">>} :
       /\ agentState[t] = move[1]
       /\ agentState' = [agentState EXCEPT ![t] = move[2]]
  /\ UNCHANGED <<registered, ui, sessions, regrouped, keys>>

WorkspaceMoves(f) ==
  /\ Outside(1)
  /\ registered' = IF f \in registered THEN registered \ {f} ELSE registered \cup {f}
  /\ UNCHANGED <<agentState, ui, sessions, regrouped, keys>>

-----------------------------------------------------------------------------
SidebarKey == ToggleSection \/ (\E down \in BOOLEAN : Select(down)) \/ AskToClose \/ Activate
              \/ \E view \in {"Help", "OpenFolder", "Launch", "NewTask"} : OpenView(view)
ModalKey   == Escape \/ ConfirmClose \/ SubmitForm \/ LaunchNowhere \/ QuickLaunch
              \/ QuickLaunchFails \/ AddFolder
PaneKey    == LeaderCommand \/ FocusDir \/ CloseFocused
Click      == ClickWorkspace \/ ClickAgent \/ ClickPane

TuiNext ==
  \/ SidebarKey \/ ModalKey \/ PaneKey \/ Click \/ RefreshTick
  \/ \E t \in AgentIds : SessionEnds(t) \/ DaemonMoves(t)
  \/ \E f \in ToSet(Folders) : WorkspaceMoves(f)

TuiSpec == TuiInit /\ [][TuiNext]_tuiVars

-----------------------------------------------------------------------------
(* Properties.                                                             *)

(* Keys typed into the pane grid have a receiver the user can see: the     *)
(* focused pane is one of the group on screen.                             *)
FocusIsOpen ==
  /\ ui.focus = "Panes" => ui.focusedPane # Nobody
  /\ ui.focusedPane # Nobody =>
       ui.activeWs # Nobody /\ ui.focusedPane \in ToSet(ui.panes[ui.activeWs])

(* What `x` and Enter act on is an agent whenever there is one, however    *)
(* the list changed under the selection.                                   *)
SelectionIsAnAgent == AgentRows(ui.data) # {} => ui.agentSelected \in AgentRows(ui.data)

(* A task has one pane, with a session behind it.  Only a task whose       *)
(* workspace came or went while the pane was open can have two, or one     *)
(* that no longer closes.                                                  *)
PanesAreCoherent ==
  \A t \in AgentIds \ regrouped :
    /\ Cardinality({g \in Groups : t \in ToSet(ui.panes[g])}) <= 1
    /\ t \in Paned(ui) => sessions[t] # "none"

(* Through every mix of keys, clicks, refreshes and moves of the daemon    *)
(* the screen stays coherent.                                              *)
ScreenIsCoherent == FocusIsOpen /\ SelectionIsAnAgent /\ PanesAreCoherent

(* "Bring a task's provider up (start, else restart) and open it as a live *)
(* pane": a pane just opened on a running provider is attached to it.      *)
OpenedPaneIsLive ==
  [][LET t == SelectedAgent(ui) IN
     Activate /\ t # Nobody /\ ui'.focusedPane = t /\ agentState'[t] = "Active"
       => sessions'[t] = "live"]_tuiVars

=============================================================================
