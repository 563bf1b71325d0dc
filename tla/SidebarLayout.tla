---------------------------- MODULE SidebarLayout ----------------------------
(***************************************************************************)
(* The two panels of the sidebar: how high each is, which of its rows are  *)
(* drawn where, and which row a click finds.  Drawing and hit-testing are  *)
(* two pieces of code that share only the split.  Screen rows are counted  *)
(* from 0, the sidebar begins below the header.                            *)
(***************************************************************************)
EXTENDS Integers

LOCAL Lesser(a, b)  == IF a < b THEN a ELSE b
LOCAL Greater(a, b) == IF a > b THEN a ELSE b
SubZero(a, b)       == IF a < b THEN 0 ELSE a - b

(* sidebar_area: all but the header and the status line.                   *)
SidebarTop == 1

(* sidebar_split: the workspaces get their rows and a border, and leave    *)
(* three lines to the agents, if the sidebar has them.                     *)
WorkspacesHeight(height, folders) ==
  LET cap == Greater(SubZero(height, 3), 3)
  IN  Lesser(Lesser(Greater(folders + 2, 3), cap), height)
WorkspacesPanel(height, folders) == [y |-> SidebarTop, h |-> WorkspacesHeight(height, folders)]
AgentsPanel(height, folders) ==
  [y |-> SidebarTop + WorkspacesHeight(height, folders),
   h |-> SubZero(height, WorkspacesHeight(height, folders))]

Within(panel, row) == row > panel.y /\ row + 1 < panel.y + panel.h

(* select_nav_at: the row of a panel a click finds; -1 for none.           *)
HitIn(panel, rows, row) ==
  IF Within(panel, row) /\ row - panel.y - 1 < rows THEN row - panel.y - 1 ELSE -1
FolderHit(height, folders, row) == HitIn(WorkspacesPanel(height, folders), folders, row)
AgentHit(height, folders, agents, row) ==
  IF Within(WorkspacesPanel(height, folders), row) THEN -1
  ELSE HitIn(AgentsPanel(height, folders), agents, row)

(* render_ws_panel and render_agents_panel: a list inside a border, drawn  *)
(* from its first row on; it does not scroll.                              *)
DrawnAt(panel, rows, i, row) ==
  i \in 0..(rows - 1) /\ i < SubZero(panel.h, 2) /\ row = panel.y + 1 + i

(* A click finds the row that is drawn under it, and only that.            *)
ClicksFindWhatIsDrawn(height, folders, agents) ==
  \A row \in 0..(SidebarTop + height) :
    /\ \A i \in 0..(folders - 1) :
         DrawnAt(WorkspacesPanel(height, folders), folders, i, row) <=> FolderHit(height, folders, row) = i
    /\ \A i \in 0..(agents - 1) :
         DrawnAt(AgentsPanel(height, folders), agents, i, row) <=> AgentHit(height, folders, agents, row) = i

=============================================================================
