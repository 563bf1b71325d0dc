------------------------------ MODULE PaneTree ------------------------------
(***************************************************************************)
(* The tiling of one workspace's panes: a binary tree that splits, closes  *)
(* and resizes, the rectangles drawn for it, and the keys and clicks that  *)
(* move the focus over those rectangles.  (That the focused pane can be    *)
(* zoomed is left out: no key, click or split asks whether it is.)         *)
(***************************************************************************)
EXTENDS Integers, Sequences, FiniteSets, SequencesExt, SidebarLayout

CONSTANTS
  Panes,         \* the agents one may open
  Areas,         \* the sizes the grid may have: [w, h]
  Elsewhere,     \* the focus is on a pane of another workspace, or on none
  NoTree,        \* nothing is open
  Presses,       \* how often a resize key may be pressed in a row
  MaxResizes     \* bound: how often a boundary is moved

ASSUME PaneTreeAssumption ==
  /\ MaxResizes \in Nat /\ Presses \subseteq Nat /\ Elsewhere \notin Panes
  /\ \A a \in Areas : a.w \in Nat \ {0} /\ a.h \in Nat \ {0}

VARIABLES
  tree,          \* Leaf or Split
  paneFocus,     \* focused_pane
  splitOrient,   \* the orientation of the next split
  grid,          \* the size of the terminal's grid
  resizes

treeVars == <<tree, paneFocus, splitOrient, grid, resizes>>

Leaf(p)  == [leaf |-> p]
IsLeaf(t) == "leaf" \in DOMAIN t
Split(orient, ratio, a, b) == [orient |-> orient, ratio |-> ratio, a |-> a, b |-> b]

RECURSIVE Leaves(_)
Leaves(t) == IF t = NoTree THEN <<>> ELSE IF IsLeaf(t) THEN <<t.leaf>> ELSE Leaves(t.a) \o Leaves(t.b)

Open == ToSet(Leaves(tree))

RECURSIVE SplitLeaf(_, _, _, _)
SplitLeaf(t, target, new, orient) ==
  IF IsLeaf(t)
  THEN IF t.leaf = target THEN Split(orient, 50, t, Leaf(new)) ELSE t
  ELSE IF target \in ToSet(Leaves(t.a))
       THEN [t EXCEPT !.a = SplitLeaf(@, target, new, orient)]
       ELSE [t EXCEPT !.b = SplitLeaf(@, target, new, orient)]

(* The sibling takes the place of the split.                               *)
RECURSIVE Without(_, _)
Without(t, p) ==
  IF IsLeaf(t)
  THEN IF t.leaf = p THEN NoTree ELSE t
  ELSE LET a == Without(t.a, p)
           b == Without(t.b, p)
       IN  IF a = NoTree THEN b ELSE IF b = NoTree THEN a ELSE [t EXCEPT !.a = a, !.b = b]

Clamp(x, lo, hi) == IF x < lo THEN lo ELSE IF x > hi THEN hi ELSE x

Side(t, p) == IF p \in ToSet(Leaves(t.a)) THEN "a" ELSE "b"

(* The boundary of the nearest split of that orientation around the pane.  *)
RECURSIVE Governed(_, _, _)
Governed(t, p, orient) ==
  ~IsLeaf(t) /\ (t.orient = orient \/ Governed(t[Side(t, p)], p, orient))

RECURSIVE Resized(_, _, _, _)
Resized(t, p, orient, delta) ==
  IF ~Governed(t, p, orient) THEN t
  ELSE IF Governed(t[Side(t, p)], p, orient)
       THEN [t EXCEPT ![Side(t, p)] = Resized(@, p, orient, delta)]
       ELSE [t EXCEPT !.ratio = Clamp(@ + delta, 10, 90)]

(* ratatui's layout: percentages, rounded; the second part gets the rest.  *)
Share(size, ratio) == (size * ratio + 50) \div 100

RECURSIVE Rects(_, _)
Rects(t, area) ==
  IF IsLeaf(t) THEN t.leaf :> area
  ELSE LET w == Share(area.w, t.ratio)
           h == Share(area.h, t.ratio)
       IN  IF t.orient = "cols"
           THEN Rects(t.a, [area EXCEPT !.w = w])
                  @@ Rects(t.b, [area EXCEPT !.x = @ + w, !.w = @ - w])
           ELSE Rects(t.a, [area EXCEPT !.h = h])
                  @@ Rects(t.b, [area EXCEPT !.y = @ + h, !.h = @ - h])

Area  == [x |-> 0, y |-> 0, w |-> grid.w, h |-> grid.h]
Tiles == IF tree = NoTree THEN <<>> ELSE Rects(tree, Area)

TreeTypeOK ==
  /\ Open \subseteq Panes /\ paneFocus \in Open \cup {Elsewhere}
  /\ splitOrient \in {"cols", "rows"} /\ grid \in Areas
  /\ resizes \in 0..MaxResizes

TreeInit ==
  /\ tree = NoTree /\ paneFocus = Elsewhere /\ splitOrient = "cols"
  /\ grid \in Areas /\ resizes = 0

-----------------------------------------------------------------------------
ChooseOrientation ==
  /\ splitOrient' \in {"cols", "rows"} \ {splitOrient}
  /\ UNCHANGED <<tree, paneFocus, grid, resizes>>

(* An open_pane that does not ask whether the agent is open already.       *)
OpenPaneAgain(p) ==
  /\ tree' = IF tree = NoTree THEN Leaf(p)
             ELSE SplitLeaf(tree, IF paneFocus \in Open THEN paneFocus ELSE Last(Leaves(tree)),
                            p, splitOrient)
  /\ paneFocus' = p
  /\ UNCHANGED <<splitOrient, grid, resizes>>

(* open_pane: beside the focused pane, or beside the last one when the     *)
(* focus is in another group.                                              *)
OpenPane(p) ==
  /\ tree' = IF tree = NoTree THEN Leaf(p)
             ELSE IF p \in Open THEN tree
             ELSE SplitLeaf(tree, IF paneFocus \in Open THEN paneFocus ELSE Last(Leaves(tree)),
                            p, splitOrient)
  /\ paneFocus' = p
  /\ UNCHANGED <<splitOrient, grid, resizes>>

(* close_pane.                                                             *)
ClosePaneOf(p) ==
  /\ p \in Open
  /\ tree' = Without(tree, p)
  /\ paneFocus' = IF paneFocus # p THEN paneFocus
                  ELSE IF tree' = NoTree THEN Elsewhere ELSE Head(Leaves(tree'))
  /\ UNCHANGED <<splitOrient, grid, resizes>>

(* The user looks at another workspace.                                    *)
LookElsewhere ==
  /\ paneFocus # Elsewhere /\ paneFocus' = Elsewhere
  /\ UNCHANGED <<tree, splitOrient, grid, resizes>>

(* resize_focused, as often as the key is pressed.                         *)
ResizeFocused ==
  /\ paneFocus \in Open /\ resizes < MaxResizes /\ resizes' = resizes + 1
  /\ \E orient \in {"cols", "rows"}, delta \in {-5, 5}, n \in Presses :
       tree' = Resized(tree, paneFocus, orient, n * delta)
  /\ UNCHANGED <<paneFocus, splitOrient, grid>>

Centre(r) == [x |-> r.x + r.w \div 2, y |-> r.y + r.h \div 2]
Dirs == {"left", "right", "up", "down"}

Lies(d, dir, c) ==
  CASE dir = "left"  -> d.x < c.x
    [] dir = "right" -> d.x > c.x
    [] dir = "up"    -> d.y < c.y
    [] dir = "down"  -> d.y > c.y

(* focus_dir: of the panes whose centre lies that way the nearest, and the *)
(* first of those in the order of the leaves.                              *)
Centres == LET rects == Tiles IN [p \in DOMAIN rects |-> Centre(rects[p])]

Toward(at, p, dir) ==
  LET beyond  == {q \in DOMAIN at \ {p} : Lies(at[q], dir, at[p])}
      far     == [q \in beyond |-> (at[q].x - at[p].x) * (at[q].x - at[p].x)
                                    + (at[q].y - at[p].y) * (at[q].y - at[p].y)]
      nearest == {q \in beyond : \A r \in beyond : far[q] <= far[r]}
  IN  IF nearest = {} THEN p ELSE SelectSeq(Leaves(tree), LAMBDA q : q \in nearest)[1]

FocusDir ==
  /\ paneFocus \in Open
  /\ LET at == Centres IN \E dir \in Dirs : paneFocus' = Toward(at, paneFocus, dir)
  /\ UNCHANGED <<tree, splitOrient, grid, resizes>>

Shown(r) == r.w > 0 /\ r.h > 0

(* focus_pane_at: a click, by the tiling, zoomed or not.                   *)
FocusPaneAt ==
  /\ LET rects == Tiles IN \E p \in DOMAIN rects : Shown(rects[p]) /\ paneFocus' = p
  /\ UNCHANGED <<tree, splitOrient, grid, resizes>>

TreeNext ==
  \/ ChooseOrientation \/ LookElsewhere \/ ResizeFocused
  \/ FocusDir \/ FocusPaneAt
  \/ \E p \in Panes : OpenPane(p) \/ ClosePaneOf(p)

TreeSpec == TreeInit /\ [][TreeNext]_treeVars

-----------------------------------------------------------------------------
(* The keys lead from any pane to any other: some key leaves every set of  *)
(* panes that is not all of them.                                          *)
KeysReachAll ==
  LET at   == Centres
      next == [p \in DOMAIN at |-> {Toward(at, p, dir) : dir \in Dirs}]
  IN  \A some \in SUBSET DOMAIN at \ {{}, DOMAIN at} : \E p \in some : ~(next[p] \subseteq some)

Covers(r, x, y) == r.x <= x /\ x < r.x + r.w /\ r.y <= y /\ y < r.y + r.h

(* Every cell of the grid belongs to exactly one pane and every agent has  *)
(* one pane; closing a pane that was just opened beside another restores   *)
(* the tiling; while up to four panes are open and drawn, the four keys    *)
(* lead from any of them to any other (of five one can be out of their     *)
(* reach, nearer ones being taken first on every way to it); and beside    *)
(* them a click in the sidebar finds the row that is drawn there           *)
(* (app.rs:1029 against render.rs:194), whatever there is to list (that    *)
(* does not depend on the panes, and is looked at while there is one).     *)
PanesTile ==
  LET rects == Tiles
      open  == DOMAIN rects
      some  == 0..Cardinality(Panes)
  IN  tree # NoTree =>
        /\ IsLeaf(tree) =>
             \A folders \in some, agents \in some : ClicksFindWhatIsDrawn(grid.h, folders, agents)
        /\ Cardinality(open) = Len(Leaves(tree))
        /\ \A x \in 0..(grid.w - 1), y \in 0..(grid.h - 1) :
             Cardinality({p \in open : Covers(rects[p], x, y)}) = 1
        /\ \A p \in open, new \in Panes \ open, orient \in {"cols", "rows"} :
             Without(SplitLeaf(tree, p, new, orient), new) = tree
        /\ Cardinality(open) <= 4 /\ (\A p \in open : Shown(rects[p])) => KeysReachAll

=============================================================================
