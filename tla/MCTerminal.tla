----------------------------- MODULE MCTerminal -----------------------------
(***************************************************************************)
(* The components on the path of a provider's output to the user's panes,  *)
(* for TLC.  They share no state with each other beyond the text that      *)
(* flows through them, so one run explores each on its own: the initial    *)
(* state picks the part that takes steps, and the others stay where they   *)
(* started.                                                                *)
(***************************************************************************)
EXTENDS OutputCapture, LineSplitter, ScrollbackStore, AttachStream, TuiClient

(* Two tasks in two repositories: both running with no or one repository   *)
(* registered, and one asleep beside one not yet created.                  *)
CONSTANTS a1, a2, f1, f2
TwoAgents    == <<a1, a2>>
TwoFolders   == <<f1, f2>>
OneInEach    == (a1 :> f1 @@ a2 :> f2)
BothRun      == (a1 :> "Active" @@ a2 :> "Active")
OneSleeps    == (a1 :> "unborn" @@ a2 :> "Hibernated")
ThreeStarts  == {[tasks |-> BothRun, workspaces |-> {}], [tasks |-> BothRun, workspaces |-> {f1}],
                 [tasks |-> OneSleeps, workspaces |-> {f1}]}

VARIABLE part

terminalVars == <<captureVars, splitVars, scrollVars, attachVars, tuiVars, part>>

TerminalInit ==
  /\ part \in {"capture", "split", "scrollback", "attach", "panes"}
  /\ CaptureInit /\ SplitInit /\ ScrollInit /\ AttachInit /\ TuiInit
  /\ part # "panes" => agentState = OneSleeps

TerminalNext ==
  /\ UNCHANGED part
  /\ \/ /\ part = "capture" /\ CaptureNext
        /\ UNCHANGED <<splitVars, scrollVars, attachVars, tuiVars>>
     \/ /\ part = "split" /\ SplitNext
        /\ UNCHANGED <<captureVars, scrollVars, attachVars, tuiVars>>
     \/ /\ part = "scrollback" /\ ScrollNext
        /\ UNCHANGED <<captureVars, splitVars, attachVars, tuiVars>>
     \/ /\ part = "attach" /\ AttachNext
        /\ UNCHANGED <<captureVars, splitVars, scrollVars, tuiVars>>
     \/ /\ part = "panes" /\ TuiNext
        /\ UNCHANGED <<captureVars, splitVars, scrollVars, attachVars>>

TerminalSpec == TerminalInit /\ [][TerminalNext]_terminalVars /\ AttachFairness

(* A short line that repeats, another one, and an oversized one.           *)
ThreeLines ==
  {[text |-> "a", bytes |-> 1], [text |-> "b", bytes |-> 2], [text |-> "c", bytes |-> 9]}

(* Two readings inside one window and one in the next.                     *)
ThreeTimes == {0, 1, 2}

(* One row, and more rows than a chunk holds.                               *)
TwoBatches == {<<"a">>, <<"b", "a", "c">>}

=============================================================================
