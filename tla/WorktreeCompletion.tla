------------------------- MODULE WorktreeCompletion -------------------------
(***************************************************************************)
(* What becomes of a finished task's worktree: kept, discarded, merged or  *)
(* cherry-picked.  Every git command is a process of its own and complete  *)
(* takes no lock, so the providers keep writing and the completions of two *)
(* tasks of one repository interleave, all in the same checkout.           *)
(***************************************************************************)
EXTENDS Integers, Sequences, FiniteSets

CONSTANTS
  Tasks,         \* the tasks, each with its branch and its worktree
  Paths,         \* the files of the repository
  MergeTargets,       \* the branches one may merge into
  MaxEdits,      \* bound: changes the providers make
  MaxFlows,      \* bound: completions begun, of all tasks
  NoFlow         \* no completion is running

ASSUME CompletionAssumption == MaxEdits \in Nat /\ MaxFlows \in Nat /\ Tasks \cap MergeTargets = {}

(* A change is known by who made it, to which file, and when.              *)
Changes  == [by : Tasks, path : Paths, nth : 1..MaxEdits]
Outcomes == {[kind |-> "retain"], [kind |-> "discard", confirmed |-> FALSE],
             [kind |-> "discard", confirmed |-> TRUE]}
            \cup [kind : {"merge", "pick"}, target : MergeTargets]

VARIABLES
  content,       \* what each existing branch contains; a task's bears its name
  worktree,      \* the uncommitted changes of the worktrees that exist
  checkout,      \* what is checked out in the repository itself
  midway,        \* a merge or pick there stopped at a conflict
  flow,          \* the completion of each task: step, outcome, picks left
  result,        \* what it returned, once it has
  flows,         \* how many were begun
  made,          \* the changes made so far
  givenUp,       \* those somebody chose to give up
  late,          \* those made after a discard looked at the worktree
  disturbed      \* flows under which another one switched the checkout

gitVars        == <<content, worktree, checkout, midway>>
ghostVars      == <<made, givenUp, late, disturbed>>
completionVars == <<gitVars, flow, result, flows, ghostVars>>

CompletionTypeOK ==
  /\ MergeTargets \subseteq DOMAIN content /\ DOMAIN content \subseteq Tasks \cup MergeTargets
  /\ DOMAIN worktree \subseteq Tasks /\ checkout \in MergeTargets /\ midway \in {"no", "merge", "pick"}
  /\ \A b \in DOMAIN content : content[b] \subseteq made
  /\ made \subseteq Changes /\ givenUp \cup late \subseteq made

CompletionInit ==
  /\ content = [b \in Tasks \cup MergeTargets |-> {}] /\ worktree = [t \in Tasks |-> {}]
  /\ checkout \in MergeTargets /\ midway = "no"
  /\ flow = [t \in Tasks |-> NoFlow] /\ result = [t \in Tasks |-> NoFlow]
  /\ flows = 0
  /\ made = {} /\ givenUp = {} /\ late = {} /\ disturbed = {}

Reaches(t, step) == flow[t] # NoFlow /\ flow[t].step = step
Goto(t, step) == flow' = [flow EXCEPT ![t].step = step]

Return(t, r) == flow' = [flow EXCEPT ![t] = NoFlow] /\ result' = [result EXCEPT ![t] = r]
Kind(k) == [kind |-> k]

-----------------------------------------------------------------------------
(* The provider, in its worktree.                                          *)

Edit(t) ==
  /\ t \in DOMAIN worktree /\ Cardinality(made) < MaxEdits
  /\ \E p \in Paths :
       LET change == [by |-> t, path |-> p, nth |-> Cardinality(made) + 1]
       IN  /\ worktree' = [worktree EXCEPT ![t] = @ \cup {change}]
           /\ made' = made \cup {change}
           /\ late' = IF Reaches(t, "saving") \/ Reaches(t, "removing") THEN late \cup {change} ELSE late
  /\ UNCHANGED <<content, checkout, midway, flow, result, flows, givenUp, disturbed>>

Commit(t) ==
  /\ t \in DOMAIN worktree /\ worktree[t] # {}
  /\ content' = [content EXCEPT ![t] = @ \cup worktree[t]]
  /\ worktree' = [worktree EXCEPT ![t] = {}]
  /\ UNCHANGED <<checkout, midway, flow, result, flows, ghostVars>>

-----------------------------------------------------------------------------
(* WorktreeManager::complete.                                              *)

BeginCompletion(t) ==
  /\ flow[t] = NoFlow /\ flows < MaxFlows /\ t \in DOMAIN worktree
  /\ flows' = flows + 1
  /\ \E o \in Outcomes :
       \/ o.kind = "retain" /\ Return(t, Kind("retained"))
       \/ /\ o.kind = "pick" /\ result' = [result EXCEPT ![t] = NoFlow]
          /\ \E picks \in {<<>>} \cup [{1} -> content[t]] \cup [{1, 2} -> content[t]] :
               flow' = [flow EXCEPT ![t] = [step |-> "switching", outcome |-> o, picks |-> picks]]
       \/ /\ o.kind \in {"discard", "merge"} /\ result' = [result EXCEPT ![t] = NoFlow]
          /\ flow' = [flow EXCEPT ![t] =
               [step |-> IF o.kind = "discard" THEN "looking" ELSE "testing", outcome |-> o, picks |-> <<>>]]
  /\ disturbed' = disturbed \ {t}
  /\ UNCHANGED <<gitVars, made, givenUp, late>>

(* A look that forgets to ask.                                             *)
LookUnconfirmed(t) ==
  /\ Reaches(t, "looking")
  /\ Goto(t, IF worktree[t] # {} THEN "saving" ELSE "removing")
  /\ givenUp' = givenUp \cup content[t]
  /\ UNCHANGED <<gitVars, result, flows, made, late, disturbed>>

(* is_dirty.  A discard gives up what the branch contains, asked or not.   *)
Look(t) ==
  /\ Reaches(t, "looking")
  /\ IF worktree[t] # {} /\ ~flow[t].outcome.confirmed
     THEN Return(t, Kind("refused_dirty")) /\ UNCHANGED givenUp
     ELSE /\ Goto(t, IF worktree[t] # {} THEN "saving" ELSE "removing")
          /\ givenUp' = givenUp \cup content[t] \cup worktree[t] /\ UNCHANGED result
  /\ UNCHANGED <<gitVars, flows, made, late, disturbed>>

(* dirty_manifest, of which the hash is kept.                              *)
SaveManifest(t) ==
  /\ Reaches(t, "saving") /\ Goto(t, "removing")
  /\ UNCHANGED <<gitVars, result, flows, ghostVars>>

(* remove_worktree by force: no second look.  git may refuse.              *)
RemoveByForce(t) ==
  /\ Reaches(t, "removing")
  /\ \/ worktree' = [u \in DOMAIN worktree \ {t} |-> worktree[u]] /\ Goto(t, "unbranching")
        /\ UNCHANGED result
     \/ Return(t, Kind("error")) /\ UNCHANGED worktree
  /\ UNCHANGED <<content, checkout, midway, flows, ghostVars>>

DeleteBranch(t) ==
  /\ Reaches(t, "unbranching")
  /\ content' = [b \in DOMAIN content \ {t} |-> content[b]]
  /\ Return(t, Kind("discarded"))
  /\ UNCHANGED <<worktree, checkout, midway, flows, ghostVars>>

(* run_checks.                                                             *)
RunChecks(t) ==
  /\ Reaches(t, "testing")
  /\ \/ Goto(t, "switching") /\ UNCHANGED result
     \/ Return(t, Kind("checks_failed"))
  /\ UNCHANGED <<gitVars, flows, ghostVars>>

(* git checkout, which refuses in the middle of a conflict, or when what   *)
(* the user left in the checkout is in the way.                            *)
Switch(t) ==
  /\ Reaches(t, "switching")
  /\ \/ /\ midway = "no" /\ checkout' = flow[t].outcome.target
        /\ Goto(t, flow[t].outcome.kind) /\ UNCHANGED result
        /\ disturbed' = IF checkout' = checkout THEN disturbed
                        ELSE disturbed \cup {u \in Tasks \ {t} : Reaches(u, "merge") \/ Reaches(u, "pick")}
     \/ Return(t, Kind("error")) /\ UNCHANGED <<checkout, disturbed>>
  /\ UNCHANGED <<content, worktree, midway, flows, made, givenUp, late>>

(* Two changes of one file that do not know of each other.                 *)
Clash(theirs, ours) == \E x \in theirs \ ours, y \in ours \ theirs : x.path = y.path

Merge(t) ==
  /\ Reaches(t, "merge")
  /\ IF midway = "no" /\ ~Clash(content[t], content[checkout])
     THEN /\ content' = [content EXCEPT ![checkout] = @ \cup content[t]]
          /\ Return(t, [kind |-> "merged", target |-> flow[t].outcome.target, what |-> content[t]])
          /\ UNCHANGED midway
     ELSE /\ midway' = IF midway = "no" THEN "merge" ELSE midway
          /\ Goto(t, "aborting") /\ UNCHANGED <<content, result>>
  /\ UNCHANGED <<worktree, checkout, flows, ghostVars>>

(* A commit that is there already is an empty pick, which fails too.       *)
Pick(t) ==
  /\ Reaches(t, "pick")
  /\ LET picks == flow[t].picks
     IN  IF picks = <<>> THEN Return(t, Kind("cherry_picked")) /\ UNCHANGED <<content, midway>>
         ELSE IF /\ midway = "no" /\ picks[1] \notin content[checkout]
                 /\ ~\E y \in content[checkout] \ content[t] : y.path = picks[1].path
              THEN /\ content' = [content EXCEPT ![checkout] = @ \cup {picks[1]}]
                   /\ flow' = [flow EXCEPT ![t].picks = Tail(@)] /\ UNCHANGED <<midway, result>>
              ELSE /\ midway' = IF midway = "no" THEN "pick" ELSE midway
                   /\ Goto(t, "aborting") /\ UNCHANGED <<content, result>>
  /\ UNCHANGED <<worktree, checkout, flows, ghostVars>>

(* merge --abort, cherry-pick --abort: each ends only its own kind.        *)
Abort(t) ==
  /\ Reaches(t, "aborting")
  /\ midway' = IF midway = flow[t].outcome.kind THEN "no" ELSE midway
  /\ Return(t, Kind("merge_conflict"))
  /\ UNCHANGED <<content, worktree, checkout, flows, ghostVars>>

CompleteStep(t) ==
  \/ BeginCompletion(t) \/ Look(t) \/ SaveManifest(t) \/ RemoveByForce(t) \/ DeleteBranch(t)
  \/ RunChecks(t) \/ Switch(t) \/ Merge(t) \/ Pick(t) \/ Abort(t)

CompletionNext == \E t \in Tasks : Edit(t) \/ Commit(t) \/ CompleteStep(t)

CompletionSpec == CompletionInit /\ [][CompletionNext]_completionVars

-----------------------------------------------------------------------------
(* Discard "requires a clean tree unless confirmed" (worktree.rs:61): a    *)
(* change that is in no branch and no worktree any more was given up by a  *)
(* discard, or was made after the discard had looked.  And what is         *)
(* reported as merged is on its target, unless another completion switched *)
(* the checkout in between.                                                *)
WorkIsKept ==
  /\ made \ ((UNION {content[b] : b \in DOMAIN content}) \cup (UNION {worktree[t] : t \in DOMAIN worktree}))
       \subseteq givenUp \cup late
  /\ \A t \in Tasks : result[t] # NoFlow /\ result[t].kind = "merged" =>
       \/ result[t].what \subseteq content[result[t].target]
       \/ t \in disturbed

=============================================================================
