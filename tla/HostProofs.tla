----------------------------- MODULE HostProofs -----------------------------
(***************************************************************************)
(* Proofs about what the daemon shares its host with: a repository's       *)
(* worktrees, its own task tables, other daemons.  The worktrees first,    *)
(* their creation, which the repository lock serialises, and what becomes  *)
(* of them on completion, for any number of daemon processes, branches,    *)
(* tasks and edits.  Then the task tables, for any number of tasks,        *)
(* deaths, refused statements and handlers.  The statements a handler has  *)
(* yet to execute lead from what the tables and the handler agree on now   *)
(* to the state it will leave in memory: on the way the history stays      *)
(* connected and no row says Hibernated without a reference (Leads).       *)
(* Every handler's list of statements is shown to be such a path when it   *)
(* begins, every statement executed or failed leaves the rest of it, and a *)
(* death ends it anywhere.  Then how daemons come and go, for any number   *)
(* of clients and daemons.  As long as nobody started a daemon unwatched,  *)
(* at most one is on its way or serving, the socket leads to the one that  *)
(* serves, and nobody is about to start another.  At the end, the update   *)
(* of the two binaries, by any number of updaters that may cross: what an  *)
(* undisturbed one has staged and installed so far (Undisturbed).          *)
(***************************************************************************)
EXTENDS RepositoryLock, WorktreeCompletion, TaskStore, DaemonSupervision, SelfUpdate, SequenceTheorems, FiniteSetTheorems, TLAPS

(* Creation.  Whoever is changing the repository's worktrees owns the lock *)
(* file.                                                                   *)
MutatorOwns == \A c \in Creators : Mutating(c) => lockFile = c

LockInv == LockTypeOK /\ MutatorOwns

-----------------------------------------------------------------------------
LEMMA LockInitOK == LockInit => LockInv
BY LockAssumption DEF LockInit, LockInv, LockTypeOK, MutatorOwns, Mutating, NotCreating

(* The type of a creator's place.                                          *)
LEMMA CreatingAt ==
  ASSUME LockTypeOK, NEW c \in Creators
  PROVE  /\ creating[c] \in [step : {"none", "wait", "add", "release", "giveUp"}, branch : SUBSET Branches]
         /\ creating[c].branch \subseteq Branches
BY DEF LockTypeOK

LEMMA LaunchesOK ==
  ASSUME LockTypeOK, NEW bs, NEW where \in {"worktree", "repository"}, Launches(bs, where)
  PROVE  launchedIn' \in [Branches -> {"nowhere", "worktree", "repository"}]
BY DEF LockTypeOK, Launches

LEMMA LockStepOK == LockInv /\ [LockNext]_lockVars => LockInv'
<1>. SUFFICES ASSUME LockInv, [LockNext]_lockVars PROVE LockInv'
  OBVIOUS
<1>. USE LockAssumption DEF LockInv
<1>1. ASSUME NEW c \in Creators, NEW b \in Branches, ReuseWorktree(c, b)
      PROVE  LockInv'
  <2>1. launchedIn' \in [Branches -> {"nowhere", "worktree", "repository"}]
    BY <1>1, LaunchesOK DEF ReuseWorktree
  <2>. QED
    BY <1>1, <2>1 DEF ReuseWorktree, LockTypeOK, MutatorOwns, Mutating
<1>2. ASSUME NEW c \in Creators, NEW b \in Branches, BeginCreate(c, b)
      PROVE  LockInv'
  <2>1. launchedIn' \in [Branches -> {"nowhere", "worktree", "repository"}]
    BY <1>2, LaunchesOK DEF BeginCreate, LockTypeOK
  <2>2. LockTypeOK'
    BY <1>2, <2>1 DEF BeginCreate, LockTypeOK
  <2>3. MutatorOwns'
    BY <1>2 DEF BeginCreate, LockTypeOK, MutatorOwns, Mutating
  <2>. QED
    BY <2>2, <2>3
<1>3. ASSUME NEW c \in Creators, TryAcquire(c)
      PROVE  LockInv'
  <2>1. LockTypeOK'
    BY <1>3, CreatingAt DEF TryAcquire, Moves, LockTypeOK
  <2>2. \A d \in Creators : ~Mutating(d)
    BY <1>3 DEF TryAcquire, MutatorOwns
  <2>3. MutatorOwns'
    BY <1>3, <2>2 DEF TryAcquire, Moves, LockTypeOK, MutatorOwns, Mutating
  <2>. QED
    BY <2>1, <2>3
<1>4. ASSUME NEW c \in Creators, TimeOut(c)
      PROVE  LockInv'
  <2>1. launchedIn' \in [Branches -> {"nowhere", "worktree", "repository"}]
    BY <1>4, LaunchesOK DEF TimeOut
  <2>2. LockTypeOK'
    BY <1>4, <2>1 DEF TimeOut, NotCreating, LockTypeOK
  <2>3. MutatorOwns'
    BY <1>4 DEF TimeOut, NotCreating, LockTypeOK, MutatorOwns, Mutating
  <2>. QED
    BY <2>2, <2>3
<1>5. ASSUME NEW c \in Creators, AddWorktree(c)
      PROVE  LockInv'
  <2>1. creating' \in [Creators -> [step : {"none", "wait", "add", "release", "giveUp"},
                                    branch : SUBSET Branches]]
    BY <1>5, CreatingAt DEF AddWorktree, Moves, LockTypeOK
  <2>2. branches' \subseteq Branches
    BY <1>5, CreatingAt DEF AddWorktree, LockTypeOK
  <2>3. directory' \in [Branches -> {"absent", "clean", "dirty"}]
    BY <1>5 DEF AddWorktree, LockTypeOK
  <2>4. LockTypeOK'
    BY <1>5, <2>1, <2>2, <2>3 DEF AddWorktree, LockTypeOK
  <2>5. lockFile = c
    BY <1>5 DEF AddWorktree, Stands, MutatorOwns, Mutating
  <2>6. MutatorOwns'
    BY <1>5, <2>5 DEF AddWorktree, Moves, LockTypeOK, MutatorOwns, Mutating
  <2>. QED
    BY <2>4, <2>6
<1>6. ASSUME NEW c \in Creators, ReleaseLock(c)
      PROVE  LockInv'
  <2>1. launchedIn' \in [Branches -> {"nowhere", "worktree", "repository"}]
    BY <1>6, LaunchesOK DEF ReleaseLock
  <2>2. handles' \in [Creators -> SUBSET Branches]
    BY <1>6, CreatingAt DEF ReleaseLock, LockTypeOK
  <2>3. LockTypeOK'
    BY <1>6, <2>1, <2>2 DEF ReleaseLock, NotCreating, LockTypeOK
  <2>4. \A d \in Creators : Mutating(d) => d = c
    BY <1>6 DEF ReleaseLock, Stands, MutatorOwns, Mutating
  <2>5. MutatorOwns'
    BY <1>6, <2>4 DEF ReleaseLock, NotCreating, LockTypeOK, MutatorOwns, Mutating
  <2>. QED
    BY <2>3, <2>5
<1>7. ASSUME NEW c \in Creators, NEW b \in Branches, RemoveWorktree(c, b)
      PROVE  LockInv'
  BY <1>7 DEF RemoveWorktree, LockTypeOK, MutatorOwns, Mutating
<1>8. ASSUME NEW b \in Branches, ProviderWrites(b)
      PROVE  LockInv'
  BY <1>8 DEF ProviderWrites, LockTypeOK, MutatorOwns, Mutating
<1>9. ASSUME NEW c \in Creators, CreatorDies(c)
      PROVE  LockInv'
  <2>1. LockTypeOK'
    BY <1>9 DEF CreatorDies, NotCreating, LockTypeOK
  <2>2. MutatorOwns'
    BY <1>9 DEF CreatorDies, NotCreating, LockTypeOK, MutatorOwns, Mutating
  <2>. QED
    BY <2>1, <2>2
<1>10. CASE UNCHANGED lockVars
  BY <1>10 DEF lockVars, LockTypeOK, MutatorOwns, Mutating
<1>. QED
  BY <1>1, <1>2, <1>3, <1>4, <1>5, <1>6, <1>7, <1>8, <1>9, <1>10 DEF LockNext, CreateStep

(* The lock file, the creations under way, the handles and the worktrees   *)
(* stay of their types (lock.rs, worktree.rs).                             *)
THEOREM LockTypeCorrect == LockSpec => []LockTypeOK
<1>1. LockInv => LockTypeOK
  BY DEF LockInv
<1>. QED
  BY LockInitOK, LockStepOK, <1>1, PTL DEF LockSpec

(* Two processes never change the worktrees of a repository at the same    *)
(* time (lock.rs:32), however many there are and whoever dies.             *)
THEOREM MutatorsAreAlone == LockSpec => []OneMutator
<1>1. LockInv => OneMutator
  BY DEF LockInv, MutatorOwns, OneMutator
<1>. QED
  BY LockInitOK, LockStepOK, <1>1, PTL DEF LockSpec

-----------------------------------------------------------------------------
LEMMA StaleStays ==
  LockInv /\ [LockNext]_lockVars => (lockFile = Stale => lockFile' = Stale /\ branches' = branches)
<1>. SUFFICES ASSUME LockInv, [LockNext]_lockVars, lockFile = Stale
              PROVE  lockFile' = Stale /\ branches' = branches
  OBVIOUS
<1>1. \A c \in Creators : ~Stands(c, "add") /\ ~Stands(c, "release") /\ ~Stands(c, "giveUp")
  BY LockAssumption DEF LockInv, MutatorOwns, Mutating, Stands
<1>2. ASSUME NEW c \in Creators, CreateStep(c) \/ CreatorDies(c)
      PROVE  lockFile' = Stale /\ branches' = branches
  BY <1>1, <1>2, LockAssumption
  DEF CreateStep, TryAcquire, TimeOut, AddWorktree, ReleaseLock, CreatorDies
<1>3. ASSUME NEW c \in Creators, NEW b \in Branches,
             ReuseWorktree(c, b) \/ BeginCreate(c, b) \/ RemoveWorktree(c, b)
      PROVE  lockFile' = Stale /\ branches' = branches
  BY <1>3 DEF ReuseWorktree, BeginCreate, RemoveWorktree
<1>4. ASSUME NEW b \in Branches, ProviderWrites(b)
      PROVE  lockFile' = Stale /\ branches' = branches
  BY <1>4 DEF ProviderWrites
<1>5. CASE UNCHANGED lockVars
  BY <1>5 DEF lockVars
<1>. QED
  BY <1>2, <1>3, <1>4, <1>5 DEF LockNext

(* A lock file that a dead process left behind stays, and no worktree is   *)
(* added any more (lock.rs:32): nothing in the code removes it.            *)
THEOREM StaleIsForever == LockSpec => StaleLockEndsIsolation
BY LockInitOK, LockStepOK, StaleStays, PTL DEF LockSpec, StaleLockEndsIsolation

-----------------------------------------------------------------------------
(* Completion.  The invariant that carries its proofs: a completion under  *)
(* way is where its outcome takes it, what a discard is about to destroy   *)
(* is given up, and a merge finds its target checked out.                  *)

Steps == {"looking", "saving", "removing", "unbranching", "testing", "switching", "merge", "pick",
          "aborting"}

(* A completion under way: where it may be with which outcome, and that    *)
(* its worktree stands until it has removed it.                            *)
FlowOK(t) ==
  LET f == flow[t] IN
  f # NoFlow =>
    /\ f = [step |-> f.step, outcome |-> f.outcome, picks |-> f.picks]
    /\ f.step \in Steps /\ f.picks \in Seq(made)
    /\ f.step \in {"testing", "switching", "merge", "pick", "aborting"} =>
         f.outcome.kind \in {"merge", "pick"} /\ f.outcome.target \in MergeTargets
    /\ f.step \in {"merge", "pick"} => f.step = f.outcome.kind
    /\ t \in DOMAIN worktree \/ f.step = "unbranching"

(* What a discard is about to destroy has been given up, or came late.     *)
DiscardOK(t) ==
  /\ Reaches(t, "saving") \/ Reaches(t, "removing") =>
       content[t] \cup worktree[t] \subseteq givenUp \cup late
  /\ Reaches(t, "unbranching") =>
       t \notin DOMAIN worktree /\ (t \in DOMAIN content => content[t] \subseteq givenUp \cup late)

(* A merge finds its target checked out, unless another flow switched; and *)
(* what was reported merged is on its target.                              *)
ReportOK(t) ==
  /\ Reaches(t, "merge") \/ Reaches(t, "pick") => t \in disturbed \/ checkout = flow[t].outcome.target
  /\ result[t] # NoFlow /\ result[t].kind = "merged" =>
       /\ result[t].target \in MergeTargets
       /\ result[t].what \subseteq content[result[t].target] \/ t \in disturbed

(* Every change is in a branch, in a worktree, given up or late.           *)
EachKept ==
  \A x \in made :
    \/ \E b \in DOMAIN content : x \in content[b]
    \/ \E t \in DOMAIN worktree : x \in worktree[t]
    \/ x \in givenUp \cup late

GitOK ==
  /\ IsFiniteSet(made) /\ made \subseteq Changes
  /\ DOMAIN flow = Tasks /\ DOMAIN result = Tasks
  /\ \A t \in DOMAIN worktree : worktree[t] \subseteq made
  /\ DOMAIN worktree \subseteq DOMAIN content

CompletionInv ==
  /\ CompletionTypeOK /\ GitOK /\ EachKept
  /\ \A t \in Tasks : FlowOK(t) /\ DiscardOK(t) /\ ReportOK(t)

-----------------------------------------------------------------------------
(* What the helpers do.                                                    *)

LEMMA GotoFacts ==
  ASSUME CompletionInv, NEW t \in Tasks, NEW s, flow[t] # NoFlow, Goto(t, s)
  PROVE  /\ DOMAIN flow' = Tasks /\ \A u \in Tasks \ {t} : flow'[u] = flow[u]
         /\ flow'[t] = [step |-> s, outcome |-> flow[t].outcome, picks |-> flow[t].picks]
<1>1. flow[t] = [step |-> flow[t].step, outcome |-> flow[t].outcome, picks |-> flow[t].picks]
  BY DEF CompletionInv, FlowOK
<1>2. flow' = [flow EXCEPT ![t] = [flow[t] EXCEPT !.step = s]]
  BY DEF Goto
<1>3. [flow[t] EXCEPT !.step = s] = [step |-> s, outcome |-> flow[t].outcome, picks |-> flow[t].picks]
  BY <1>1
<1>. QED
  BY <1>2, <1>3 DEF CompletionInv, GitOK

LEMMA ReturnFacts ==
  ASSUME CompletionInv, NEW t \in Tasks, NEW r, Return(t, r)
  PROVE  /\ DOMAIN flow' = Tasks /\ \A u \in Tasks \ {t} : flow'[u] = flow[u]
         /\ flow'[t] = NoFlow
         /\ DOMAIN result' = Tasks /\ \A u \in Tasks \ {t} : result'[u] = result[u]
         /\ result'[t] = r
BY DEF Return, CompletionInv, GitOK

(* What holds of a completion goes on holding while nothing it looks at    *)
(* changes to its harm.                                                    *)
LEMMA OthersStay ==
  ASSUME NEW u \in Tasks, FlowOK(u), DiscardOK(u), ReportOK(u),
         flow'[u] = flow[u], result'[u] = result[u],
         u \in DOMAIN worktree' <=> u \in DOMAIN worktree, worktree'[u] = worktree[u],
         u \in DOMAIN content' <=> u \in DOMAIN content, content'[u] = content[u],
         \A m \in MergeTargets : content[m] \subseteq content'[m],
         made \subseteq made', givenUp \cup late \subseteq givenUp' \cup late',
         (u \in disturbed) => (u \in disturbed'),
         checkout' = checkout \/ u \in disturbed' \/ ~(Reaches(u, "merge") \/ Reaches(u, "pick"))
  PROVE  FlowOK(u)' /\ DiscardOK(u)' /\ ReportOK(u)'
<1>1. FlowOK(u)'
  <2>1. Seq(made) \subseteq Seq(made')
    OBVIOUS
  <2>. QED
    BY <2>1 DEF FlowOK
<1>2. DiscardOK(u)'
  BY DEF DiscardOK, Reaches
<1>3. ReportOK(u)'
  BY DEF ReportOK, Reaches
<1>. QED
  BY <1>1, <1>2, <1>3

-----------------------------------------------------------------------------
(* The provider.                                                           *)

LEMMA EditOK == ASSUME CompletionInv, NEW t \in Tasks, Edit(t) PROVE CompletionInv'
<1>. USE CompletionAssumption
<1>1. PICK p \in Paths :
        LET change == [by |-> t, path |-> p, nth |-> Cardinality(made) + 1]
        IN  /\ worktree' = [worktree EXCEPT ![t] = @ \cup {change}]
            /\ made' = made \cup {change}
            /\ late' = IF Reaches(t, "saving") \/ Reaches(t, "removing") THEN late \cup {change} ELSE late
  BY DEF Edit
<1>2. PICK change : change = [by |-> t, path |-> p, nth |-> Cardinality(made) + 1]
  OBVIOUS
<1>3. /\ worktree' = [worktree EXCEPT ![t] = @ \cup {change}]
      /\ made' = made \cup {change}
      /\ late' = IF Reaches(t, "saving") \/ Reaches(t, "removing") THEN late \cup {change} ELSE late
  BY <1>1, <1>2
<1>4. /\ t \in DOMAIN worktree
      /\ UNCHANGED <<content, checkout, midway, flow, result, flows, givenUp, disturbed>>
  BY DEF Edit
<1>5. change \in Changes /\ IsFiniteSet(made')
  <2>1. IsFiniteSet(made) /\ Cardinality(made) \in Nat /\ Cardinality(made) < MaxEdits
    BY FS_CardinalityType DEF Edit, CompletionInv, GitOK
  <2>2. Cardinality(made) + 1 \in 1..MaxEdits
    BY <2>1
  <2>3. change \in Changes
    BY <1>2, <2>2 DEF Changes
  <2>. QED
    BY <1>3, <2>1, <2>3, FS_AddElement
<1>6. CompletionTypeOK' /\ GitOK'
  BY <1>3, <1>4, <1>5 DEF CompletionInv, CompletionTypeOK, GitOK
<1>7. EachKept'
  BY <1>3, <1>4 DEF CompletionInv, EachKept
<1>8. ASSUME NEW u \in Tasks \ {t} PROVE FlowOK(u)' /\ DiscardOK(u)' /\ ReportOK(u)'
  <2>1. FlowOK(u) /\ DiscardOK(u) /\ ReportOK(u)
    BY DEF CompletionInv
  <2>. QED
    BY <1>3, <1>4, <2>1, OthersStay
<1>9. FlowOK(t)' /\ DiscardOK(t)' /\ ReportOK(t)'
  <2>1. FlowOK(t) /\ DiscardOK(t) /\ ReportOK(t)
    BY DEF CompletionInv
  <2>2. FlowOK(t)'
    <3>1. Seq(made) \subseteq Seq(made')
      BY <1>3
    <3>. QED
      BY <1>3, <1>4, <2>1, <3>1 DEF FlowOK
  <2>3. DiscardOK(t)'
    BY <1>3, <1>4, <2>1 DEF DiscardOK, Reaches
  <2>4. ReportOK(t)'
    BY <1>3, <1>4, <2>1 DEF ReportOK, Reaches
  <2>. QED
    BY <2>2, <2>3, <2>4
<1>. QED
  BY <1>6, <1>7, <1>8, <1>9 DEF CompletionInv

LEMMA CommitOK == ASSUME CompletionInv, NEW t \in Tasks, Commit(t) PROVE CompletionInv'
<1>1. /\ t \in DOMAIN worktree /\ t \in DOMAIN content
      /\ content' = [content EXCEPT ![t] = @ \cup worktree[t]]
      /\ worktree' = [worktree EXCEPT ![t] = {}]
      /\ UNCHANGED <<checkout, midway, flow, result, flows, made, givenUp, late, disturbed>>
  BY DEF Commit, ghostVars, CompletionInv, GitOK
<1>2. CompletionTypeOK' /\ GitOK'
  BY <1>1 DEF CompletionInv, CompletionTypeOK, GitOK
<1>3. EachKept'
  BY <1>1 DEF CompletionInv, EachKept
<1>4. t \notin MergeTargets
  BY CompletionAssumption
<1>5. \A m \in MergeTargets : content[m] \subseteq content'[m]
  BY <1>1, <1>4 DEF CompletionInv, CompletionTypeOK
<1>6. ASSUME NEW u \in Tasks \ {t} PROVE FlowOK(u)' /\ DiscardOK(u)' /\ ReportOK(u)'
  <2>1. FlowOK(u) /\ DiscardOK(u) /\ ReportOK(u)
    BY DEF CompletionInv
  <2>2. content'[u] = content[u] /\ worktree'[u] = worktree[u]
    BY <1>1, <2>1 DEF CompletionInv
  <2>. QED
    BY <1>1, <1>5, <2>1, <2>2, OthersStay
<1>7. FlowOK(t)' /\ DiscardOK(t)' /\ ReportOK(t)'
  BY <1>1, <1>5 DEF CompletionInv, FlowOK, DiscardOK, ReportOK, Reaches
<1>. QED
  BY <1>2, <1>3, <1>6, <1>7 DEF CompletionInv

-----------------------------------------------------------------------------
(* A completion's own steps.  Where a step changes no branch and no        *)
(* worktree, only the completion that takes it needs a look.               *)

LEMMA QuietOthers ==
  ASSUME CompletionInv, NEW t \in Tasks,
         \A u \in Tasks \ {t} : flow'[u] = flow[u] /\ result'[u] = result[u],
         UNCHANGED <<content, worktree, checkout, made, late>>,
         givenUp \subseteq givenUp', disturbed \ {t} \subseteq disturbed'
  PROVE  \A u \in Tasks \ {t} : FlowOK(u)' /\ DiscardOK(u)' /\ ReportOK(u)'
<1>. SUFFICES ASSUME NEW u \in Tasks \ {t} PROVE FlowOK(u)' /\ DiscardOK(u)' /\ ReportOK(u)'
  OBVIOUS
<1>1. FlowOK(u) /\ DiscardOK(u) /\ ReportOK(u)
  BY DEF CompletionInv
<1>. QED
  BY <1>1, OthersStay

LEMMA SeqIntro == ASSUME NEW S, NEW n \in Nat, NEW f \in [1..n -> S] PROVE f \in Seq(S)
<1>1. f \in UNION {[1..m -> S] : m \in Nat}
  OBVIOUS
<1>. QED
  BY <1>1, SeqDef, Zenon

LEMMA BeginCompletionOK ==
  ASSUME CompletionInv, NEW t \in Tasks, BeginCompletion(t) PROVE CompletionInv'
<1>1. PICK o \in Outcomes :
        \/ o.kind = "retain" /\ Return(t, Kind("retained"))
        \/ /\ o.kind = "pick" /\ result' = [result EXCEPT ![t] = NoFlow]
           /\ \E picks \in {<<>>} \cup [{1} -> content[t]] \cup [{1, 2} -> content[t]] :
                flow' = [flow EXCEPT ![t] = [step |-> "switching", outcome |-> o, picks |-> picks]]
        \/ /\ o.kind \in {"discard", "merge"} /\ result' = [result EXCEPT ![t] = NoFlow]
           /\ flow' = [flow EXCEPT ![t] =
                [step |-> IF o.kind = "discard" THEN "looking" ELSE "testing", outcome |-> o, picks |-> <<>>]]
  BY DEF BeginCompletion
<1>2. /\ t \in DOMAIN worktree /\ UNCHANGED <<content, worktree, checkout, midway, made, givenUp, late>>
      /\ disturbed' = disturbed \ {t}
  BY DEF BeginCompletion, gitVars, CompletionInv, GitOK
<1>3. /\ DOMAIN flow' = Tasks /\ DOMAIN result' = Tasks
      /\ \A u \in Tasks \ {t} : flow'[u] = flow[u] /\ result'[u] = result[u]
  BY <1>1 DEF Return, CompletionInv, GitOK
<1>4. CompletionTypeOK' /\ GitOK' /\ EachKept'
  BY <1>2, <1>3 DEF CompletionInv, CompletionTypeOK, GitOK, EachKept
<1>5. o.kind \in {"merge", "pick"} => o.target \in MergeTargets
  BY DEF Outcomes
<1>6. content[t] \subseteq made
  BY <1>2 DEF CompletionInv, GitOK, CompletionTypeOK
<1>7. \A picks \in {<<>>} \cup [{1} -> content[t]] \cup [{1, 2} -> content[t]] : picks \in Seq(made)
  <2>1. ASSUME NEW picks \in [{1} -> content[t]] PROVE picks \in Seq(made)
    <3>1. {1} = 1..1
      OBVIOUS
    <3>2. picks \in [1..1 -> made]
      BY <1>6, <2>1, <3>1
    <3>. QED
      BY <3>2, SeqIntro
  <2>2. ASSUME NEW picks \in [{1, 2} -> content[t]] PROVE picks \in Seq(made)
    <3>1. {1, 2} = 1..2
      OBVIOUS
    <3>2. picks \in [1..2 -> made]
      BY <1>6, <2>2, <3>1
    <3>. QED
      BY <3>2, SeqIntro
  <2>3. <<>> \in Seq(made)
    OBVIOUS
  <2>. QED
    BY <2>1, <2>2, <2>3
<1>8. CASE o.kind = "retain" /\ Return(t, Kind("retained"))
  <2>1. flow'[t] = NoFlow /\ result'[t] = Kind("retained")
    BY <1>8, ReturnFacts
  <2>2. FlowOK(t)' /\ DiscardOK(t)' /\ ReportOK(t)'
    BY <2>1 DEF FlowOK, DiscardOK, ReportOK, Reaches, Kind
  <2>. QED
    BY <1>2, <1>3, <1>4, <2>2, QuietOthers DEF CompletionInv
<1>9. CASE o.kind = "pick" /\ ~(o.kind = "retain" /\ Return(t, Kind("retained")))
  <2>1. PICK picks \in {<<>>} \cup [{1} -> content[t]] \cup [{1, 2} -> content[t]] :
          flow' = [flow EXCEPT ![t] = [step |-> "switching", outcome |-> o, picks |-> picks]]
    BY <1>1, <1>9
  <2>2. flow'[t] = [step |-> "switching", outcome |-> o, picks |-> picks] /\ result'[t] = NoFlow
    BY <1>1, <1>9, <2>1 DEF CompletionInv, GitOK
  <2>3. FlowOK(t)' /\ DiscardOK(t)' /\ ReportOK(t)'
    BY <1>2, <1>5, <1>7, <1>9, <2>2 DEF FlowOK, DiscardOK, ReportOK, Reaches, Steps
  <2>. QED
    BY <1>2, <1>3, <1>4, <2>3, QuietOthers DEF CompletionInv
<1>10. CASE o.kind \in {"discard", "merge"} /\ ~(o.kind = "retain" /\ Return(t, Kind("retained")))
  <2>1. /\ flow'[t] = [step |-> IF o.kind = "discard" THEN "looking" ELSE "testing", outcome |-> o,
                       picks |-> <<>>]
        /\ result'[t] = NoFlow
    BY <1>1, <1>10 DEF CompletionInv, GitOK
  <2>2. FlowOK(t)' /\ DiscardOK(t)' /\ ReportOK(t)'
    BY <1>2, <1>5, <1>7, <1>10, <2>1 DEF FlowOK, DiscardOK, ReportOK, Reaches, Steps
  <2>. QED
    BY <1>2, <1>3, <1>4, <2>2, QuietOthers DEF CompletionInv
<1>. QED
  BY <1>1, <1>8, <1>9, <1>10

LEMMA LookOK == ASSUME CompletionInv, NEW t \in Tasks, Look(t) PROVE CompletionInv'
<1>1. /\ flow[t] # NoFlow /\ flow[t].step = "looking"
      /\ UNCHANGED <<content, worktree, checkout, midway, flows, made, late, disturbed>>
  BY DEF Look, Reaches, gitVars
<1>2. t \in DOMAIN worktree /\ t \in DOMAIN content
  BY <1>1 DEF CompletionInv, FlowOK, GitOK
<1>3. CASE worktree[t] # {} /\ ~flow[t].outcome.confirmed
  <2>1. Return(t, Kind("refused_dirty")) /\ UNCHANGED givenUp
    BY <1>3 DEF Look
  <2>2. CompletionTypeOK' /\ GitOK' /\ EachKept'
    BY <1>1, <2>1, ReturnFacts DEF CompletionInv, CompletionTypeOK, GitOK, EachKept
  <2>3. FlowOK(t)' /\ DiscardOK(t)' /\ ReportOK(t)'
    BY <2>1, ReturnFacts DEF FlowOK, DiscardOK, ReportOK, Reaches, Kind
  <2>. QED
    BY <1>1, <2>1, <2>2, <2>3, ReturnFacts, QuietOthers DEF CompletionInv
<1>4. CASE ~(worktree[t] # {} /\ ~flow[t].outcome.confirmed)
  <2>1. PICK s \in {"saving", "removing"} :
          Goto(t, s) /\ givenUp' = givenUp \cup content[t] \cup worktree[t] /\ UNCHANGED result
    BY <1>4 DEF Look
  <2>2. CompletionTypeOK' /\ GitOK' /\ EachKept'
    BY <1>1, <1>2, <2>1, GotoFacts DEF CompletionInv, CompletionTypeOK, GitOK, EachKept
  <2>3. flow'[t] = [step |-> s, outcome |-> flow[t].outcome, picks |-> flow[t].picks]
    BY <1>1, <2>1, GotoFacts
  <2>4. FlowOK(t) /\ ReportOK(t)
    BY DEF CompletionInv
  <2>5. FlowOK(t)'
    BY <1>1, <2>3, <2>4 DEF FlowOK, Steps
  <2>6. DiscardOK(t)'
    BY <1>1, <2>1, <2>3 DEF DiscardOK, Reaches
  <2>7. ReportOK(t)'
    BY <1>1, <2>1, <2>3, <2>4 DEF ReportOK, Reaches
  <2>. QED
    BY <1>1, <2>1, <2>2, <2>5, <2>6, <2>7, GotoFacts, QuietOthers DEF CompletionInv
<1>. QED
  BY <1>3, <1>4

(* A step that only moves on, or only gives up, to where a completion's    *)
(* invariant asks nothing new.                                             *)
LEMMA MovesOnOK ==
  ASSUME CompletionInv, NEW t \in Tasks, NEW s \in Steps, flow[t] # NoFlow, Goto(t, s),
         flow[t].step # "unbranching", s \notin {"unbranching", "merge", "pick"},
         s \in {"saving", "removing"} => Reaches(t, "saving"),
         s \in {"testing", "switching", "aborting"} =>
           flow[t].outcome.kind \in {"merge", "pick"} /\ flow[t].outcome.target \in MergeTargets,
         UNCHANGED <<content, worktree, checkout, result, flows, ghostVars>>,
         midway' \in {"no", "merge", "pick"}
  PROVE  CompletionInv'
<1>1. flow'[t] = [step |-> s, outcome |-> flow[t].outcome, picks |-> flow[t].picks]
  BY GotoFacts
<1>2. CompletionTypeOK' /\ GitOK' /\ EachKept'
  BY GotoFacts DEF CompletionInv, CompletionTypeOK, GitOK, EachKept, ghostVars
<1>3. FlowOK(t) /\ DiscardOK(t) /\ ReportOK(t)
  BY DEF CompletionInv
<1>4. FlowOK(t)'
  BY <1>1, <1>3 DEF FlowOK, ghostVars
<1>5. DiscardOK(t)'
  BY <1>1, <1>3 DEF DiscardOK, Reaches, ghostVars
<1>6. ReportOK(t)'
  BY <1>1, <1>3 DEF ReportOK, Reaches, ghostVars
<1>7. \A u \in Tasks \ {t} : FlowOK(u)' /\ DiscardOK(u)' /\ ReportOK(u)'
  BY GotoFacts, QuietOthers DEF ghostVars
<1>. QED
  BY <1>2, <1>4, <1>5, <1>6, <1>7 DEF CompletionInv

LEMMA ReturnsOK ==
  ASSUME CompletionInv, NEW t \in Tasks, NEW k, k # "merged", Return(t, Kind(k)),
         UNCHANGED <<content, worktree, checkout, flows, ghostVars>>,
         midway' \in {"no", "merge", "pick"}
  PROVE  CompletionInv'
<1>1. CompletionTypeOK' /\ GitOK' /\ EachKept'
  BY ReturnFacts DEF CompletionInv, CompletionTypeOK, GitOK, EachKept, ghostVars
<1>2. FlowOK(t)' /\ DiscardOK(t)' /\ ReportOK(t)'
  BY ReturnFacts DEF FlowOK, DiscardOK, ReportOK, Reaches, Kind
<1>3. \A u \in Tasks \ {t} : FlowOK(u)' /\ DiscardOK(u)' /\ ReportOK(u)'
  BY ReturnFacts, QuietOthers DEF ghostVars
<1>. QED
  BY <1>1, <1>2, <1>3 DEF CompletionInv

LEMMA MidwayTyped == CompletionInv => midway \in {"no", "merge", "pick"}
BY DEF CompletionInv, CompletionTypeOK

LEMMA SaveManifestOK ==
  ASSUME CompletionInv, NEW t \in Tasks, SaveManifest(t) PROVE CompletionInv'
BY MovesOnOK, MidwayTyped DEF SaveManifest, Reaches, gitVars, Steps

LEMMA RunChecksOK == ASSUME CompletionInv, NEW t \in Tasks, RunChecks(t) PROVE CompletionInv'
<1>1. CASE Goto(t, "switching") /\ UNCHANGED result
  BY <1>1, MovesOnOK, MidwayTyped DEF RunChecks, Reaches, gitVars, Steps, CompletionInv, FlowOK
<1>2. CASE Return(t, Kind("checks_failed"))
  BY <1>2, ReturnsOK, MidwayTyped DEF RunChecks, gitVars
<1>. QED
  BY <1>1, <1>2 DEF RunChecks

LEMMA AbortOK == ASSUME CompletionInv, NEW t \in Tasks, Abort(t) PROVE CompletionInv'
BY ReturnsOK, MidwayTyped DEF Abort

LEMMA RemoveByForceOK ==
  ASSUME CompletionInv, NEW t \in Tasks, RemoveByForce(t) PROVE CompletionInv'
<1>1. CASE Return(t, Kind("error")) /\ UNCHANGED worktree
  BY <1>1, ReturnsOK, MidwayTyped DEF RemoveByForce
<1>2. CASE /\ worktree' = [u \in DOMAIN worktree \ {t} |-> worktree[u]] /\ Goto(t, "unbranching")
           /\ UNCHANGED result
  <2>1. /\ flow[t] # NoFlow /\ flow[t].step = "removing"
        /\ UNCHANGED <<content, checkout, midway, flows, made, givenUp, late, disturbed>>
    BY DEF RemoveByForce, Reaches, ghostVars
  <2>2. flow'[t] = [step |-> "unbranching", outcome |-> flow[t].outcome, picks |-> flow[t].picks]
    BY <1>2, <2>1, GotoFacts
  <2>3. FlowOK(t) /\ DiscardOK(t) /\ ReportOK(t)
    BY DEF CompletionInv
  <2>4. CompletionTypeOK' /\ GitOK'
    BY <1>2, <2>1, GotoFacts DEF CompletionInv, CompletionTypeOK, GitOK
  <2>5. EachKept'
    BY <1>2, <2>1, <2>3 DEF CompletionInv, EachKept, DiscardOK, Reaches
  <2>6. FlowOK(t)'
    BY <2>1, <2>2, <2>3 DEF FlowOK, Steps
  <2>7. DiscardOK(t)'
    BY <1>2, <2>1, <2>2, <2>3 DEF DiscardOK, Reaches
  <2>8. ReportOK(t)'
    BY <1>2, <2>1, <2>2, <2>3 DEF ReportOK, Reaches
  <2>9. ASSUME NEW u \in Tasks \ {t} PROVE FlowOK(u)' /\ DiscardOK(u)' /\ ReportOK(u)'
    <3>1. flow'[u] = flow[u]
      BY <1>2, <2>1, GotoFacts
    <3>2. FlowOK(u)' /\ ReportOK(u)'
      BY <1>2, <2>1, <3>1 DEF CompletionInv, FlowOK, ReportOK, Reaches
    <3>3. u \in DOMAIN worktree => worktree'[u] = worktree[u]
      BY <1>2
    <3>4. Reaches(u, "saving") \/ Reaches(u, "removing") => u \in DOMAIN worktree
      BY DEF CompletionInv, FlowOK, Reaches
    <3>5. DiscardOK(u)'
      BY <1>2, <2>1, <3>1, <3>3, <3>4 DEF CompletionInv, DiscardOK, Reaches
    <3>. QED
      BY <3>2, <3>5
  <2>. QED
    BY <2>4, <2>5, <2>6, <2>7, <2>8, <2>9 DEF CompletionInv
<1>. QED
  BY <1>1, <1>2 DEF RemoveByForce

LEMMA DeleteBranchOK ==
  ASSUME CompletionInv, NEW t \in Tasks, DeleteBranch(t) PROVE CompletionInv'
<1>1. /\ flow[t] # NoFlow /\ flow[t].step = "unbranching" /\ Return(t, Kind("discarded"))
      /\ content' = [b \in DOMAIN content \ {t} |-> content[b]]
      /\ UNCHANGED <<worktree, checkout, midway, flows, made, givenUp, late, disturbed>>
  BY DEF DeleteBranch, Reaches, ghostVars
<1>2. /\ t \notin DOMAIN worktree /\ t \notin MergeTargets
      /\ t \in DOMAIN content => content[t] \subseteq givenUp \cup late
  BY <1>1, CompletionAssumption DEF CompletionInv, DiscardOK, Reaches
<1>3. CompletionTypeOK' /\ GitOK'
  BY <1>1, <1>2, ReturnFacts DEF CompletionInv, CompletionTypeOK, GitOK
<1>4. EachKept'
  BY <1>1, <1>2 DEF CompletionInv, EachKept
<1>5. \A m \in MergeTargets : content[m] = content'[m]
  BY <1>1, <1>2 DEF CompletionInv, CompletionTypeOK
<1>6. FlowOK(t)' /\ DiscardOK(t)' /\ ReportOK(t)'
  BY <1>1, ReturnFacts DEF FlowOK, DiscardOK, ReportOK, Reaches, Kind
<1>7. ASSUME NEW u \in Tasks \ {t} PROVE FlowOK(u)' /\ DiscardOK(u)' /\ ReportOK(u)'
  <2>1. flow'[u] = flow[u] /\ result'[u] = result[u]
    BY <1>1, ReturnFacts
  <2>2. FlowOK(u) /\ DiscardOK(u) /\ ReportOK(u)
    BY DEF CompletionInv
  <2>3. FlowOK(u)' /\ ReportOK(u)'
    BY <1>1, <1>5, <2>1, <2>2 DEF FlowOK, ReportOK, Reaches
  <2>4. Reaches(u, "saving") \/ Reaches(u, "removing") => u \in DOMAIN content
    BY DEF CompletionInv, GitOK, FlowOK, Reaches
  <2>5. u \in DOMAIN content => content'[u] = content[u]
    BY <1>1
  <2>6. DiscardOK(u)'
    BY <1>1, <2>1, <2>2, <2>4, <2>5 DEF DiscardOK, Reaches
  <2>. QED
    BY <2>3, <2>6
<1>. QED
  BY <1>3, <1>4, <1>6, <1>7 DEF CompletionInv

LEMMA SwitchOK == ASSUME CompletionInv, NEW t \in Tasks, Switch(t) PROVE CompletionInv'
<1>1. CASE Return(t, Kind("error")) /\ UNCHANGED <<checkout, disturbed>>
  BY <1>1, ReturnsOK, MidwayTyped DEF Switch, ghostVars
<1>2. CASE /\ midway = "no" /\ checkout' = flow[t].outcome.target
           /\ Goto(t, flow[t].outcome.kind) /\ UNCHANGED result
           /\ disturbed' = IF checkout' = checkout THEN disturbed
                           ELSE disturbed \cup {u \in Tasks \ {t} : Reaches(u, "merge") \/ Reaches(u, "pick")}
  <2>1. /\ flow[t] # NoFlow /\ flow[t].step = "switching"
        /\ UNCHANGED <<content, worktree, midway, flows, made, givenUp, late>>
    BY DEF Switch, Reaches
  <2>2. FlowOK(t) /\ DiscardOK(t) /\ ReportOK(t)
    BY DEF CompletionInv
  <2>3. /\ flow[t].outcome.kind \in {"merge", "pick"} /\ flow[t].outcome.target \in MergeTargets
        /\ flow'[t] = [step |-> flow[t].outcome.kind, outcome |-> flow[t].outcome, picks |-> flow[t].picks]
    BY <1>2, <2>1, <2>2, GotoFacts DEF FlowOK
  <2>4. CompletionTypeOK' /\ GitOK' /\ EachKept'
    BY <1>2, <2>1, <2>3, GotoFacts DEF CompletionInv, CompletionTypeOK, GitOK, EachKept
  <2>5. FlowOK(t)'
    BY <2>1, <2>2, <2>3 DEF FlowOK, Steps
  <2>6. DiscardOK(t)'
    BY <2>3 DEF DiscardOK, Reaches
  <2>7. ReportOK(t)'
    BY <1>2, <2>1, <2>2, <2>3 DEF ReportOK, Reaches
  <2>8. ASSUME NEW u \in Tasks \ {t} PROVE FlowOK(u)' /\ DiscardOK(u)' /\ ReportOK(u)'
    <3>1. flow'[u] = flow[u] /\ FlowOK(u) /\ DiscardOK(u) /\ ReportOK(u)
      BY <1>2, <2>1, GotoFacts DEF CompletionInv
    <3>2. \/ checkout' = checkout \/ u \in disturbed'
          \/ ~(Reaches(u, "merge") \/ Reaches(u, "pick"))
      BY <1>2
    <3>. QED
      BY <1>2, <2>1, <3>1, <3>2, OthersStay
  <2>. QED
    BY <2>4, <2>5, <2>6, <2>7, <2>8 DEF CompletionInv
<1>. QED
  BY <1>1, <1>2 DEF Switch

(* Commits that arrive on the checked out target take nothing from anybody. *)
LEMMA TargetGrows ==
  ASSUME CompletionInv, NEW t \in Tasks, NEW X \in SUBSET made,
         content' = [content EXCEPT ![checkout] = @ \cup X],
         DOMAIN flow' = Tasks, DOMAIN result' = Tasks,
         \A u \in Tasks \ {t} : flow'[u] = flow[u] /\ result'[u] = result[u],
         UNCHANGED <<worktree, checkout, midway, flows, ghostVars>>
  PROVE  /\ CompletionTypeOK' /\ GitOK' /\ EachKept'
         /\ \A u \in Tasks \ {t} : FlowOK(u)' /\ DiscardOK(u)' /\ ReportOK(u)'
         /\ content'[checkout] = content[checkout] \cup X
         /\ \A m \in MergeTargets : content[m] \subseteq content'[m]
<1>1. /\ checkout \in MergeTargets /\ checkout \in DOMAIN content /\ checkout \notin Tasks
      /\ DOMAIN content' = DOMAIN content /\ content[checkout] \subseteq made
  BY CompletionAssumption DEF CompletionInv, CompletionTypeOK
<1>2. content'[checkout] = content[checkout] \cup X
  BY <1>1
<1>3. \A b \in DOMAIN content : content[b] \subseteq content'[b] /\ (b # checkout => content'[b] = content[b])
  BY <1>1
<1>4. \A m \in MergeTargets : content[m] \subseteq content'[m]
  BY <1>3 DEF CompletionInv, CompletionTypeOK
<1>5. /\ UNCHANGED <<worktree, checkout, midway, flows, made, givenUp, late, disturbed>>
  BY DEF ghostVars
<1>6. CompletionTypeOK'
  BY <1>1, <1>2, <1>3, <1>5 DEF CompletionInv, CompletionTypeOK
<1>7. GitOK'
  BY <1>1, <1>5 DEF CompletionInv, GitOK
<1>8. EachKept'
  BY <1>1, <1>3, <1>5 DEF CompletionInv, EachKept
<1>9. ASSUME NEW u \in Tasks \ {t} PROVE FlowOK(u)' /\ DiscardOK(u)' /\ ReportOK(u)'
  <2>1. FlowOK(u) /\ DiscardOK(u) /\ ReportOK(u)
    BY DEF CompletionInv
  <2>2. content'[u] = content[u]
    <3>1. u # checkout
      BY <1>1
    <3>. QED
      BY <3>1, <1>3, <1>1
  <2>. QED
    BY <1>1, <1>4, <1>5, <2>1, <2>2, OthersStay
<1>. QED
  BY <1>2, <1>4, <1>6, <1>7, <1>8, <1>9

LEMMA MergeOK == ASSUME CompletionInv, NEW t \in Tasks, Merge(t) PROVE CompletionInv'
<1>1. /\ flow[t] # NoFlow /\ flow[t].step = "merge"
      /\ UNCHANGED <<worktree, checkout, flows, ghostVars>>
  BY DEF Merge, Reaches
<1>2. FlowOK(t) /\ DiscardOK(t) /\ ReportOK(t)
  BY DEF CompletionInv
<1>3. CASE midway = "no" /\ ~Clash(content[t], content[checkout])
  <2>1. /\ content' = [content EXCEPT ![checkout] = @ \cup content[t]]
        /\ Return(t, [kind |-> "merged", target |-> flow[t].outcome.target, what |-> content[t]])
        /\ UNCHANGED midway
    BY <1>3 DEF Merge
  <2>2. content[t] \subseteq made
    BY <1>1, <1>2 DEF FlowOK, CompletionInv, CompletionTypeOK, GitOK
  <2>3. /\ CompletionTypeOK' /\ GitOK' /\ EachKept'
        /\ \A u \in Tasks \ {t} : FlowOK(u)' /\ DiscardOK(u)' /\ ReportOK(u)'
        /\ content'[checkout] = content[checkout] \cup content[t]
    <3>1. /\ content[t] \in SUBSET made /\ DOMAIN flow' = Tasks /\ DOMAIN result' = Tasks
          /\ \A u \in Tasks \ {t} : flow'[u] = flow[u] /\ result'[u] = result[u]
      BY <2>1, <2>2, ReturnFacts
    <3>. QED
      BY <1>1, <2>1, <3>1, TargetGrows
  <2>4. FlowOK(t)' /\ DiscardOK(t)'
    BY <2>1, ReturnFacts DEF FlowOK, DiscardOK, Reaches
  <2>5. ReportOK(t)'
    <3>1. /\ flow[t].outcome.target \in MergeTargets
          /\ t \in disturbed \/ checkout = flow[t].outcome.target
      BY <1>1, <1>2 DEF FlowOK, ReportOK, Reaches
    <3>2. /\ flow'[t] = NoFlow
          /\ result'[t] = [kind |-> "merged", target |-> flow[t].outcome.target, what |-> content[t]]
      BY <2>1, ReturnFacts
    <3>. QED
      BY <1>1, <2>3, <3>1, <3>2 DEF ReportOK, Reaches, ghostVars
  <2>. QED
    BY <2>3, <2>4, <2>5 DEF CompletionInv
<1>4. CASE ~(midway = "no" /\ ~Clash(content[t], content[checkout]))
  BY <1>1, <1>2, <1>4, MovesOnOK, MidwayTyped DEF Merge, FlowOK, Steps
<1>. QED
  BY <1>3, <1>4

LEMMA PickOK == ASSUME CompletionInv, NEW t \in Tasks, Pick(t) PROVE CompletionInv'
<1>1. /\ flow[t] # NoFlow /\ flow[t].step = "pick"
      /\ UNCHANGED <<worktree, checkout, flows, ghostVars>>
  BY DEF Pick, Reaches
<1>2. FlowOK(t) /\ DiscardOK(t) /\ ReportOK(t)
  BY DEF CompletionInv
<1>3. PICK picks \in Seq(made) : picks = flow[t].picks
  BY <1>1, <1>2 DEF FlowOK
<1>4. CASE picks = <<>>
  <2>1. Return(t, Kind("cherry_picked")) /\ UNCHANGED <<content, midway>>
    BY <1>3, <1>4 DEF Pick
  <2>. QED
    BY <1>1, <2>1, ReturnsOK, MidwayTyped
<1>5. CASE /\ picks # <<>> /\ midway = "no" /\ picks[1] \notin content[checkout]
           /\ ~\E y \in content[checkout] \ content[t] : y.path = picks[1].path
  <2>1. /\ content' = [content EXCEPT ![checkout] = @ \cup {picks[1]}]
        /\ flow' = [flow EXCEPT ![t].picks = Tail(@)] /\ UNCHANGED <<midway, result>>
    BY <1>3, <1>5 DEF Pick
  <2>2. picks[1] \in made /\ Tail(picks) \in Seq(made)
    BY <1>3, <1>5
  <2>3. /\ DOMAIN flow' = Tasks /\ \A u \in Tasks \ {t} : flow'[u] = flow[u]
        /\ flow'[t] = [flow[t] EXCEPT !.picks = Tail(flow[t].picks)]
    BY <2>1 DEF CompletionInv, GitOK
  <2>4. flow'[t] = [step |-> "pick", outcome |-> flow[t].outcome, picks |-> Tail(picks)]
    BY <1>1, <1>2, <1>3, <2>3 DEF FlowOK
  <2>5. /\ CompletionTypeOK' /\ GitOK' /\ EachKept'
        /\ \A u \in Tasks \ {t} : FlowOK(u)' /\ DiscardOK(u)' /\ ReportOK(u)'
        /\ \A m \in MergeTargets : content[m] \subseteq content'[m]
    <3>1. {picks[1]} \in SUBSET made /\ DOMAIN result' = Tasks
      BY <2>1, <2>2 DEF CompletionInv, GitOK
    <3>. QED
      BY <1>1, <2>1, <2>3, <3>1, TargetGrows
  <2>6. FlowOK(t)'
    BY <1>1, <1>2, <2>2, <2>4 DEF FlowOK, Steps, ghostVars
  <2>7. DiscardOK(t)' /\ ReportOK(t)'
    BY <1>1, <1>2, <2>1, <2>4, <2>5 DEF DiscardOK, ReportOK, Reaches, ghostVars
  <2>. QED
    BY <2>5, <2>6, <2>7 DEF CompletionInv
<1>6. CASE /\ picks # <<>>
           /\ ~(/\ midway = "no" /\ picks[1] \notin content[checkout]
                /\ ~\E y \in content[checkout] \ content[t] : y.path = picks[1].path)
  <2>1. /\ midway' = IF midway = "no" THEN "pick" ELSE midway
        /\ Goto(t, "aborting") /\ UNCHANGED <<content, result>>
    BY <1>3, <1>6 DEF Pick
  <2>. QED
    BY <1>1, <1>2, <2>1, MovesOnOK, MidwayTyped DEF FlowOK, Steps
<1>. QED
  BY <1>4, <1>5, <1>6

-----------------------------------------------------------------------------
LEMMA CompletionInitOK == CompletionInit => CompletionInv
<1>. SUFFICES ASSUME CompletionInit PROVE CompletionInv
  OBVIOUS
<1>1. CompletionTypeOK
  BY DEF CompletionInit, CompletionTypeOK
<1>2. GitOK /\ EachKept
  BY FS_EmptySet DEF CompletionInit, GitOK, EachKept
<1>3. \A t \in Tasks : FlowOK(t) /\ DiscardOK(t) /\ ReportOK(t)
  BY DEF CompletionInit, FlowOK, DiscardOK, ReportOK, Reaches
<1>. QED
  BY <1>1, <1>2, <1>3 DEF CompletionInv

LEMMA CompletionStepOK == CompletionInv /\ [CompletionNext]_completionVars => CompletionInv'
<1>. SUFFICES ASSUME CompletionInv, [CompletionNext]_completionVars PROVE CompletionInv'
  OBVIOUS
<1>1. ASSUME NEW t \in Tasks, Edit(t) \/ Commit(t) \/ CompleteStep(t) PROVE CompletionInv'
  BY <1>1, EditOK, CommitOK, BeginCompletionOK, LookOK, SaveManifestOK, RemoveByForceOK, DeleteBranchOK,
     RunChecksOK, SwitchOK, MergeOK, PickOK, AbortOK DEF CompleteStep
<1>2. CASE UNCHANGED completionVars
  <2>1. CompletionTypeOK' /\ GitOK' /\ EachKept'
    BY <1>2 DEF CompletionInv, CompletionTypeOK, GitOK, EachKept, completionVars, gitVars, ghostVars
  <2>2. \A t \in Tasks : FlowOK(t)' /\ DiscardOK(t)' /\ ReportOK(t)'
    BY <1>2 DEF CompletionInv, FlowOK, DiscardOK, ReportOK, Reaches, completionVars, gitVars, ghostVars
  <2>. QED
    BY <2>1, <2>2 DEF CompletionInv
<1>. QED
  BY <1>1, <1>2 DEF CompletionNext

(* Branches, worktrees and the changes in them stay of their types, and    *)
(* what a branch contains was made by somebody (worktree.rs, complete).    *)
THEOREM CompletionTypeCorrect == CompletionSpec => []CompletionTypeOK
<1>1. CompletionInv => CompletionTypeOK
  BY DEF CompletionInv
<1>. QED
  BY CompletionInitOK, CompletionStepOK, <1>1, PTL DEF CompletionSpec

(* A change leaves every branch and worktree only by a discard that gave   *)
(* it up or had looked before it was made, and what is reported as merged  *)
(* is on its target unless another completion switched the checkout in     *)
(* between (worktree.rs:61, complete), for any number of tasks, targets,   *)
(* edits and completions.                                                  *)
THEOREM WorkStays == CompletionSpec => []WorkIsKept
<1>1. CompletionInv => WorkIsKept
  <2>. SUFFICES ASSUME CompletionInv PROVE WorkIsKept
    OBVIOUS
  <2>. DEFINE inBranches == UNION {content[b] : b \in DOMAIN content}
              inTrees    == UNION {worktree[t] : t \in DOMAIN worktree}
  <2>1. made \ (inBranches \cup inTrees) \subseteq givenUp \cup late
    <3>1. ASSUME NEW x \in made, x \notin inBranches, x \notin inTrees PROVE x \in givenUp \cup late
      <4>1. \A b \in DOMAIN content : x \notin content[b]
        BY <3>1, Zenon
      <4>2. \A t \in DOMAIN worktree : x \notin worktree[t]
        BY <3>1, Zenon
      <4>. QED
        BY <4>1, <4>2 DEF CompletionInv, EachKept
    <3>. HIDE DEF inBranches, inTrees
    <3>. QED
      BY <3>1
  <2>2. \A t \in Tasks : result[t] # NoFlow /\ result[t].kind = "merged" =>
          result[t].what \subseteq content[result[t].target] \/ t \in disturbed
    BY DEF CompletionInv, ReportOK
  <2>. QED
    BY <2>1, <2>2 DEF WorkIsKept
<1>. QED
  BY CompletionInitOK, CompletionStepOK, <1>1, PTL DEF CompletionSpec

-----------------------------------------------------------------------------

(* What the statements of a handler act on: the row and the reference of   *)
(* its task, and the state it has reached.                                 *)
States      == TaskState \cup {Absent}
LocalStates == [row : States, ref : BOOLEAN, at : States]
Statements  == [op : Operations, from : States, to : States]

Effect(s, x) ==
  [row |-> IF s.op \in {"insert", "update"} THEN s.to ELSE IF s.op = "deleteRow" THEN Absent ELSE x.row,
   ref |-> IF s.op = "saveRef" THEN TRUE ELSE IF s.op \in {"dropRef", "deleteRef"} THEN FALSE ELSE x.ref,
   at  |-> IF s.op = "record" THEN s.to ELSE x.at]
Connected(s, x) == s.op = "record" => s.from = x.at /\ x.at # Absent
Backed(x)       == x.row = "Hibernated" => x.ref

(* The statements lead from x to y: the history stays connected, and at no *)
(* point does the row say Hibernated without a reference.                  *)
RunOf(q, r) ==
  /\ r \in [0 .. Len(q) -> LocalStates]
  /\ \A i \in 0 .. Len(q) : Backed(r[i])
  /\ \A i \in 1 .. Len(q) : Connected(q[i], r[i - 1]) /\ r[i] = Effect(q[i], r[i - 1])
Leads(q, x, y) == \E r : RunOf(q, r) /\ r[0] = x /\ r[Len(q)] = y

LEMMA EffectOK ==
  ASSUME NEW s \in Statements, NEW x \in LocalStates PROVE Effect(s, x) \in LocalStates
BY DEF Effect, Statements, LocalStates, States

LEMMA LeadsNowhere ==
  ASSUME NEW x \in LocalStates, Backed(x) PROVE Leads(<<>>, x, x)
<1>. DEFINE r == [i \in 0 .. 0 |-> x]
<1>1. Len(<<>>) = 0
  OBVIOUS
<1>2. RunOf(<<>>, r) /\ r[0] = x
  BY <1>1 DEF RunOf
<1>. QED
  BY <1>1, <1>2 DEF Leads

LEMMA LeadsOnce ==
  ASSUME NEW s \in Statements, NEW x \in LocalStates, Backed(x), Connected(s, x), Backed(Effect(s, x))
  PROVE  Leads(<<s>>, x, Effect(s, x))
<1>. DEFINE r == [i \in 0 .. 1 |-> IF i = 0 THEN x ELSE Effect(s, x)]
<1>1. Len(<<s>>) = 1 /\ <<s>>[1] = s
  OBVIOUS
<1>2. Effect(s, x) \in LocalStates
  BY EffectOK
<1>3. r \in [0 .. 1 -> LocalStates] /\ r[0] = x /\ r[1] = Effect(s, x)
  BY <1>2
<1>. HIDE DEF r
<1>4. RunOf(<<s>>, r)
  BY <1>1, <1>3 DEF RunOf
<1>. QED
  BY <1>1, <1>3, <1>4 DEF Leads

LEMMA LeadsOn ==
  ASSUME NEW p \in Seq(Statements), NEW q \in Seq(Statements), NEW x, NEW y, NEW z,
         Leads(p, x, y), Leads(q, y, z)
  PROVE  Leads(p \o q, x, z)
<1>1. PICK r1 : RunOf(p, r1) /\ r1[0] = x /\ r1[Len(p)] = y
  BY DEF Leads
<1>2. PICK r2 : RunOf(q, r2) /\ r2[0] = y /\ r2[Len(q)] = z
  BY DEF Leads
<1>. DEFINE n == Len(p)
            m == Len(q)
            r == [i \in 0 .. n + m |-> IF i <= n THEN r1[i] ELSE r2[i - n]]
<1>3. n \in Nat /\ m \in Nat /\ Len(p \o q) = n + m
  BY LenProperties, ConcatProperties
<1>4. \A i \in 1 .. n + m : (p \o q)[i] = IF i <= n THEN p[i] ELSE q[i - n]
  BY ConcatProperties
<1>5. /\ r1 \in [0 .. n -> LocalStates] /\ r2 \in [0 .. m -> LocalStates]
      /\ \A i \in 0 .. n : Backed(r1[i])
      /\ \A i \in 0 .. m : Backed(r2[i])
      /\ \A i \in 1 .. n : Connected(p[i], r1[i - 1]) /\ r1[i] = Effect(p[i], r1[i - 1])
      /\ \A i \in 1 .. m : Connected(q[i], r2[i - 1]) /\ r2[i] = Effect(q[i], r2[i - 1])
      /\ r1[0] = x /\ r1[n] = y /\ r2[0] = y /\ r2[m] = z
  BY <1>1, <1>2 DEF RunOf
<1>. HIDE DEF n, m
<1>6. \A i \in 0 .. n + m : r[i] = IF i <= n THEN r1[i] ELSE r2[i - n]
  OBVIOUS
<1>7. r \in [0 .. n + m -> LocalStates]
  <2>1. \A i \in 0 .. n + m : i <= n => i \in 0 .. n
    BY <1>3
  <2>2. \A i \in 0 .. n + m : ~(i <= n) => i - n \in 0 .. m
    BY <1>3
  <2>. QED
    BY <1>5, <2>1, <2>2
<1>. HIDE DEF r
<1>8. \A i \in 0 .. n + m : Backed(r[i])
  <2>. TAKE i \in 0 .. n + m
  <2>1. CASE i <= n
    BY <1>3, <1>5, <1>6, <2>1
  <2>2. CASE ~(i <= n)
    <3>1. i - n \in 0 .. m
      BY <1>3, <2>2
    <3>. QED
      BY <1>5, <1>6, <2>2, <3>1
  <2>. QED
    BY <2>1, <2>2
<1>9. \A i \in 1 .. n + m : Connected((p \o q)[i], r[i - 1]) /\ r[i] = Effect((p \o q)[i], r[i - 1])
  <2>. TAKE i \in 1 .. n + m
  <2>1. CASE i <= n
    <3>1. i \in 1 .. n /\ i \in 0 .. n + m /\ i - 1 \in 0 .. n + m /\ i - 1 <= n
      BY <1>3, <2>1
    <3>2. r[i - 1] = r1[i - 1] /\ r[i] = r1[i] /\ (p \o q)[i] = p[i]
      BY <1>4, <1>6, <2>1, <3>1
    <3>. QED
      BY <1>5, <3>1, <3>2
  <2>2. CASE i = n + 1
    <3>1. 1 \in 1 .. m /\ n \in 0 .. n + m /\ i - 1 = n /\ i - n = 1 /\ ~(i <= n) /\ 1 - 1 = 0
      BY <1>3, <2>2
    <3>2. r[i - 1] = y /\ r[i] = r2[1] /\ (p \o q)[i] = q[1]
      BY <1>3, <1>4, <1>5, <1>6, <3>1
    <3>. QED
      BY <1>5, <3>1, <3>2
  <2>3. CASE i > n + 1
    <3>1. i - n \in 1 .. m /\ i - 1 \in 0 .. n + m /\ ~(i - 1 <= n) /\ ~(i <= n) /\ (i - 1) - n = (i - n) - 1
      BY <1>3, <2>3
    <3>2. r[i - 1] = r2[(i - n) - 1]
      BY <1>6, <3>1
    <3>3. r[i] = r2[i - n] /\ (p \o q)[i] = q[i - n]
      <4>1. i \in 0 .. n + m
        BY <1>3
      <4>. QED
        BY <1>4, <1>6, <3>1, <4>1
    <3>. QED
      BY <1>5, <3>1, <3>2, <3>3
  <2>. QED
    BY <1>3, <2>1, <2>2, <2>3
<1>10. r[0] = x /\ r[n + m] = z
  <2>1. r[0] = x
    BY <1>3, <1>5, <1>6
  <2>2. CASE m = 0
    BY <1>3, <1>5, <1>6, <2>1, <2>2
  <2>3. CASE m # 0
    <3>1. n + m \in 0 .. n + m /\ ~(n + m <= n) /\ (n + m) - n = m
      BY <1>3, <2>3
    <3>. QED
      BY <1>5, <1>6, <2>1, <3>1
  <2>. QED
    BY <2>2, <2>3
<1>. QED
  BY <1>3, <1>7, <1>8, <1>9, <1>10 DEF Leads, RunOf

LEMMA LeadsThere == ASSUME NEW x, NEW y, Leads(<<>>, x, y) PROVE x = y /\ x \in LocalStates
BY DEF Leads, RunOf

LEMMA LeadsNext ==
  ASSUME NEW q \in Seq(Statements), q # <<>>, NEW x, NEW y, Leads(q, x, y)
  PROVE  /\ x \in LocalStates /\ Backed(x) /\ Connected(Head(q), x)
         /\ Effect(Head(q), x) \in LocalStates /\ Backed(Effect(Head(q), x))
         /\ Leads(Tail(q), Effect(Head(q), x), y)
<1>1. PICK r : RunOf(q, r) /\ r[0] = x /\ r[Len(q)] = y
  BY DEF Leads
<1>. DEFINE n == Len(q)
            t == [i \in 0 .. n - 1 |-> r[i + 1]]
<1>2. /\ n \in Nat \ {0} /\ Head(q) = q[1] /\ Len(Tail(q)) = n - 1 /\ Head(q) \in Statements
      /\ \A i \in 1 .. n - 1 : Tail(q)[i] = q[i + 1]
  BY HeadTailProperties, LenProperties, EmptySeq, ElementOfSeq
<1>3. /\ r \in [0 .. n -> LocalStates] /\ \A i \in 0 .. n : Backed(r[i])
      /\ \A i \in 1 .. n : Connected(q[i], r[i - 1]) /\ r[i] = Effect(q[i], r[i - 1])
      /\ r[0] = x /\ r[n] = y
  BY <1>1 DEF RunOf
<1>. HIDE DEF n
<1>4. x \in LocalStates /\ Backed(x) /\ Connected(Head(q), x) /\ r[1] = Effect(Head(q), x) /\ Backed(r[1])
      /\ r[1] \in LocalStates
  BY <1>2, <1>3
<1>5. \A i \in 0 .. n - 1 : t[i] = r[i + 1] /\ i + 1 \in 0 .. n /\ i + 1 \in 1 .. n
  BY <1>2
<1>6. t \in [0 .. n - 1 -> LocalStates]
  BY <1>3, <1>5
<1>. HIDE DEF t
<1>7. \A i \in 0 .. n - 1 : Backed(t[i])
  BY <1>3, <1>5
<1>8. \A i \in 1 .. n - 1 : Connected(Tail(q)[i], t[i - 1]) /\ t[i] = Effect(Tail(q)[i], t[i - 1])
  <2>. TAKE i \in 1 .. n - 1
  <2>1. i \in 0 .. n - 1 /\ i - 1 \in 0 .. n - 1 /\ (i - 1) + 1 = i /\ (i + 1) - 1 = i /\ i + 1 \in 1 .. n
    BY <1>2
  <2>2. t[i - 1] = r[i] /\ t[i] = r[i + 1] /\ Tail(q)[i] = q[i + 1]
    BY <1>2, <1>5, <2>1
  <2>. QED
    BY <1>3, <2>1, <2>2
<1>9. t[0] = r[1] /\ t[n - 1] = y
  BY <1>2, <1>3, <1>5
<1>. QED
  BY <1>2, <1>4, <1>6, <1>7, <1>8, <1>9 DEF Leads, RunOf

-----------------------------------------------------------------------------
(* The statements between the first and the last.                          *)
Inner(q) == q \in Seq(Statements) /\ \A i \in 1 .. Len(q) : q[i].op \in {"record", "update", "dropRef"}

LEMMA InnerOne ==
  ASSUME NEW s \in Statements, s.op \in {"record", "update", "dropRef"} PROVE Inner(<<s>>)
<1>1. <<s>> \in Seq(Statements) /\ Len(<<s>>) = 1 /\ <<s>>[1] = s
  OBVIOUS
<1>. QED
  BY <1>1 DEF Inner

LEMMA InnerOn == ASSUME NEW p, NEW q, Inner(p), Inner(q) PROVE Inner(p \o q)
<1>1. /\ p \o q \in Seq(Statements) /\ Len(p \o q) = Len(p) + Len(q) /\ Len(p) \in Nat /\ Len(q) \in Nat
      /\ \A i \in 1 .. Len(p) + Len(q) : (p \o q)[i] = IF i <= Len(p) THEN p[i] ELSE q[i - Len(p)]
  BY ConcatProperties, LenProperties DEF Inner
<1>2. ASSUME NEW i \in 1 .. Len(p) + Len(q) PROVE (p \o q)[i].op \in {"record", "update", "dropRef"}
  <2>1. CASE i <= Len(p)
    <3>1. i \in 1 .. Len(p) /\ (p \o q)[i] = p[i]
      BY <1>1, <2>1
    <3>. QED
      BY <3>1 DEF Inner
  <2>2. CASE ~(i <= Len(p))
    <3>1. i - Len(p) \in 1 .. Len(q) /\ (p \o q)[i] = q[i - Len(p)]
      BY <1>1, <2>2
    <3>. QED
      BY <3>1 DEF Inner
  <2>. QED
    BY <2>1, <2>2
<1>. QED
  BY <1>1, <1>2 DEF Inner

At(x, s)      == [row |-> x.row, ref |-> x.ref, at |-> s]
Settled(x, s) == [row |-> s, ref |-> x.ref, at |-> s]

LEMMA MoveLeads ==
  ASSUME NEW x \in LocalStates, x.at \in TaskState, Backed(x), NEW to \in TaskState
  PROVE  /\ Inner(Move(x.at, to)) /\ Leads(Move(x.at, to), x, At(x, Transition(x.at, to)))
         /\ At(x, Transition(x.at, to)) \in LocalStates /\ Backed(At(x, Transition(x.at, to)))
         /\ Transition(x.at, to) \in TaskState
<1>1. x = At(x, x.at)
  BY DEF At, LocalStates
<1>2. CASE CanTransitionTo(x.at, to)
  <2>. DEFINE s == Statement("record", x.at, to)
  <2>1. s \in Statements /\ s.op = "record" /\ s.from = x.at /\ s.to = to
    BY DEF Statement, Statements, Operations, States
  <2>2. Effect(s, x) = At(x, to)
    BY <2>1 DEF Effect, At
  <2>3. Connected(s, x) /\ Backed(At(x, to)) /\ At(x, to) \in LocalStates
    BY <2>1 DEF Connected, Absent, TaskState, Backed, At, LocalStates, States
  <2>. HIDE DEF s
  <2>4. Inner(<<s>>) /\ Leads(<<s>>, x, At(x, to))
    BY <2>1, <2>2, <2>3, InnerOne, LeadsOnce
  <2>. QED
    BY <1>2, <2>3, <2>4 DEF Move, Transition, s
<1>3. CASE ~CanTransitionTo(x.at, to)
  <2>1. Inner(<<>>) /\ Leads(<<>>, x, x)
    BY LeadsNowhere DEF Inner
  <2>. QED
    BY <1>1, <1>3, <2>1 DEF Move, Transition
<1>. QED
  BY <1>2, <1>3

LEMMA UpdateLeads ==
  ASSUME NEW x \in LocalStates, Backed(x), x.at \in TaskState, x.ref \/ x.at # "Hibernated"
  PROVE  /\ Inner(<<Update(x.at)>>) /\ Leads(<<Update(x.at)>>, x, Settled(x, x.at))
         /\ Settled(x, x.at) \in LocalStates /\ Backed(Settled(x, x.at))
<1>. DEFINE s == Update(x.at)
<1>1. s \in Statements /\ s.op = "update" /\ s.to = x.at
  BY DEF Update, Statement, Statements, Operations, States
<1>2. Effect(s, x) = Settled(x, x.at)
  BY <1>1 DEF Effect, Settled
<1>3. Connected(s, x) /\ Backed(Settled(x, x.at)) /\ Settled(x, x.at) \in LocalStates
  BY <1>1 DEF Connected, Backed, Settled, LocalStates, States
<1>. HIDE DEF s
<1>. QED
  BY <1>1, <1>2, <1>3, InnerOne, LeadsOnce DEF s

LEMMA MoveUpdateLeads ==
  ASSUME NEW x \in LocalStates, Backed(x), x.at \in TaskState, NEW to \in TaskState,
         x.ref \/ Transition(x.at, to) # "Hibernated"
  PROVE  LET end == Transition(x.at, to)
             q   == Move(x.at, to) \o <<Update(end)>>
         IN  /\ Inner(q) /\ Leads(q, x, Settled(x, end)) /\ end \in TaskState
             /\ Settled(x, end) \in LocalStates /\ Backed(Settled(x, end))
<1>. DEFINE end == Transition(x.at, to)
            y   == At(x, end)
<1>1. Inner(Move(x.at, to)) /\ Leads(Move(x.at, to), x, y) /\ y \in LocalStates /\ Backed(y) /\ end \in TaskState
  BY MoveLeads
<1>2. y.at = end /\ y.ref = x.ref /\ Settled(y, end) = Settled(x, end)
  BY DEF At, Settled
<1>. HIDE DEF y, end
<1>3. /\ Inner(<<Update(end)>>) /\ Leads(<<Update(end)>>, y, Settled(x, end))
      /\ Settled(x, end) \in LocalStates /\ Backed(Settled(x, end))
  <2>1. x.ref \/ end # "Hibernated"
    BY DEF end
  <2>. QED
    BY <1>1, <1>2, <2>1, UpdateLeads
<1>4. Inner(Move(x.at, to) \o <<Update(end)>>) /\ Leads(Move(x.at, to) \o <<Update(end)>>, x, Settled(x, end))
  BY <1>1, <1>3, InnerOn, LeadsOn DEF Inner
<1>. QED
  BY <1>1, <1>3, <1>4 DEF end

(* A sequence with a statement in it.                                      *)
LEMMA Nonempty ==
  ASSUME NEW p \in Seq(Statements), NEW q \in Seq(Statements), q # <<>> PROVE p \o q # <<>>
BY LenProperties, ConcatProperties, EmptySeq

LEMMA WalkLeads ==
  ASSUME NEW x \in LocalStates, Backed(x), x.at \in TaskState,
         NEW first \in TaskState, NEW second \in TaskState,
         x.ref \/ Transition(Transition(x.at, first), second) # "Hibernated"
  PROVE  LET end == Transition(Transition(x.at, first), second)
             q   == Walk(x.at, first, second)
         IN  /\ Inner(q) /\ q # <<>> /\ Leads(q, x, Settled(x, end)) /\ end \in TaskState
             /\ Settled(x, end) \in LocalStates /\ Backed(Settled(x, end))
<1>. DEFINE mid == Transition(x.at, first)
            end == Transition(mid, second)
            y   == At(x, mid)
            p   == Move(x.at, first)
            m   == Move(mid, second)
            u   == <<Update(end)>>
<1>1. Inner(p) /\ Leads(p, x, y) /\ y \in LocalStates /\ Backed(y) /\ mid \in TaskState
  BY MoveLeads
<1>2. y.at = mid /\ y.ref = x.ref /\ \A s : Settled(y, s) = Settled(x, s) /\ At(y, s) = At(x, s)
  BY DEF At, Settled
<1>3. x.ref \/ end # "Hibernated"
  OBVIOUS
<1>4. Walk(x.at, first, second) = p \o m \o u
  BY DEF Walk
<1>. HIDE DEF y, mid, p
<1>5. Inner(m) /\ Leads(m, y, At(x, end)) /\ At(x, end) \in LocalStates /\ Backed(At(x, end)) /\ end \in TaskState
  BY <1>1, <1>2, MoveLeads
<1>. HIDE DEF end, m
<1>6. At(x, end).at = end /\ At(x, end).ref = x.ref /\ Settled(At(x, end), end) = Settled(x, end)
  BY DEF At, Settled
<1>7. Inner(u) /\ Leads(u, At(x, end), Settled(x, end)) /\ Settled(x, end) \in LocalStates /\ Backed(Settled(x, end))
      /\ u # <<>>
  BY <1>3, <1>5, <1>6, UpdateLeads
<1>. HIDE DEF u
<1>8. Inner(p \o m) /\ Leads(p \o m, x, At(x, end))
  BY <1>1, <1>5, InnerOn, LeadsOn DEF Inner
<1>9. Inner(p \o m \o u) /\ Leads(p \o m \o u, x, Settled(x, end)) /\ p \o m \o u # <<>>
  BY <1>7, <1>8, InnerOn, LeadsOn, Nonempty DEF Inner
<1>. QED
  BY <1>4, <1>5, <1>7, <1>9 DEF end, mid

(* Every walk of the handlers ends where the lifecycle says.               *)
LEMMA Ends ==
  /\ \A ok \in BOOLEAN : /\ Transition("Queued", "Admitting") = "Admitting" /\ LaunchOutcome(ok) \in {"Active", "Failed"}
                         /\ Transition(Transition("Admitting", "Starting"), LaunchOutcome(ok)) = LaunchOutcome(ok)
  /\ HibernateWalk("Active") = "Hibernated"
  /\ Transition(Transition("Hibernated", "Resuming"), "Active") = "Active"
  /\ Recycled("Active") = "Recycling" /\ RecycleWalk("Active") = "Active" /\ RecycleFailWalk("Active") = "Failed"
  /\ Transition(Transition("Recycling", "Resuming"), "Active") = "Active" /\ Transition("Recycling", "Failed") = "Failed"
  /\ \A s \in TaskState : TerminateWalk(s) \in TaskState \ {"Hibernated"}
BY DEF Transition, CanTransitionTo, AllowedNext, TaskState, LaunchOutcome, HibernateWalk, Recycled,
       RecycleWalk, ResumeWalk, RecycleFailWalk, TerminateWalk

LEMMA LaunchLeads ==
  ASSUME NEW x \in LocalStates, Backed(x), x.at = "Queued", NEW ok \in BOOLEAN
  PROVE  /\ Inner(LaunchRecords(ok)) /\ LaunchRecords(ok) # <<>> /\ Leads(LaunchRecords(ok), x, Settled(x, LaunchOutcome(ok)))
<1>. DEFINE p == Move("Queued", "Admitting")
            w == Walk("Admitting", "Starting", LaunchOutcome(ok))
            y == At(x, "Admitting")
<1>1. {"Queued", "Admitting", "Starting", "Active", "Failed"} \subseteq TaskState
  BY DEF TaskState
<1>2. Inner(p) /\ Leads(p, x, y) /\ y \in LocalStates /\ Backed(y)
  BY <1>1, Ends, MoveLeads
<1>3. y.at = "Admitting" /\ \A s : Settled(y, s) = Settled(x, s)
  BY DEF At, Settled
<1>. HIDE DEF y, p
<1>4. Inner(w) /\ w # <<>> /\ Leads(w, y, Settled(x, LaunchOutcome(ok)))
  <2>1. LaunchOutcome(ok) \in TaskState /\ LaunchOutcome(ok) # "Hibernated"
    BY <1>1, Ends
  <2>2. Transition(Transition(y.at, "Starting"), LaunchOutcome(ok)) = LaunchOutcome(ok)
    BY <1>3, Ends
  <2>3. Inner(Walk(y.at, "Starting", LaunchOutcome(ok))) /\ Walk(y.at, "Starting", LaunchOutcome(ok)) # <<>>
        /\ Leads(Walk(y.at, "Starting", LaunchOutcome(ok)), y, Settled(y, LaunchOutcome(ok)))
    BY <1>1, <1>2, <1>3, <2>1, <2>2, WalkLeads
  <2>. QED
    BY <1>3, <2>3
<1>. HIDE DEF w
<1>5. Inner(p \o w) /\ p \o w # <<>> /\ Leads(p \o w, x, Settled(x, LaunchOutcome(ok)))
  BY <1>2, <1>4, InnerOn, LeadsOn, Nonempty DEF Inner
<1>. QED
  BY <1>5 DEF LaunchRecords, p, w

LEMMA RequeueRounds ==
  ASSUME NEW s \in TaskState, ForceRequeue(s) = "Queued"
  PROVE  \E n \in 0 .. MaxRequeueRounds, after \in [0 .. MaxRequeueRounds -> TaskState] :
           /\ after[0] = s /\ after[n] = "Queued"
           /\ RequeueRecords(s) = [i \in 1 .. n |-> Statement("record", after[i - 1], after[i])]
<1>. DEFINE after[n \in 0 .. MaxRequeueRounds] == IF n = 0 THEN s ELSE RequeueRound(after[n - 1])
            a1 == RequeueRound(s)
            a2 == RequeueRound(a1)
            a3 == RequeueRound(a2)
            a4 == RequeueRound(a3)
            a5 == RequeueRound(a4)
            a6 == RequeueRound(a5)
            f == [n \in 0 .. 6 |-> IF n = 0 THEN s ELSE IF n = 1 THEN a1 ELSE IF n = 2 THEN a2
                                   ELSE IF n = 3 THEN a3 ELSE IF n = 4 THEN a4 ELSE IF n = 5 THEN a5 ELSE a6]
            rounds == CHOOSE n \in 0 .. MaxRequeueRounds :
                        after[n] = "Queued" /\ \A m \in 0 .. (n - 1) : after[m] # "Queued"
<1>1. \A r \in TaskState : RequeueRound(r) \in TaskState
  BY DEF RequeueRound, Transition, TaskState
<1>2. f = [n \in 0 .. MaxRequeueRounds |-> IF n = 0 THEN s ELSE RequeueRound(f[n - 1])]
  <2>. HIDE DEF a1, a2, a3, a4, a5, a6
  <2>1. \A n \in 0 .. 6 : f[n] = IF n = 0 THEN s ELSE RequeueRound(f[n - 1])
    BY DEF a1, a2, a3, a4, a5, a6
  <2>. QED
    BY <2>1 DEF MaxRequeueRounds
<1>. HIDE DEF f
<1>4. after = [n \in 0 .. MaxRequeueRounds |-> IF n = 0 THEN s ELSE RequeueRound(after[n - 1])]
  BY <1>2, Zenon
<1>5. RequeueRecords(s) = [i \in 1 .. rounds |-> Statement("record", after[i - 1], after[i])]
  BY DEF RequeueRecords
<1>6. ForceRequeue(s) = after[MaxRequeueRounds]
  BY DEF ForceRequeue
<1>. HIDE DEF after
<1>7. /\ after[0] = s /\ \A n \in 1 .. 6 : after[n] = RequeueRound(after[n - 1])
      /\ after = [n \in 0 .. 6 |-> after[n]]
  BY <1>4 DEF MaxRequeueRounds
<1>8. /\ after[1] = RequeueRound(after[0]) /\ after[2] = RequeueRound(after[1])
      /\ after[3] = RequeueRound(after[2]) /\ after[4] = RequeueRound(after[3])
      /\ after[5] = RequeueRound(after[4]) /\ after[6] = RequeueRound(after[5])
  BY <1>7
<1>9. /\ after[0] \in TaskState /\ after[1] \in TaskState /\ after[2] \in TaskState /\ after[3] \in TaskState
      /\ after[4] \in TaskState /\ after[5] \in TaskState /\ after[6] \in TaskState
  BY <1>1, <1>7, <1>8
<1>10. after \in [0 .. MaxRequeueRounds -> TaskState]
  <2>1. \A n \in 0 .. 6 : after[n] \in TaskState
    BY <1>9
  <2>. QED
    BY <1>7, <2>1 DEF MaxRequeueRounds
<1>11. \E n \in 0 .. MaxRequeueRounds : after[n] = "Queued" /\ \A m \in 0 .. (n - 1) : after[m] # "Queued"
  <2>. DEFINE First(n) == after[n] = "Queued" /\ \A m \in 0 .. (n - 1) : after[m] # "Queued"
  <2>1. after[6] = "Queued"
    BY <1>6 DEF MaxRequeueRounds
  <2>2. First(0) \/ First(1) \/ First(2) \/ First(3) \/ First(4) \/ First(5) \/ First(6)
    BY <2>1
  <2>. QED
    BY <2>2 DEF MaxRequeueRounds
<1>12. rounds \in 0 .. MaxRequeueRounds /\ after[rounds] = "Queued"
  BY <1>11
<1>. QED
  BY <1>5, <1>7, <1>10, <1>12

LEMMA RequeueLeads ==
  ASSUME NEW x \in LocalStates, Backed(x), x.at \in TaskState, ForceRequeue(x.at) = "Queued"
  PROVE  /\ Inner(RequeueRecords(x.at)) /\ Leads(RequeueRecords(x.at), x, At(x, "Queued"))
         /\ At(x, "Queued") \in LocalStates /\ Backed(At(x, "Queued"))
<1>1. PICK n \in 0 .. MaxRequeueRounds, after \in [0 .. MaxRequeueRounds -> TaskState] :
        /\ after[0] = x.at /\ after[n] = "Queued"
        /\ RequeueRecords(x.at) = [i \in 1 .. n |-> Statement("record", after[i - 1], after[i])]
  BY RequeueRounds
<1>. DEFINE q == RequeueRecords(x.at)
            r == [i \in 0 .. n |-> At(x, after[i])]
<1>2. n \in Nat /\ \A i \in 0 .. n : after[i] \in TaskState
  BY <1>1 DEF MaxRequeueRounds
<1>3. \A i \in 1 .. n : i - 1 \in 0 .. n /\ i \in 0 .. n
  BY <1>2
<1>4. \A i \in 1 .. n : /\ q[i] = Statement("record", after[i - 1], after[i]) /\ q[i] \in Statements
                        /\ q[i].op = "record" /\ q[i].from = after[i - 1] /\ q[i].to = after[i]
  BY <1>1, <1>2, <1>3 DEF Statement, Statements, Operations, States
<1>5. q \in Seq(Statements) /\ Len(q) = n
  <2>1. q = [i \in 1 .. n |-> q[i]]
    BY <1>1
  <2>. HIDE DEF q
  <2>2. q \in [1 .. n -> Statements]
    BY <1>4, <2>1
  <2>. QED
    BY <1>2, <2>2
<1>. HIDE DEF q
<1>6. \A s \in TaskState : At(x, s) \in LocalStates /\ Backed(At(x, s)) /\ At(x, s).at = s /\ s # Absent
  BY DEF At, LocalStates, States, Backed, Absent, TaskState
<1>7. \A i \in 0 .. n : r[i] = At(x, after[i])
  OBVIOUS
<1>8. r \in [0 .. n -> LocalStates] /\ \A i \in 0 .. n : Backed(r[i])
  BY <1>2, <1>6
<1>. HIDE DEF r
<1>9. \A i \in 1 .. n : Connected(q[i], r[i - 1]) /\ r[i] = Effect(q[i], r[i - 1])
  <2>. TAKE i \in 1 .. n
  <2>1. r[i - 1] = At(x, after[i - 1]) /\ r[i] = At(x, after[i]) /\ after[i - 1] \in TaskState
    BY <1>2, <1>3, <1>7
  <2>2. Connected(q[i], r[i - 1])
    BY <1>4, <1>6, <2>1 DEF Connected
  <2>3. \A s, p : s.op = "record" => Effect(s, At(x, p)) = At(x, s.to)
    BY DEF Effect, At
  <2>4. r[i] = Effect(q[i], r[i - 1])
    BY <1>4, <2>1, <2>3
  <2>. QED
    BY <2>2, <2>4
<1>10. r[0] = x /\ r[n] = At(x, "Queued")
  <2>1. x = At(x, x.at)
    BY DEF At, LocalStates
  <2>. QED
    BY <1>1, <1>2, <1>7, <2>1
<1>11. Inner(q)
  BY <1>4, <1>5 DEF Inner
<1>12. Leads(q, x, At(x, "Queued"))
  BY <1>5, <1>8, <1>9, <1>10 DEF Leads, RunOf
<1>13. "Queued" \in TaskState
  BY DEF TaskState
<1>. QED
  BY <1>6, <1>11, <1>12, <1>13 DEF q
-----------------------------------------------------------------------------
(* The invariant.                                                          *)

(* A handler thinks the task is at s: whether the next entry of its        *)
(* history will leave a gap.                                               *)
Pend(t, s)   == IF s \in {Absent, Began(t)} THEN 0 ELSE 1
GapsOK(t, s) == gaps[t] + Pend(t, s) <= boots + failedWrites

Handlers == [task : SUBSET StoredTasks, statements : Seq(Statements), after : States, alive : BOOLEAN]

StoreTyped ==
  /\ rows \in [StoredTasks -> States] /\ lastRecorded \in [StoredTasks -> States]
  /\ gaps \in [StoredTasks -> Nat] /\ refs \subseteq StoredTasks
  /\ registry \in [StoredTasks -> States] /\ live \subseteq StoredTasks
  /\ handler \in Handlers
  /\ handler.task = {} => handler = NoHandler
  /\ \A t \in handler.task : handler.task = {t} /\ handler.statements # <<>>
  /\ created \subseteq StoredTasks /\ forgotten \subseteq StoredTasks /\ lost \subseteq StoredTasks
  /\ failedWrites \in 0..MaxFailedWrites /\ boots \in 0..MaxBoots /\ handlers \in 0..MaxHandlers

(* Forgetting a task: what has been deleted is gone.                       *)
Forgetting(t, q) ==
  /\ registry[t] = Absent /\ handler.after = Absent
  /\ \/ q = <<Plain("deleteHistory"), Plain("deleteRef"), Plain("deleteRow")>>
     \/ q = <<Plain("deleteRef"), Plain("deleteRow")>> /\ lastRecorded[t] = Absent
     \/ q = <<Plain("deleteRow")>> /\ lastRecorded[t] = Absent /\ t \notin refs

(* What a handler has yet to execute, when memory may still matter.        *)
Shape(t, q, x) ==
  \/ Inner(q)
  \/ /\ Head(q).op = "saveRef" /\ Inner(Tail(q)) /\ x.at = registry[t]
     /\ t \notin lost => rows[t] = registry[t]
  \/ Head(q).op = "insert" /\ Inner(Tail(q)) /\ registry[t] = Absent
  \/ Forgetting(t, q) /\ x.at = Absent

Fits(t, x) == t \notin lost => x.row = rows[t] /\ (x.ref <=> t \in refs)

UnderWay(t, x, y) ==
  /\ Leads(handler.statements, x, y) /\ y.at = handler.after /\ y.row = handler.after
  /\ Fits(t, x) /\ GapsOK(t, x.at) /\ Shape(t, handler.statements, x)

BusyOK ==
  \A t \in handler.task : /\ \E x, y \in LocalStates : UnderWay(t, x, y)
                          /\ handler.alive => handler.after = "Active"
                          /\ t \in created /\ t \notin forgotten

IdleOK ==
  \A t \in StoredTasks \ handler.task :
    /\ t \notin lost => registry[t] \in {rows[t], Absent}
    /\ GapsOK(t, registry[t])

RefsOK == \A t \in StoredTasks : t \notin lost /\ rows[t] = "Hibernated" => t \in refs

NewOK == \A t \in StoredTasks \ created :
           rows[t] = Absent /\ lastRecorded[t] = Absent /\ t \notin refs /\ registry[t] = Absent

GoneOK == \A t \in forgotten :
            rows[t] = Absent /\ lastRecorded[t] = Absent /\ t \notin refs /\ registry[t] = Absent /\ t \in created

LiveOK == \A t \in live : registry[t] = "Active"

StoreInv == StoreTyped /\ BusyOK /\ IdleOK /\ RefsOK /\ NewOK /\ GoneOK /\ LiveOK

LEMMA InitStore == StoreInit => StoreInv
<1>. SUFFICES ASSUME StoreInit PROVE StoreInv
  OBVIOUS
<1>1. NoHandler \in Handlers /\ NoHandler.task = {}
  BY DEF NoHandler, Handlers, States
<1>2. StoreTyped
  BY <1>1, StoreAssumption DEF StoreInit, StoreTyped, States
<1>. QED
  BY <1>1, <1>2 DEF StoreInit, StoreInv, BusyOK, IdleOK, RefsOK, NewOK, GoneOK, LiveOK, GapsOK, Pend, Absent

(* The first statement of a sequence and the rest.                         *)
LEMMA FirstAndRest ==
  ASSUME NEW s \in Statements, NEW p \in Seq(Statements)
  PROVE  <<s>> \o p \in Seq(Statements) /\ <<s>> \o p # <<>> /\ Head(<<s>> \o p) = s /\ Tail(<<s>> \o p) = p
<1>1. <<s>> \in Seq(Statements) /\ Len(<<s>>) = 1 /\ <<s>>[1] = s
  OBVIOUS
<1>2. /\ <<s>> \o p \in Seq(Statements) /\ Len(<<s>> \o p) = 1 + Len(p) /\ Len(p) \in Nat
      /\ \A i \in 1 .. 1 + Len(p) : (<<s>> \o p)[i] = IF i <= 1 THEN <<s>>[i] ELSE p[i - 1]
  BY <1>1, ConcatProperties, LenProperties
<1>. QED
  BY <1>1, <1>2

LEMMA InnerNext ==
  ASSUME NEW q, Inner(q), q # <<>>
  PROVE  Inner(Tail(q)) /\ Head(q) \in Statements /\ Head(q).op \in {"record", "update", "dropRef"}
<1>1. /\ Len(q) \in Nat \ {0} /\ Head(q) = q[1] /\ Len(Tail(q)) = Len(q) - 1
      /\ Tail(q) \in Seq(Statements) /\ \A i \in 1 .. Len(q) - 1 : Tail(q)[i] = q[i + 1]
      /\ \A i \in 1 .. Len(q) : q[i] \in Statements
  BY HeadTailProperties, LenProperties, EmptySeq, ElementOfSeq DEF Inner
<1>2. \A i \in 1 .. Len(q) - 1 : i + 1 \in 1 .. Len(q)
  BY <1>1
<1>. QED
  BY <1>1, <1>2 DEF Inner

-----------------------------------------------------------------------------
(* A handler begins.                                                       *)

Entry(t) == [row |-> registry[t], ref |-> t \in refs \cup lost, at |-> registry[t]]

LEMMA EntryOK ==
  ASSUME StoreInv, handler = NoHandler, NEW t \in StoredTasks, registry[t] # Absent
  PROVE  /\ Entry(t) \in LocalStates /\ Backed(Entry(t)) /\ Entry(t).at = registry[t] /\ registry[t] \in TaskState
         /\ t \in created /\ t \notin forgotten /\ Fits(t, Entry(t)) /\ GapsOK(t, Entry(t).at)
         /\ t \notin lost => rows[t] = registry[t]
<1>1. t \in StoredTasks \ handler.task
  BY DEF NoHandler
<1>2. /\ registry[t] \in TaskState /\ t \in created /\ t \notin forgotten /\ GapsOK(t, registry[t])
      /\ t \notin lost => rows[t] = registry[t] /\ (rows[t] = "Hibernated" => t \in refs)
  BY <1>1 DEF StoreInv, StoreTyped, IdleOK, RefsOK, NewOK, GoneOK, States
<1>3. /\ Entry(t).row = registry[t] /\ Entry(t).at = registry[t]
      /\ (Entry(t).ref <=> t \in refs \cup lost) /\ Entry(t) \in LocalStates
  <2>1. (t \in refs \cup lost) \in BOOLEAN /\ registry[t] \in States
    BY <1>2 DEF States
  <2>. DEFINE b == t \in refs \cup lost
  <2>2. b \in BOOLEAN
    BY <2>1
  <2>. HIDE DEF b
  <2>3. [row |-> registry[t], ref |-> b, at |-> registry[t]] \in LocalStates
    BY <2>1, <2>2 DEF LocalStates
  <2>4. Entry(t) = [row |-> registry[t], ref |-> b, at |-> registry[t]]
    BY Zenon DEF Entry, b
  <2>5. b <=> t \in refs \cup lost
    BY DEF b
  <2>. QED
    BY <2>3, <2>4, <2>5
<1>. HIDE DEF Entry
<1>4. Backed(Entry(t)) /\ Fits(t, Entry(t))
  <2>1. registry[t] = "Hibernated" => t \in refs \cup lost
    BY <1>2
  <2>2. Backed(Entry(t))
    BY <1>3, <2>1 DEF Backed
  <2>3. Fits(t, Entry(t))
    BY <1>2, <1>3 DEF Fits
  <2>. QED
    BY <2>2, <2>3
<1>. QED
  BY <1>2, <1>3, <1>4

LEMMA BeginStep ==
  ASSUME StoreInv, NEW t \in StoredTasks, registry[t] # Absent,
         NEW q \in Seq(Statements), q # <<>>, NEW after \in States, NEW alive \in BOOLEAN,
         alive => after = "Active", Begins(t, q, after, alive), Unchanged,
         NEW y \in LocalStates, Leads(q, Entry(t), y), y.at = after, y.row = after,
         Inner(q) \/ (Head(q).op = "saveRef" /\ Inner(Tail(q)))
  PROVE  StoreInv'
<1>1. /\ handler = NoHandler /\ handlers' \in 0..MaxHandlers
      /\ handler' = [task |-> {t}, statements |-> q, after |-> after, alive |-> alive]
      /\ UNCHANGED <<rows, lastRecorded, gaps, refs, registry, live, created, forgotten, lost, failedWrites, boots>>
  BY StoreAssumption DEF Begins, Unchanged, tableVars, StoreInv, StoreTyped
<1>2. handler'.task = {t} /\ handler'.statements = q /\ handler'.after = after /\ handler'.alive = alive
  BY <1>1
<1>3. StoreTyped'
  <2>1. handler' \in Handlers
    BY <1>1 DEF Handlers
  <2>. QED
    BY <1>1, <1>2, <2>1 DEF StoreInv, StoreTyped
<1>4. UnderWay(t, Entry(t), y)'
  <2>1. Entry(t)' = Entry(t)
    BY <1>1 DEF Entry
  <2>2. Fits(t, Entry(t))' /\ GapsOK(t, Entry(t).at)' /\ Shape(t, q, Entry(t))'
    BY <1>1, <2>1, EntryOK DEF Fits, GapsOK, Pend, Began, Shape
  <2>. QED
    BY <1>2, <2>1, <2>2 DEF UnderWay
<1>5. BusyOK'
  <2>1. Entry(t)' \in LocalStates
    BY <1>1, EntryOK DEF Entry
  <2>2. \E x, z \in LocalStates : UnderWay(t, x, z)'
    BY <1>4, <2>1
  <2>. QED
    BY <1>1, <1>2, <2>2, EntryOK DEF BusyOK
<1>6. IdleOK' /\ RefsOK' /\ NewOK' /\ GoneOK' /\ LiveOK'
  BY <1>1 DEF StoreInv, IdleOK, RefsOK, NewOK, GoneOK, LiveOK, GapsOK, Pend, Began, NoHandler
<1>. QED
  BY <1>3, <1>5, <1>6 DEF StoreInv

-----------------------------------------------------------------------------
LEMMA LaunchBegins == ASSUME StoreInv, NEW t \in StoredTasks, StoreLaunch(t) PROVE StoreInv'
<1>1. PICK ok \in BOOLEAN : Begins(t, LaunchRecords(ok), LaunchOutcome(ok), ok)
  BY DEF StoreLaunch
<1>. DEFINE e == Entry(t)
            y == Settled(e, LaunchOutcome(ok))
<1>2. handler = NoHandler /\ registry[t] = "Queued" /\ Unchanged /\ registry[t] # Absent
  BY <1>1 DEF Begins, StoreLaunch, Absent
<1>3. e \in LocalStates /\ Backed(e) /\ e.at = "Queued"
  BY <1>2, EntryOK
<1>4. LaunchOutcome(ok) \in States /\ (ok => LaunchOutcome(ok) = "Active")
  BY DEF LaunchOutcome, States, TaskState
<1>. HIDE DEF e
<1>5. y \in LocalStates /\ y.at = LaunchOutcome(ok) /\ y.row = LaunchOutcome(ok)
  BY <1>3, <1>4 DEF Settled, LocalStates
<1>. HIDE DEF y
<1>6. Inner(LaunchRecords(ok)) /\ Leads(LaunchRecords(ok), e, y) /\ LaunchRecords(ok) # <<>>
  BY <1>3, LaunchLeads DEF y
<1>. QED
  BY <1>1, <1>2, <1>4, <1>5, <1>6, BeginStep DEF e, Inner

LEMMA RestartBegins == ASSUME StoreInv, NEW t \in StoredTasks, StoreRestart(t) PROVE StoreInv'
<1>. DEFINE s == registry[t]
            e == Entry(t)
            p == RequeueRecords(s)
            m == At(e, "Queued")
            u == <<Update("Queued")>>
            w == Settled(m, "Queued")
<1>1. PICK ok \in BOOLEAN : Begins(t, p \o u \o LaunchRecords(ok), LaunchOutcome(ok), ok)
  BY DEF StoreRestart
<1>. DEFINE y == Settled(w, LaunchOutcome(ok))
            l == LaunchRecords(ok)
<1>2. handler = NoHandler /\ s # Absent /\ Unchanged /\ ForceRequeue(s) = "Queued"
  BY <1>1 DEF Begins, StoreRestart
<1>3. e \in LocalStates /\ Backed(e) /\ e.at = s /\ s \in TaskState
  BY <1>2, EntryOK
<1>4. LaunchOutcome(ok) \in States /\ (ok => LaunchOutcome(ok) = "Active")
  BY DEF LaunchOutcome, States, TaskState
<1>. HIDE DEF e
<1>5. Inner(p) /\ Leads(p, e, m) /\ m \in LocalStates /\ Backed(m)
  BY <1>2, <1>3, RequeueLeads
<1>6. m.at = "Queued" /\ "Queued" \in TaskState
  BY DEF At, TaskState
<1>. HIDE DEF m, p
<1>7. Inner(u) /\ Leads(u, m, w) /\ w \in LocalStates /\ Backed(w)
  BY <1>5, <1>6, UpdateLeads
<1>8. w.at = "Queued"
  BY DEF Settled
<1>. HIDE DEF u, w
<1>9. Inner(l) /\ Leads(l, w, y) /\ l # <<>>
  BY <1>7, <1>8, LaunchLeads
<1>10. y \in LocalStates /\ y.at = LaunchOutcome(ok) /\ y.row = LaunchOutcome(ok)
  BY <1>4, <1>7 DEF Settled, LocalStates
<1>. HIDE DEF y, l
<1>11. Inner(p \o u) /\ Leads(p \o u, e, w)
  BY <1>5, <1>7, InnerOn, LeadsOn DEF Inner
<1>12. Inner(p \o u \o l) /\ Leads(p \o u \o l, e, y) /\ p \o u \o l # <<>>
  BY <1>9, <1>11, InnerOn, LeadsOn, Nonempty DEF Inner
<1>. QED
  BY <1>1, <1>2, <1>4, <1>10, <1>12, BeginStep DEF e, l, Inner

LEMMA TerminateBegins == ASSUME StoreInv, NEW t \in StoredTasks, StoreTerminate(t) PROVE StoreInv'
<1>. DEFINE s   == registry[t]
            e   == Entry(t)
            end == TerminateWalk(s)
            q   == Walk(s, "Terminating", "Terminated")
            y   == Settled(e, end)
<1>1. handler = NoHandler /\ s # Absent /\ Unchanged /\ Begins(t, q, end, FALSE)
  BY DEF Begins, StoreTerminate
<1>2. e \in LocalStates /\ Backed(e) /\ e.at = s /\ s \in TaskState
  BY <1>1, EntryOK
<1>. HIDE DEF e
<1>3. end = Transition(Transition(s, "Terminating"), "Terminated") /\ end \in TaskState /\ end # "Hibernated"
      /\ {"Terminating", "Terminated"} \subseteq TaskState
  BY <1>2, Ends DEF TerminateWalk, TaskState
<1>4. Inner(q) /\ q # <<>> /\ Leads(q, e, y) /\ y \in LocalStates
  BY <1>2, <1>3, WalkLeads
<1>5. y.at = end /\ y.row = end /\ end \in States
  BY <1>3 DEF Settled, States
<1>. HIDE DEF q, y, end
<1>. QED
  BY <1>1, <1>4, <1>5, BeginStep DEF e, Inner

(* The reference is saved, and dropped.                                    *)
Saved(x)   == [row |-> x.row, ref |-> TRUE, at |-> x.at]
Dropped(x) == [row |-> x.row, ref |-> FALSE, at |-> x.at]

LEMMA SaveLeads ==
  ASSUME NEW x \in LocalStates, Backed(x)
  PROVE  /\ Plain("saveRef") \in Statements /\ Plain("saveRef").op = "saveRef"
         /\ Leads(<<Plain("saveRef")>>, x, Saved(x)) /\ Saved(x) \in LocalStates /\ Backed(Saved(x))
<1>. DEFINE s == Plain("saveRef")
<1>1. s \in Statements /\ s.op = "saveRef"
  BY DEF Plain, Statement, Statements, Operations, States
<1>2. Effect(s, x) = Saved(x) /\ Connected(s, x)
  BY <1>1 DEF Effect, Saved, Connected
<1>3. Saved(x) \in LocalStates /\ Backed(Saved(x))
  BY DEF Saved, LocalStates, Backed
<1>. HIDE DEF s
<1>. QED
  BY <1>1, <1>2, <1>3, LeadsOnce DEF s

LEMMA DropLeads ==
  ASSUME NEW x \in LocalStates, x.row # "Hibernated"
  PROVE  /\ Inner(<<Plain("dropRef")>>) /\ Leads(<<Plain("dropRef")>>, x, Dropped(x))
         /\ Dropped(x) \in LocalStates /\ Backed(Dropped(x)) /\ <<Plain("dropRef")>> # <<>>
<1>. DEFINE s == Plain("dropRef")
<1>1. s \in Statements /\ s.op = "dropRef"
  BY DEF Plain, Statement, Statements, Operations, States
<1>2. Effect(s, x) = Dropped(x) /\ Connected(s, x)
  BY <1>1 DEF Effect, Dropped, Connected
<1>3. Dropped(x) \in LocalStates /\ Backed(Dropped(x)) /\ Backed(x)
  BY DEF Dropped, LocalStates, Backed
<1>. HIDE DEF s
<1>4. <<s>> # <<>>
  OBVIOUS
<1>. QED
  BY <1>1, <1>2, <1>3, <1>4, LeadsOnce, InnerOne DEF s

LEMMA ResumeBegins == ASSUME StoreInv, NEW t \in StoredTasks, StoreResume(t) PROVE StoreInv'
<1>. DEFINE e == Entry(t)
            w == Walk("Hibernated", "Resuming", "Active")
            m == Settled(e, "Active")
            d == <<Plain("dropRef")>>
            y == Dropped(m)
<1>1. handler = NoHandler /\ registry[t] = "Hibernated" /\ registry[t] # Absent /\ Unchanged
      /\ Begins(t, w \o d, "Active", TRUE)
  BY DEF Begins, StoreResume, Absent
<1>2. e \in LocalStates /\ Backed(e) /\ e.at = "Hibernated"
  BY <1>1, EntryOK
<1>. HIDE DEF e
<1>3. {"Hibernated", "Resuming", "Active"} \subseteq TaskState
  BY DEF TaskState
<1>4. Inner(w) /\ Leads(w, e, m) /\ m \in LocalStates
  <2>1. Inner(Walk(e.at, "Resuming", "Active")) /\ Leads(Walk(e.at, "Resuming", "Active"), e, m) /\ m \in LocalStates
    BY <1>2, <1>3, Ends, WalkLeads
  <2>. QED
    BY <1>2, <2>1
<1>5. m.at = "Active" /\ m.row = "Active"
  BY DEF Settled
<1>. HIDE DEF w, m
<1>6. Inner(d) /\ d # <<>> /\ Leads(d, m, y) /\ y \in LocalStates
  BY <1>4, <1>5, DropLeads
<1>7. y.at = "Active" /\ y.row = "Active" /\ "Active" \in States
  BY <1>3, <1>5 DEF Dropped, States
<1>. HIDE DEF d, y
<1>8. Inner(w \o d) /\ w \o d # <<>> /\ Leads(w \o d, e, y)
  BY <1>4, <1>6, InnerOn, LeadsOn, Nonempty DEF Inner
<1>. QED
  BY <1>1, <1>6, <1>7, <1>8, BeginStep DEF e, Inner

(* What begins with saving the reference.                                  *)
LEMMA SaveBegins ==
  ASSUME StoreInv, NEW t \in StoredTasks, registry[t] # Absent, NEW q, Inner(q),
         NEW after \in States, NEW alive \in BOOLEAN, alive => after = "Active",
         Begins(t, <<Plain("saveRef")>> \o q, after, alive), Unchanged,
         NEW y \in LocalStates, Leads(q, Saved(Entry(t)), y), y.at = after, y.row = after
  PROVE  StoreInv'
<1>. DEFINE v == <<Plain("saveRef")>>
            e == Entry(t)
<1>1. handler = NoHandler
  BY DEF Begins
<1>2. e \in LocalStates /\ Backed(e)
  BY <1>1, EntryOK
<1>3. Plain("saveRef") \in Statements /\ Plain("saveRef").op = "saveRef" /\ Leads(v, e, Saved(e))
  BY <1>2, SaveLeads
<1>4. v \o q \in Seq(Statements) /\ v \o q # <<>> /\ Head(v \o q) = Plain("saveRef") /\ Tail(v \o q) = q
  BY <1>3, FirstAndRest DEF Inner
<1>5. Leads(v \o q, e, y)
  <2>1. v \in Seq(Statements)
    BY <1>3
  <2>. HIDE DEF v, e
  <2>. QED
    BY <1>3, <2>1, LeadsOn DEF Inner, e
<1>. HIDE DEF v
<1>. QED
  BY <1>3, <1>4, <1>5, BeginStep DEF v

LEMMA HibernateBegins == ASSUME StoreInv, NEW t \in StoredTasks, StoreHibernate(t) PROVE StoreInv'
<1>. DEFINE e == Saved(Entry(t))
            q == Walk("Active", "Checkpointing", "Hibernated")
            y == Settled(e, "Hibernated")
<1>1. registry[t] = "Active" /\ registry[t] # Absent
  BY DEF StoreHibernate, StoreInv, LiveOK, Absent
<1>2. Unchanged /\ Begins(t, <<Plain("saveRef")>> \o q, "Hibernated", FALSE) /\ handler = NoHandler
  BY <1>1, Ends DEF StoreHibernate, Begins
<1>3. e \in LocalStates /\ Backed(e) /\ e.at = "Active" /\ e.ref
  BY <1>1, <1>2, EntryOK, SaveLeads DEF Saved
<1>. HIDE DEF e
<1>4. {"Active", "Checkpointing", "Hibernated"} \subseteq TaskState
      /\ Transition(Transition("Active", "Checkpointing"), "Hibernated") = "Hibernated"
  BY Ends DEF TaskState, HibernateWalk
<1>5. Inner(q) /\ Leads(q, e, y) /\ y \in LocalStates
  <2>1. LET w == Walk(e.at, "Checkpointing", "Hibernated") IN Inner(w) /\ Leads(w, e, y) /\ y \in LocalStates
    BY <1>3, <1>4, WalkLeads
  <2>. QED
    BY <1>3, <2>1
<1>6. y.at = "Hibernated" /\ y.row = "Hibernated" /\ "Hibernated" \in States
  BY <1>4 DEF Settled, States
<1>. HIDE DEF q, y
<1>. QED
  BY <1>1, <1>2, <1>5, <1>6, SaveBegins DEF e

LEMMA RecycleBegins == ASSUME StoreInv, NEW t \in StoredTasks, StoreRecycle(t) PROVE StoreInv'
<1>. DEFINE v == <<Plain("saveRef")>>
            e == Saved(Entry(t))
            w == RecyclingWalk("Active")
            m == Settled(e, "Recycling")
            r == Walk("Recycling", "Resuming", "Active")
            d == <<Plain("dropRef")>>
            f == RecycleFailing("Recycling")
<1>1. registry[t] = "Active" /\ registry[t] # Absent
  BY DEF StoreRecycle, StoreInv, LiveOK, Absent
<1>2. /\ Unchanged /\ handler = NoHandler
      /\ \/ Begins(t, (v \o w) \o r \o d, "Active", TRUE)
         \/ Begins(t, (v \o w) \o f, "Failed", FALSE)
  BY <1>1, Ends DEF StoreRecycle, Begins
<1>3. e \in LocalStates /\ Backed(e) /\ e.at = "Active" /\ v \in Seq(Statements)
  BY <1>1, <1>2, EntryOK, SaveLeads DEF Saved
<1>. HIDE DEF e, v
<1>4. /\ {"Active", "Recycling", "Resuming", "Failed"} \subseteq TaskState
      /\ Transition("Active", "Recycling") = "Recycling" /\ Transition("Recycling", "Failed") = "Failed"
      /\ Transition(Transition("Recycling", "Resuming"), "Active") = "Active"
  BY Ends DEF TaskState, Recycled
<1>5. Inner(w) /\ Leads(w, e, m) /\ m \in LocalStates /\ Backed(m)
  <2>1. w = Move("Active", "Recycling") \o <<Update("Recycling")>>
    BY <1>4 DEF RecyclingWalk, Recycled
  <2>2. LET q == Move(e.at, "Recycling") \o <<Update("Recycling")>>
        IN Inner(q) /\ Leads(q, e, m) /\ m \in LocalStates /\ Backed(m)
    BY <1>3, <1>4, MoveUpdateLeads
  <2>. QED
    BY <1>3, <2>1, <2>2
<1>6. m.at = "Recycling" /\ m.row = "Recycling"
  BY DEF Settled
<1>. HIDE DEF w, m
<1>7. CASE Begins(t, (v \o w) \o r \o d, "Active", TRUE)
  <2>. DEFINE a == Settled(m, "Active")
              y == Dropped(a)
  <2>1. Inner(r) /\ Leads(r, m, a) /\ a \in LocalStates
    <3>1. LET q == Walk(m.at, "Resuming", "Active") IN Inner(q) /\ Leads(q, m, a) /\ a \in LocalStates
      BY <1>4, <1>5, <1>6, WalkLeads
    <3>. QED
      BY <1>6, <3>1
  <2>2. a.at = "Active" /\ a.row = "Active"
    BY DEF Settled
  <2>. HIDE DEF r, a
  <2>3. Inner(d) /\ Leads(d, a, y) /\ y \in LocalStates
    BY <2>1, <2>2, DropLeads
  <2>4. y.at = "Active" /\ y.row = "Active" /\ "Active" \in States
    BY <1>4, <2>2 DEF Dropped, States
  <2>. HIDE DEF d, y
  <2>5. Inner(w \o r) /\ Leads(w \o r, e, a)
    BY <1>5, <2>1, InnerOn, LeadsOn DEF Inner
  <2>6. Inner(w \o r \o d) /\ Leads(w \o r \o d, e, y)
    BY <2>3, <2>5, InnerOn, LeadsOn DEF Inner
  <2>7. (v \o w) \o r \o d = v \o (w \o r \o d)
    <3>1. v \in Seq(Statements) /\ w \in Seq(Statements) /\ r \in Seq(Statements) /\ d \in Seq(Statements)
          /\ w \o r \in Seq(Statements)
      BY <1>3, <1>5, <2>1, <2>3, ConcatProperties DEF Inner
    <3>2. (v \o w) \o r = v \o (w \o r) /\ (v \o (w \o r)) \o d = v \o ((w \o r) \o d)
      <4>. HIDE DEF d
      <4>1. (v \o w) \o r = v \o (w \o r)
        BY <3>1, ConcatAssociative
      <4>. DEFINE z == w \o r
      <4>2. z \in Seq(Statements)
        BY <3>1
      <4>. HIDE DEF z
      <4>3. (v \o z) \o d = v \o (z \o d)
        BY <3>1, <4>2, ConcatAssociative
      <4>. QED
        BY <4>1, <4>3 DEF z
    <3>. QED
      BY <3>2
  <2>. QED
    BY <1>1, <1>2, <1>7, <2>3, <2>4, <2>6, <2>7, SaveBegins DEF e, v
<1>8. CASE Begins(t, (v \o w) \o f, "Failed", FALSE)
  <2>. DEFINE y == Settled(m, "Failed")
  <2>1. Inner(f) /\ Leads(f, m, y) /\ y \in LocalStates
    <3>1. f = Move("Recycling", "Failed") \o <<Update("Failed")>>
      BY <1>4 DEF RecycleFailing
    <3>2. LET q == Move(m.at, "Failed") \o <<Update("Failed")>> IN Inner(q) /\ Leads(q, m, y) /\ y \in LocalStates
      BY <1>4, <1>5, <1>6, MoveUpdateLeads
    <3>. QED
      BY <1>6, <3>1, <3>2
  <2>2. y.at = "Failed" /\ y.row = "Failed" /\ "Failed" \in States
    BY <1>4 DEF Settled, States
  <2>. HIDE DEF f, y
  <2>3. Inner(w \o f) /\ Leads(w \o f, e, y)
    BY <1>5, <2>1, InnerOn, LeadsOn DEF Inner
  <2>4. (v \o w) \o f = v \o (w \o f)
    BY <1>3, <1>5, <2>1, ConcatAssociative DEF Inner
  <2>. QED
    BY <1>1, <1>2, <1>8, <2>1, <2>2, <2>3, <2>4, SaveBegins DEF e, v
<1>. QED
  BY <1>2, <1>7, <1>8

LEMMA Pair == ASSUME NEW S, NEW a \in S, NEW b \in S PROVE <<a, b>> = <<a>> \o <<b>> /\ <<a>> \in Seq(S)
<1>1. /\ <<a>> \in Seq(S) /\ <<b>> \in Seq(S) /\ Len(<<a>>) = 1 /\ Len(<<b>>) = 1
      /\ <<a>>[1] = a /\ <<b>>[1] = b /\ <<a, b>> \in Seq(S) /\ Len(<<a, b>>) = 2
      /\ <<a, b>>[1] = a /\ <<a, b>>[2] = b
  OBVIOUS
<1>. DEFINE p == <<a>>
            q == <<b>>
            r == <<a, b>>
<1>. HIDE DEF p, q, r
<1>2. /\ p \o q \in Seq(S) /\ Len(p \o q) = 2 /\ (p \o q)[1] = a /\ (p \o q)[2] = b
  BY <1>1, ConcatProperties DEF p, q
<1>3. r \in Seq(S) /\ Len(r) = 2 /\ r[1] = a /\ r[2] = b
  BY <1>1 DEF r
<1>4. r = p \o q
  BY <1>2, <1>3, SeqEqual
<1>. QED
  BY <1>1, <1>4 DEF p, q, r

LEMMA Triple == ASSUME NEW S, NEW a \in S, NEW b \in S, NEW c \in S PROVE <<a, b, c>> = <<a>> \o <<b>> \o <<c>>
<1>1. /\ <<a, b>> = <<a>> \o <<b>> /\ <<a, b>> \in Seq(S) /\ Len(<<a, b>>) = 2 /\ <<a, b>>[1] = a /\ <<a, b>>[2] = b
  BY Pair
<1>2. /\ <<c>> \in Seq(S) /\ Len(<<c>>) = 1 /\ <<c>>[1] = c
      /\ <<a, b, c>> \in Seq(S) /\ Len(<<a, b, c>>) = 3
      /\ <<a, b, c>>[1] = a /\ <<a, b, c>>[2] = b /\ <<a, b, c>>[3] = c
  OBVIOUS
<1>. DEFINE p == <<a, b>>
            q == <<c>>
            r == <<a, b, c>>
<1>3. /\ p \in Seq(S) /\ q \in Seq(S) /\ Len(p) = 2 /\ Len(q) = 1 /\ p[1] = a /\ p[2] = b /\ q[1] = c
      /\ r \in Seq(S) /\ Len(r) = 3 /\ r[1] = a /\ r[2] = b /\ r[3] = c
  BY <1>1, <1>2
<1>. HIDE DEF p, q, r
<1>4. /\ p \o q \in Seq(S) /\ Len(p \o q) = 3 /\ (p \o q)[1] = a /\ (p \o q)[2] = b /\ (p \o q)[3] = c
  <2>1. /\ p \o q \in Seq(S) /\ Len(p \o q) = 2 + 1
        /\ \A i \in 1 .. 2 + 1 : (p \o q)[i] = IF i <= 2 THEN p[i] ELSE q[i - 2]
    <3>1. /\ p \o q \in Seq(S) /\ Len(p \o q) = Len(p) + Len(q)
          /\ \A i \in 1 .. Len(p) + Len(q) : (p \o q)[i] = IF i <= Len(p) THEN p[i] ELSE q[i - Len(p)]
      BY <1>3, ConcatProperties
    <3>. QED
      BY <1>3, <3>1
  <2>2. 1 \in 1 .. 2 + 1 /\ 2 \in 1 .. 2 + 1 /\ 3 \in 1 .. 2 + 1 /\ 3 - 2 = 1 /\ ~(3 <= 2) /\ 2 + 1 = 3
    OBVIOUS
  <2>. QED
    BY <1>3, <2>1, <2>2
<1>5. r = p \o q
  BY <1>3, <1>4, SeqEqual
<1>. QED
  BY <1>1, <1>5 DEF p, q, r

LEMMA CreateBegins == ASSUME StoreInv, NEW t \in StoredTasks, StoreCreate(t) PROVE StoreInv'
<1>. DEFINE i == Insert("Queued")
            s == Statement("record", "Created", "Queued")
            q == <<i, s>>
            x == [row |-> Absent, ref |-> FALSE, at |-> "Created"]
            z == [row |-> "Queued", ref |-> FALSE, at |-> "Created"]
            y == [row |-> "Queued", ref |-> FALSE, at |-> "Queued"]
<1>1. /\ handler = NoHandler /\ handlers' \in 0..MaxHandlers /\ t \notin created /\ created' = created \cup {t}
      /\ handler' = [task |-> {t}, statements |-> q, after |-> "Queued", alive |-> FALSE]
      /\ UNCHANGED <<rows, lastRecorded, gaps, refs, registry, live, forgotten, lost, failedWrites, boots>>
  BY StoreAssumption DEF StoreCreate, Begins, tableVars, StoreInv, StoreTyped
<1>2. /\ i \in Statements /\ i.op = "insert" /\ i.to = "Queued"
      /\ s \in Statements /\ s.op = "record" /\ s.from = "Created" /\ s.to = "Queued"
  BY DEF Insert, Statement, Statements, Operations, States, TaskState
<1>3. x \in LocalStates /\ z \in LocalStates /\ y \in LocalStates /\ Backed(x) /\ Backed(z) /\ Backed(y)
  BY DEF LocalStates, States, TaskState, Backed, Absent
<1>4. Effect(i, x) = z /\ Connected(i, x) /\ Effect(s, z) = y /\ Connected(s, z)
  BY <1>2 DEF Effect, Connected, Absent
<1>. HIDE DEF i, s
<1>5. q = <<i>> \o <<s>> /\ <<i>> \in Seq(Statements) /\ <<s>> \in Seq(Statements)
  BY <1>2, Pair
<1>6. Leads(<<i>>, x, z) /\ Leads(<<s>>, z, y) /\ Inner(<<s>>)
  BY <1>2, <1>3, <1>4, LeadsOnce, InnerOne
<1>7. Leads(q, x, y)
  BY <1>5, <1>6, LeadsOn
<1>8. q \in Seq(Statements) /\ q # <<>> /\ Head(q) = i /\ Tail(q) = <<s>>
  BY <1>2
<1>. HIDE DEF q
<1>9. handler'.task = {t} /\ handler'.statements = q /\ handler'.after = "Queued" /\ handler'.alive = FALSE
  BY <1>1
<1>10. StoreTyped'
  <2>1. handler' \in Handlers
    BY <1>1, <1>8 DEF Handlers, States, TaskState
  <2>. QED
    BY <1>1, <1>8, <1>9, <2>1 DEF StoreInv, StoreTyped
<1>11. registry[t] = Absent /\ rows[t] = Absent /\ lastRecorded[t] = Absent /\ t \notin refs /\ t \notin forgotten
       /\ t \notin handler.task
  BY <1>1 DEF StoreInv, NewOK, GoneOK, NoHandler
<1>12. UnderWay(t, x, y)'
  <2>1. Fits(t, x)'
    BY <1>1, <1>11 DEF Fits
  <2>2. GapsOK(t, x.at)'
    BY <1>1, <1>11 DEF StoreInv, IdleOK, GapsOK, Pend, Began, Absent
  <2>3. Shape(t, q, x)'
    BY <1>1, <1>2, <1>6, <1>8, <1>11 DEF Shape
  <2>4. y.at = "Queued" /\ y.row = "Queued"
    OBVIOUS
  <2>. HIDE DEF x, y
  <2>. QED
    BY <1>7, <1>9, <2>1, <2>2, <2>3, <2>4 DEF UnderWay
<1>13. BusyOK'
  <2>. HIDE DEF x, y
  <2>1. \E u, v \in LocalStates : UnderWay(t, u, v)'
    BY <1>3, <1>12
  <2>. QED
    BY <1>1, <1>9, <1>11, <2>1 DEF BusyOK
<1>14. IdleOK' /\ RefsOK' /\ NewOK' /\ GoneOK' /\ LiveOK'
  BY <1>1, <1>9 DEF StoreInv, IdleOK, RefsOK, NewOK, GoneOK, LiveOK, GapsOK, Pend, Began, NoHandler
<1>. QED
  BY <1>10, <1>13, <1>14 DEF StoreInv

LEMMA ForgetBegins == ASSUME StoreInv, NEW t \in StoredTasks, StoreForget(t) PROVE StoreInv'
<1>. DEFINE h == Plain("deleteHistory")
            r == Plain("deleteRef")
            w == Plain("deleteRow")
            q == <<h, r, w>>
            y == [row |-> Absent, ref |-> FALSE, at |-> Absent]
<1>1. /\ handler = NoHandler /\ handlers' \in 0..MaxHandlers /\ registry[t] \in {"Failed", "Terminated"} /\ t \notin live
      /\ handler' = [task |-> {t}, statements |-> q, after |-> Absent, alive |-> FALSE]
      /\ registry' = [registry EXCEPT ![t] = Absent]
      /\ UNCHANGED <<rows, lastRecorded, gaps, refs, live, created, forgotten, lost, failedWrites, boots>>
  BY StoreAssumption DEF StoreForget, Begins, tableVars, StoreInv, StoreTyped
<1>2. registry[t] # Absent /\ registry[t] # "Hibernated" /\ registry \in [StoredTasks -> States] /\ registry'[t] = Absent
      /\ \A u \in StoredTasks : u # t => registry'[u] = registry[u]
  BY <1>1 DEF Absent, StoreInv, StoreTyped
<1>3. PICK e \in LocalStates : /\ e = Entry(t)
                              /\ Backed(e) /\ e.row = registry[t] /\ Fits(t, e) /\ t \in created /\ t \notin forgotten
                              /\ GapsOK(t, registry[t])
  <2>1. Entry(t).row = registry[t]
    BY DEF Entry
  <2>. QED
    BY <1>1, <1>2, <2>1, EntryOK
<1>. DEFINE x == [row |-> e.row, ref |-> e.ref, at |-> Absent]
            z == [row |-> e.row, ref |-> FALSE, at |-> Absent]
<1>4. /\ h \in Statements /\ h.op = "deleteHistory" /\ r \in Statements /\ r.op = "deleteRef"
      /\ w \in Statements /\ w.op = "deleteRow"
  BY DEF Plain, Statement, Statements, Operations, States
<1>5. x \in LocalStates /\ z \in LocalStates /\ y \in LocalStates /\ Backed(x) /\ Backed(z) /\ Backed(y)
  BY <1>2, <1>3 DEF LocalStates, States, Backed, Absent
<1>6. /\ Effect(h, x) = x /\ Connected(h, x) /\ Effect(r, x) = z /\ Connected(r, x)
      /\ Effect(w, z) = y /\ Connected(w, z)
  BY <1>4 DEF Effect, Connected
<1>7. x.row = e.row /\ x.ref = e.ref /\ x.at = Absent /\ y.row = Absent /\ y.at = Absent
  OBVIOUS
<1>. HIDE DEF h, r, w, x, z, y
<1>8. q = <<h>> \o <<r>> \o <<w>> /\ <<h>> \in Seq(Statements) /\ <<r>> \in Seq(Statements) /\ <<w>> \in Seq(Statements)
      /\ <<h>> \o <<r>> \in Seq(Statements)
  BY <1>4, Pair, Triple, ConcatProperties
<1>9. Leads(<<h>>, x, x) /\ Leads(<<r>>, x, z) /\ Leads(<<w>>, z, y)
  <2>1. Leads(<<h>>, x, Effect(h, x)) /\ Leads(<<r>>, x, Effect(r, x)) /\ Leads(<<w>>, z, Effect(w, z))
    BY <1>4, <1>5, <1>6, LeadsOnce
  <2>. QED
    BY <1>6, <2>1
<1>10. Leads(q, x, y)
  <2>1. Leads(<<h>> \o <<r>>, x, z)
    BY <1>8, <1>9, LeadsOn
  <2>. QED
    BY <1>8, <1>9, <2>1, LeadsOn
<1>11. q \in Seq(Statements) /\ q # <<>>
  BY <1>4
<1>12. handler'.task = {t} /\ handler'.statements = q /\ handler'.after = Absent /\ handler'.alive = FALSE
  BY <1>1
<1>13. StoreTyped'
  <2>1. handler' \in Handlers
    BY <1>1, <1>11 DEF Handlers, States
  <2>. HIDE DEF q
  <2>. QED
    BY <1>1, <1>2, <1>11, <1>12, <2>1 DEF StoreInv, StoreTyped, States
<1>14. UnderWay(t, x, y)'
  <2>1. Fits(t, x)'
    BY <1>1, <1>3, <1>7 DEF Fits
  <2>2. GapsOK(t, x.at)'
    BY <1>1, <1>3, <1>7 DEF StoreInv, StoreTyped, GapsOK, Pend, Began
  <2>3. Shape(t, q, x)'
    BY <1>2, <1>7, <1>12 DEF Shape, Forgetting, h, r, w
  <2>. QED
    BY <1>7, <1>10, <1>12, <2>1, <2>2, <2>3 DEF UnderWay
<1>15. BusyOK'
  <2>1. \E u, v \in LocalStates : UnderWay(t, u, v)'
    BY <1>5, <1>14
  <2>. QED
    BY <1>1, <1>3, <1>12, <2>1 DEF BusyOK
<1>16. IdleOK' /\ RefsOK' /\ NewOK' /\ GoneOK' /\ LiveOK'
  <2>1. IdleOK'
    BY <1>1, <1>2, <1>12 DEF StoreInv, IdleOK, GapsOK, Pend, Began, NoHandler
  <2>2. RefsOK' /\ NewOK' /\ GoneOK' /\ LiveOK'
    BY <1>1, <1>2 DEF StoreInv, StoreTyped, RefsOK, NewOK, GoneOK, LiveOK
  <2>. QED
    BY <2>1, <2>2
<1>. QED
  BY <1>13, <1>15, <1>16 DEF StoreInv

-----------------------------------------------------------------------------
(* A statement is executed.                                                *)

(* The handler of t has done its next statement, or gone on without it.    *)
Tables(t) ==
  /\ rows' \in [StoredTasks -> States] /\ lastRecorded' \in [StoredTasks -> States]
  /\ gaps' \in [StoredTasks -> Nat] /\ refs' \subseteq StoredTasks
  /\ \A u \in StoredTasks \ {t} :
       /\ rows'[u] = rows[u] /\ lastRecorded'[u] = lastRecorded[u] /\ gaps'[u] = gaps[u]
       /\ u \in refs' <=> u \in refs

LEMMA AdvanceStep ==
  ASSUME StoreInv, NEW t \in handler.task, Advance(t), Tables(t),
         UNCHANGED <<created, handlers, boots>>,
         failedWrites' \in 0..MaxFailedWrites, failedWrites <= failedWrites',
         lost \subseteq lost', lost' \subseteq lost \cup {t},
         forgotten \subseteq forgotten', forgotten' \subseteq forgotten \cup {t},
         NEW x \in LocalStates, NEW y \in LocalStates, NEW p, p = Tail(handler.statements),
         Leads(p, x, y), Backed(x), y.at = handler.after, y.row = handler.after, Fits(t, x)', GapsOK(t, x.at)',
         p # <<>> => t \notin forgotten' /\ (Inner(p) \/ (Forgetting(t, p)' /\ x.at = Absent)),
         t \in forgotten' => /\ rows'[t] = Absent /\ lastRecorded'[t] = Absent /\ t \notin refs'
                             /\ handler.after = Absent
  PROVE  StoreInv'
<1>. DEFINE q == handler.statements
<1>1. /\ t \in StoredTasks /\ handler \in Handlers /\ handler.task = {t} /\ q # <<>> /\ q \in Seq(Statements)
      /\ handler.after \in States /\ handler.alive \in BOOLEAN /\ t \in created
      /\ handler.alive => handler.after = "Active"
  BY DEF StoreInv, StoreTyped, BusyOK, Handlers
<1>2. p \in Seq(Statements)
  BY <1>1, HeadTailProperties
<1>3. \A u \in StoredTasks \ {t} : (u \in lost' <=> u \in lost) /\ (u \in forgotten' <=> u \in forgotten)
  OBVIOUS
<1>4. \A u \in StoredTasks \ {t} : (GapsOK(u, registry[u])) => GapsOK(u, registry[u])'  \/ registry'[u] # registry[u]
  <2>. TAKE u \in StoredTasks \ {t}
  <2>1. gaps'[u] = gaps[u] /\ lastRecorded'[u] = lastRecorded[u] /\ boots' = boots /\ failedWrites <= failedWrites'
        /\ gaps[u] \in Nat /\ boots \in Nat /\ failedWrites \in Nat /\ failedWrites' \in Nat
    BY StoreAssumption DEF Tables, StoreInv, StoreTyped
  <2>. QED
    BY <2>1 DEF GapsOK, Pend, Began
<1>5. RefsOK'
  <2>. SUFFICES ASSUME NEW u \in StoredTasks, u \notin lost', rows'[u] = "Hibernated" PROVE u \in refs'
    BY DEF RefsOK
  <2>1. CASE u = t
    BY <2>1 DEF Fits, Backed
  <2>2. CASE u # t
    BY <2>2 DEF Tables, StoreInv, RefsOK
  <2>. QED
    BY <2>1, <2>2
<1>6. CASE p = <<>>
  <2>1. /\ registry' = [registry EXCEPT ![t] = handler.after] /\ handler' = NoHandler
        /\ live' = IF handler.alive THEN live \cup {t} ELSE live \ {t}
    BY <1>6 DEF Advance, Finishes
  <2>2. x = y
    BY <1>6, LeadsThere
  <2>3. handler'.task = {} /\ NoHandler \in Handlers
    BY <2>1 DEF NoHandler, Handlers, States
  <2>4. registry' \in [StoredTasks -> States] /\ registry'[t] = handler.after
        /\ \A u \in StoredTasks \ {t} : registry'[u] = registry[u]
    BY <1>1, <2>1 DEF StoreInv, StoreTyped
  <2>5. StoreTyped'
    BY <1>1, <2>1, <2>3, <2>4 DEF StoreInv, StoreTyped, Tables
  <2>6. BusyOK'
    BY <2>3 DEF BusyOK
  <2>7. IdleOK'
    <3>. SUFFICES ASSUME NEW u \in StoredTasks
                  PROVE  (u \notin lost' => registry'[u] \in {rows'[u], Absent}) /\ GapsOK(u, registry[u])'
      BY DEF IdleOK
    <3>1. CASE u = t
      BY <2>2, <2>4, <3>1 DEF Fits
    <3>2. CASE u # t
      BY <1>1, <1>3, <1>4, <2>4, <3>2 DEF Tables, StoreInv, IdleOK
    <3>. QED
      BY <3>1, <3>2
  <2>8. NewOK' /\ GoneOK'
    BY <1>1, <1>3, <2>4 DEF Tables, StoreInv, StoreTyped, NewOK, GoneOK
  <2>9. LiveOK'
    BY <1>1, <2>1, <2>4 DEF StoreInv, StoreTyped, LiveOK
  <2>. QED
    BY <1>5, <2>5, <2>6, <2>7, <2>8, <2>9 DEF StoreInv
<1>7. CASE p # <<>>
  <2>1. handler' = [handler EXCEPT !.statements = p] /\ registry' = registry /\ live' = live
    BY <1>7 DEF Advance
  <2>2. /\ handler' \in Handlers /\ handler'.task = {t} /\ handler'.statements = p
        /\ handler'.after = handler.after /\ handler'.alive = handler.alive
    BY <1>1, <1>2, <2>1 DEF Handlers
  <2>3. StoreTyped'
    BY <1>1, <1>7, <2>1, <2>2 DEF StoreInv, StoreTyped, Tables
  <2>4. UnderWay(t, x, y)'
    <3>1. Shape(t, p, x)'
      BY <1>7 DEF Shape
    <3>. QED
      BY <2>2, <3>1 DEF UnderWay
  <2>5. BusyOK'
    <3>1. \E u, v \in LocalStates : UnderWay(t, u, v)'
      BY <2>4
    <3>. QED
      BY <1>1, <1>7, <2>2, <3>1 DEF BusyOK
  <2>6. IdleOK'
    BY <1>1, <1>3, <1>4, <2>1, <2>2 DEF Tables, StoreInv, IdleOK
  <2>7. NewOK' /\ GoneOK' /\ LiveOK'
    BY <1>1, <1>3, <1>7, <2>1 DEF Tables, StoreInv, StoreTyped, NewOK, GoneOK, LiveOK
  <2>. QED
    BY <1>5, <2>3, <2>5, <2>6, <2>7 DEF StoreInv
<1>. QED
  BY <1>6, <1>7

(* What a statement does to the tables is its effect.                      *)
LEMMA WritesEffect ==
  ASSUME StoreTyped, NEW t \in StoredTasks, NEW s \in Statements, NEW x \in LocalStates,
         Fits(t, x), GapsOK(t, x.at), Connected(s, x), s.op = "deleteHistory" => x.at = Absent,
         Writes(t, s), UNCHANGED <<lost, boots, failedWrites>>
  PROVE  Tables(t) /\ Fits(t, Effect(s, x))' /\ GapsOK(t, Effect(s, x).at)'
<1>1. s.op \in Operations /\ s.from \in States /\ s.to \in States /\ Absent \in States
  BY DEF Statements, States
<1>2. /\ rows \in [StoredTasks -> States] /\ lastRecorded \in [StoredTasks -> States]
      /\ gaps \in [StoredTasks -> Nat] /\ refs \subseteq StoredTasks
      /\ boots \in Nat /\ failedWrites \in Nat
  BY StoreAssumption DEF StoreTyped
<1>3. rows' = IF s.op \in {"insert", "update"} THEN [rows EXCEPT ![t] = s.to]
              ELSE IF s.op = "deleteRow" THEN [rows EXCEPT ![t] = Absent] ELSE rows
  BY DEF Writes
<1>4. lastRecorded' = IF s.op = "record" THEN [lastRecorded EXCEPT ![t] = s.to]
                      ELSE IF s.op = "deleteHistory" THEN [lastRecorded EXCEPT ![t] = Absent] ELSE lastRecorded
  BY DEF Writes
<1>5. gaps' = IF s.op = "record" /\ s.from # Began(t) THEN [gaps EXCEPT ![t] = @ + 1] ELSE gaps
  BY DEF Writes
<1>6. refs' = IF s.op = "saveRef" THEN refs \cup {t}
              ELSE IF s.op \in {"dropRef", "deleteRef"} THEN refs \ {t} ELSE refs
  BY DEF Writes
<1>7. /\ rows' \in [StoredTasks -> States] /\ \A u \in StoredTasks \ {t} : rows'[u] = rows[u]
      /\ rows'[t] = IF s.op \in {"insert", "update"} THEN s.to ELSE IF s.op = "deleteRow" THEN Absent ELSE rows[t]
  BY <1>1, <1>2, <1>3
<1>8. /\ lastRecorded' \in [StoredTasks -> States] /\ \A u \in StoredTasks \ {t} : lastRecorded'[u] = lastRecorded[u]
      /\ lastRecorded'[t] = IF s.op = "record" THEN s.to ELSE IF s.op = "deleteHistory" THEN Absent ELSE lastRecorded[t]
  BY <1>1, <1>2, <1>4
<1>9. /\ gaps' \in [StoredTasks -> Nat] /\ \A u \in StoredTasks \ {t} : gaps'[u] = gaps[u]
      /\ gaps'[t] = IF s.op = "record" /\ s.from # Began(t) THEN gaps[t] + 1 ELSE gaps[t]
  BY <1>2, <1>5
<1>10. Tables(t)
  BY <1>2, <1>6, <1>7, <1>8, <1>9 DEF Tables
<1>11. Fits(t, Effect(s, x))'
  <2>1. Effect(s, x).row = IF s.op \in {"insert", "update"} THEN s.to
                           ELSE IF s.op = "deleteRow" THEN Absent ELSE x.row
    BY DEF Effect
  <2>2. Effect(s, x).ref = IF s.op = "saveRef" THEN TRUE
                           ELSE IF s.op \in {"dropRef", "deleteRef"} THEN FALSE ELSE x.ref
    BY DEF Effect
  <2>. DEFINE e == Effect(s, x)
  <2>. HIDE DEF e
  <2>3. t \notin lost => e.row = rows'[t]
    BY <1>7, <2>1 DEF Fits, e
  <2>4. t \notin lost => (e.ref <=> t \in refs')
    BY <1>6, <2>2 DEF Fits, e
  <2>. QED
    BY <2>3, <2>4 DEF Fits, e
<1>12. GapsOK(t, Effect(s, x).at)'
  <2>1. Effect(s, x).at = IF s.op = "record" THEN s.to ELSE x.at
    BY DEF Effect
  <2>2. CASE s.op = "record"
    <3>1. lastRecorded'[t] = s.to /\ s.from = x.at /\ x.at # Absent
      BY <1>8, <2>2 DEF Connected
    <3>2. Pend(t, s.to)' = 0
      BY <3>1 DEF Pend, Began
    <3>3. gaps'[t] <= boots + failedWrites
      BY <1>2, <1>9, <2>2, <3>1 DEF GapsOK, Pend
    <3>. QED
      BY <1>2, <1>9, <2>1, <2>2, <3>2, <3>3 DEF GapsOK
  <2>3. CASE s.op = "deleteHistory"
    BY <1>2, <1>9, <2>1, <2>3 DEF GapsOK, Pend
  <2>4. CASE s.op \notin {"record", "deleteHistory"}
    BY <1>2, <1>8, <1>9, <2>1, <2>4 DEF GapsOK, Pend, Began
  <2>. QED
    BY <2>2, <2>3, <2>4
<1>. QED
  BY <1>10, <1>11, <1>12

(* The next statement of a handler, and those after it.                    *)
Ready(t, x, y, s, p) ==
  /\ s \in Statements /\ Connected(s, x) /\ Effect(s, x) \in LocalStates /\ Backed(Effect(s, x))
  /\ Leads(p, Effect(s, x), y)
  /\ s.op \in {"record", "update", "dropRef", "saveRef", "insert"} => Inner(p)
  /\ s.op = "saveRef" => x.at = registry[t] /\ (t \notin lost => rows[t] = registry[t])
  /\ s.op \notin {"record", "update", "dropRef", "saveRef"} => registry[t] = Absent
  /\ s.op \in {"deleteHistory", "deleteRef", "deleteRow"} => handler.after = Absent /\ x.at = Absent
  /\ s.op = "deleteHistory" => p = <<Plain("deleteRef"), Plain("deleteRow")>>
  /\ s.op = "deleteRef" => p = <<Plain("deleteRow")>> /\ lastRecorded[t] = Absent
  /\ s.op = "deleteRow" => p = <<>> /\ lastRecorded[t] = Absent /\ t \notin refs

LEMMA AtHead ==
  ASSUME StoreInv, NEW t \in handler.task, NEW x \in LocalStates, NEW y \in LocalStates, UnderWay(t, x, y),
         NEW s, s = Head(handler.statements), NEW p, p = Tail(handler.statements)
  PROVE  Ready(t, x, y, s, p)
<1>. DEFINE q == handler.statements
<1>. USE DEF Ready
<1>1. q \in Seq(Statements) /\ q # <<>>
  BY DEF StoreInv, StoreTyped, Handlers
<1>2. /\ Connected(s, x) /\ Effect(s, x) \in LocalStates /\ Backed(Effect(s, x)) /\ Leads(p, Effect(s, x), y)
  BY <1>1, LeadsNext DEF UnderWay
<1>3. s \in Statements
  BY <1>1, HeadTailProperties
<1>4. Plain("deleteHistory").op = "deleteHistory" /\ Plain("deleteRef").op = "deleteRef" /\ Plain("deleteRow").op = "deleteRow"
  BY DEF Plain, Statement
<1>5. CASE Inner(q)
  <2>1. Inner(p) /\ s.op \in {"record", "update", "dropRef"}
    BY <1>1, <1>5, InnerNext
  <2>. QED
    BY <1>2, <1>3, <2>1
<1>6. CASE /\ s.op = "saveRef" /\ Inner(p) /\ x.at = registry[t]
           /\ t \notin lost => rows[t] = registry[t]
  BY <1>2, <1>3, <1>6
<1>7. CASE s.op = "insert" /\ Inner(p) /\ registry[t] = Absent
  BY <1>2, <1>3, <1>7
<1>8. CASE Forgetting(t, q) /\ x.at = Absent
  <2>1. registry[t] = Absent /\ handler.after = Absent /\ x.at = Absent
    BY <1>8 DEF Forgetting
  <2>2. CASE q = <<Plain("deleteHistory"), Plain("deleteRef"), Plain("deleteRow")>>
    <3>1. s = Plain("deleteHistory") /\ p = <<Plain("deleteRef"), Plain("deleteRow")>>
      BY <2>2
    <3>. QED
      BY <1>2, <1>3, <1>4, <2>1, <3>1
  <2>3. CASE q = <<Plain("deleteRef"), Plain("deleteRow")>> /\ lastRecorded[t] = Absent
    <3>1. s = Plain("deleteRef") /\ p = <<Plain("deleteRow")>>
      BY <2>3
    <3>. QED
      BY <1>2, <1>3, <1>4, <2>1, <2>3, <3>1
  <2>4. CASE q = <<Plain("deleteRow")>> /\ lastRecorded[t] = Absent /\ t \notin refs
    <3>1. s = Plain("deleteRow") /\ p = <<>>
      BY <2>4
    <3>. QED
      BY <1>2, <1>3, <1>4, <2>1, <2>4, <3>1
  <2>. QED
    BY <1>8, <2>2, <2>3, <2>4 DEF Forgetting
<1>. QED
  BY <1>5, <1>6, <1>7, <1>8 DEF UnderWay, Shape

LEMMA SucceedsStep == ASSUME StoreInv, Succeeds PROVE StoreInv'
<1>head. PICK s : s = Head(handler.statements)
  OBVIOUS
<1>rest. PICK p : p = Tail(handler.statements)
  OBVIOUS
<1>1. PICK t \in handler.task :
        /\ Writes(t, s) /\ Advance(t)
        /\ forgotten' = IF s.op = "deleteRow" THEN forgotten \cup {t} ELSE forgotten
        /\ UNCHANGED <<created, lost, failedWrites, boots, handlers>>
  BY <1>head DEF Succeeds
<1>2. PICK x \in LocalStates, y \in LocalStates : UnderWay(t, x, y)
  BY DEF StoreInv, BusyOK
<1>3. /\ s \in Statements /\ Connected(s, x) /\ Effect(s, x) \in LocalStates /\ Backed(Effect(s, x))
      /\ Leads(p, Effect(s, x), y)
      /\ s.op \in {"record", "update", "dropRef", "saveRef", "insert"} => Inner(p)
      /\ s.op = "saveRef" => x.at = registry[t] /\ (t \notin lost => rows[t] = registry[t])
      /\ s.op \notin {"record", "update", "dropRef", "saveRef"} => registry[t] = Absent
      /\ s.op \in {"deleteHistory", "deleteRef", "deleteRow"} => handler.after = Absent /\ x.at = Absent
      /\ s.op = "deleteHistory" => p = <<Plain("deleteRef"), Plain("deleteRow")>>
      /\ s.op = "deleteRef" => p = <<Plain("deleteRow")>> /\ lastRecorded[t] = Absent
      /\ s.op = "deleteRow" => p = <<>> /\ lastRecorded[t] = Absent /\ t \notin refs
  <2>1. Ready(t, x, y, s, p)
    BY <1>head, <1>rest, <1>2, AtHead
  <2>. QED
    BY <2>1 DEF Ready
<1>4. t \in StoredTasks /\ StoreTyped /\ handler.task = {t} /\ t \notin forgotten
      /\ rows \in [StoredTasks -> States] /\ lastRecorded \in [StoredTasks -> States] /\ failedWrites \in 0..MaxFailedWrites
  BY DEF StoreInv, StoreTyped, BusyOK, Handlers
<1>5. Tables(t) /\ Fits(t, Effect(s, x))' /\ GapsOK(t, Effect(s, x).at)'
  BY <1>1, <1>2, <1>3, <1>4, WritesEffect DEF UnderWay
<1>6. p # <<>> => t \notin forgotten' /\ (Inner(p) \/ (Forgetting(t, p)' /\ Effect(s, x).at = Absent))
  <2>. SUFFICES ASSUME p # <<>> PROVE t \notin forgotten' /\ (Inner(p) \/ (Forgetting(t, p)' /\ Effect(s, x).at = Absent))
    OBVIOUS
  <2>1. t \notin forgotten'
    BY <1>1, <1>3, <1>4
  <2>2. CASE s.op \in {"record", "update", "dropRef", "saveRef", "insert"}
    BY <1>3, <2>1, <2>2
  <2>3. CASE s.op \in {"deleteHistory", "deleteRef"}
    <3>1. registry' = registry /\ handler'.after = handler.after
      BY <1>rest, <1>1, <1>4 DEF Advance, StoreTyped, Handlers
    <3>2. Effect(s, x).at = Absent
      BY <1>3, <2>3 DEF Effect
    <3>3. lastRecorded'[t] = Absent
      BY <1>1, <1>3, <1>4, <2>3 DEF Writes, States
    <3>4. s.op = "deleteRef" => t \notin refs'
      BY <1>1 DEF Writes
    <3>. QED
      BY <1>3, <2>1, <2>3, <3>1, <3>2, <3>3, <3>4 DEF Forgetting
  <2>. QED
    BY <1>3, <2>2, <2>3 DEF Statements, Operations
<1>7. t \in forgotten' => /\ rows'[t] = Absent /\ lastRecorded'[t] = Absent /\ t \notin refs'
                          /\ handler.after = Absent
  <2>. SUFFICES ASSUME s.op = "deleteRow"
                PROVE  rows'[t] = Absent /\ lastRecorded'[t] = Absent /\ t \notin refs' /\ handler.after = Absent
    BY <1>1, <1>4
  <2>. QED
    BY <1>1, <1>3, <1>4 DEF Writes
<1>8. y.at = handler.after /\ y.row = handler.after
  BY <1>2 DEF UnderWay
<1>9. /\ UNCHANGED <<created, handlers, boots>> /\ failedWrites' \in 0..MaxFailedWrites /\ failedWrites <= failedWrites'
      /\ lost \subseteq lost' /\ lost' \subseteq lost \cup {t}
      /\ forgotten \subseteq forgotten' /\ forgotten' \subseteq forgotten \cup {t}
  BY <1>1, <1>4
<1>. DEFINE e == Effect(s, x)
<1>10. /\ Advance(t) /\ Tables(t) /\ e \in LocalStates /\ Leads(p, e, y) /\ Backed(e)
       /\ p = Tail(handler.statements) /\ Fits(t, e)' /\ GapsOK(t, e.at)'
       /\ p # <<>> => t \notin forgotten' /\ (Inner(p) \/ (Forgetting(t, p)' /\ e.at = Absent))
  BY <1>rest, <1>1, <1>3, <1>5, <1>6
<1>. HIDE DEF e
<1>. QED
  BY <1>7, <1>8, <1>9, <1>10, AdvanceStep

LEMMA FailsStep == ASSUME StoreInv, Fails PROVE StoreInv'
<1>. DEFINE Answered == {"insert", "saveRef", "deleteHistory", "deleteRef", "deleteRow"}
<1>head. PICK s : s = Head(handler.statements)
  OBVIOUS
<1>rest. PICK p : p = Tail(handler.statements)
  OBVIOUS
<1>1. PICK t \in handler.task :
        /\ failedWrites < MaxFailedWrites /\ failedWrites' = failedWrites + 1
        /\ IF s.op \in Answered
             THEN handler' = NoHandler /\ UNCHANGED <<registry, live, lost>>
             ELSE Advance(t) /\ lost' = lost \cup {t}
        /\ UNCHANGED <<rows, lastRecorded, gaps, refs, created, forgotten, boots, handlers>>
  BY <1>head DEF Fails, tableVars
<1>2. PICK x \in LocalStates, y \in LocalStates : UnderWay(t, x, y)
  BY DEF StoreInv, BusyOK
<1>3. /\ s \in Statements /\ Connected(s, x) /\ Effect(s, x) \in LocalStates /\ Backed(Effect(s, x))
      /\ Leads(p, Effect(s, x), y)
      /\ s.op \in {"record", "update", "dropRef", "saveRef", "insert"} => Inner(p)
      /\ s.op = "saveRef" => x.at = registry[t] /\ (t \notin lost => rows[t] = registry[t])
      /\ s.op \notin {"record", "update", "dropRef", "saveRef"} => registry[t] = Absent
  <2>1. Ready(t, x, y, s, p)
    BY <1>head, <1>rest, <1>2, AtHead
  <2>. QED
    BY <2>1 DEF Ready
<1>4. /\ t \in StoredTasks /\ StoreTyped /\ handler.task = {t} /\ t \notin forgotten
      /\ gaps \in [StoredTasks -> Nat] /\ boots \in Nat /\ failedWrites \in Nat /\ failedWrites' \in 0..MaxFailedWrites
  BY <1>1, StoreAssumption DEF StoreInv, StoreTyped, BusyOK, Handlers
<1>5. CASE s.op \in Answered
  <2>1. /\ handler' = NoHandler
        /\ UNCHANGED <<rows, lastRecorded, gaps, refs, registry, live, lost, created, forgotten, boots, handlers>>
    BY <1>1, <1>5
  <2>2. NoHandler \in Handlers /\ handler'.task = {}
    BY <2>1 DEF NoHandler, Handlers, States
  <2>3. StoreTyped'
    BY <1>4, <2>1, <2>2 DEF StoreTyped
  <2>4. IdleOK'
    <3>. SUFFICES ASSUME NEW u \in StoredTasks
                  PROVE  (u \notin lost => registry[u] \in {rows[u], Absent}) /\ GapsOK(u, registry[u])'
      BY <2>1 DEF IdleOK
    <3>1. CASE u = t
      <4>1. GapsOK(t, registry[t])
        BY <1>2, <1>3, <1>4, <1>5 DEF UnderWay, GapsOK, Pend
      <4>2. GapsOK(t, registry[t])'
        BY <1>1, <1>4, <2>1, <4>1 DEF GapsOK, Pend, Began
      <4>3. t \notin lost => registry[t] \in {rows[t], Absent}
        BY <1>3, <1>5
      <4>. QED
        BY <3>1, <4>2, <4>3
    <3>2. CASE u # t
      <4>1. (u \notin lost => registry[u] \in {rows[u], Absent}) /\ GapsOK(u, registry[u])
        BY <1>4, <3>2 DEF StoreInv, IdleOK
      <4>2. GapsOK(u, registry[u])'
        BY <1>1, <1>4, <2>1, <4>1 DEF GapsOK, Pend, Began
      <4>. QED
        BY <4>1, <4>2
    <3>. QED
      BY <3>1, <3>2
  <2>5. BusyOK' /\ RefsOK' /\ NewOK' /\ GoneOK' /\ LiveOK'
    BY <2>1, <2>2 DEF StoreInv, BusyOK, RefsOK, NewOK, GoneOK, LiveOK
  <2>. QED
    BY <2>3, <2>4, <2>5 DEF StoreInv
<1>6. CASE s.op \notin Answered
  <2>1. Advance(t) /\ lost' = lost \cup {t} /\ s.op \in {"record", "update", "dropRef"}
    BY <1>1, <1>3, <1>6 DEF Statements, Operations
  <2>2. Tables(t)
    BY <1>1 DEF Tables, StoreInv, StoreTyped
  <2>3. Fits(t, Effect(s, x))'
    BY <2>1 DEF Fits
  <2>4. GapsOK(t, Effect(s, x).at)'
    <3>1. gaps[t] <= boots + failedWrites
      BY <1>2, <1>4 DEF UnderWay, GapsOK, Pend
    <3>. QED
      BY <1>1, <1>4, <3>1 DEF GapsOK, Pend
  <2>5. y.at = handler.after /\ y.row = handler.after /\ Inner(p)
    BY <1>2, <1>3, <2>1 DEF UnderWay
  <2>6. /\ UNCHANGED <<created, handlers, boots>> /\ failedWrites <= failedWrites'
        /\ lost \subseteq lost' /\ lost' \subseteq lost \cup {t}
        /\ forgotten \subseteq forgotten' /\ forgotten' \subseteq forgotten \cup {t} /\ t \notin forgotten'
    BY <1>1, <1>4, <2>1
  <2>. DEFINE e == Effect(s, x)
  <2>7. /\ e \in LocalStates /\ Leads(p, e, y) /\ Backed(e) /\ p = Tail(handler.statements)
        /\ Fits(t, e)' /\ GapsOK(t, e.at)'
    BY <1>rest, <1>1, <1>3, <2>3, <2>4
  <2>. HIDE DEF e
  <2>. QED
    BY <1>4, <2>1, <2>2, <2>5, <2>6, <2>7, AdvanceStep
<1>. QED
  BY <1>5, <1>6

LEMMA GapsBounded == ASSUME StoreInv, NEW t \in StoredTasks PROVE gaps[t] <= boots + failedWrites
<1>1. gaps[t] \in Nat /\ boots \in Nat /\ failedWrites \in Nat
  BY StoreAssumption DEF StoreInv, StoreTyped
<1>2. \E s : GapsOK(t, s)
  BY DEF StoreInv, BusyOK, IdleOK, UnderWay
<1>. QED
  BY <1>1, <1>2 DEF GapsOK, Pend

LEMMA RebootStep == ASSUME StoreInv, Reboot PROVE StoreInv'
<1>1. /\ boots < MaxBoots /\ boots' = boots + 1 /\ registry' = rows /\ live' = {} /\ handler' = NoHandler
      /\ UNCHANGED <<rows, lastRecorded, gaps, refs, created, forgotten, lost, failedWrites, handlers>>
  BY DEF Reboot, tableVars
<1>2. NoHandler \in Handlers /\ handler'.task = {}
  BY <1>1 DEF NoHandler, Handlers, States
<1>3. StoreTyped'
  BY <1>1, <1>2, StoreAssumption DEF StoreInv, StoreTyped
<1>4. IdleOK'
  <2>. SUFFICES ASSUME NEW t \in StoredTasks PROVE GapsOK(t, rows[t])'
    BY <1>1 DEF IdleOK
  <2>1. gaps[t] \in Nat /\ boots \in Nat /\ failedWrites \in Nat /\ gaps[t] <= boots + failedWrites
    BY GapsBounded, StoreAssumption DEF StoreInv, StoreTyped
  <2>. QED
    BY <1>1, <2>1 DEF GapsOK, Pend
<1>5. BusyOK' /\ RefsOK' /\ NewOK' /\ GoneOK' /\ LiveOK'
  BY <1>1, <1>2 DEF StoreInv, BusyOK, RefsOK, NewOK, GoneOK, LiveOK
<1>. QED
  BY <1>3, <1>4, <1>5 DEF StoreInv

LEMMA StoreStep == ASSUME StoreInv, [StoreNext]_storeVars PROVE StoreInv'
<1>1. CASE UNCHANGED storeVars
  <2>1. StoreTyped' /\ RefsOK'
    BY <1>1 DEF StoreInv, StoreTyped, RefsOK, storeVars, tableVars, countVars
  <2>4. IdleOK'
    BY <1>1 DEF StoreInv, IdleOK, GapsOK, Pend, Began, storeVars, tableVars, countVars
  <2>2. NewOK' /\ GoneOK' /\ LiveOK'
    BY <1>1 DEF StoreInv, NewOK, GoneOK, LiveOK, storeVars, tableVars, countVars
  <2>3. BusyOK'
    BY <1>1 DEF StoreInv, BusyOK, UnderWay, Fits, GapsOK, Pend, Began, Shape, Forgetting, storeVars, tableVars, countVars
  <2>. QED
    BY <2>1, <2>2, <2>3, <2>4 DEF StoreInv
<1>2. CASE StoreNext
  BY <1>2, CreateBegins, LaunchBegins, RestartBegins, HibernateBegins, ResumeBegins, RecycleBegins,
     TerminateBegins, ForgetBegins, SucceedsStep, FailsStep, RebootStep DEF StoreNext
<1>. QED
  BY <1>1, <1>2

LEMMA StoreInvImplies == StoreInv => StoreTypeOK /\ BootsAreSound
<1>. SUFFICES ASSUME StoreInv PROVE StoreTypeOK /\ BootsAreSound
  OBVIOUS
<1>1. \A s \in ToSet(handler.statements) : s.op \in Operations
  <2>1. handler.statements \in Seq(Statements)
    BY DEF StoreInv, StoreTyped, Handlers
  <2>2. \A i \in DOMAIN handler.statements : handler.statements[i] \in Statements
    BY <2>1, ElementOfSeq, LenProperties
  <2>. QED
    BY <2>2 DEF ToSet, Statements
<1>2. StoreTypeOK
  BY <1>1 DEF StoreInv, StoreTyped, StoreTypeOK, Handlers, States
<1>3. RowsAreRecoverable
  BY GapsBounded DEF RowsAreRecoverable, StoreInv, RefsOK
<1>4. ForgottenLeavesNothing
  BY DEF ForgottenLeavesNothing, StoreInv, GoneOK
<1>. QED
  BY <1>2, <1>3, <1>4 DEF BootsAreSound

(* Every variable of the task tables keeps its type, whatever fails.       *)
THEOREM StoreTypeCorrect == StoreSpec => []StoreTypeOK
<1>. QED
  BY InitStore, StoreStep, StoreInvImplies, PTL DEF StoreSpec

(* What a boot finds after deaths and refused statements anywhere can be   *)
(* trusted, for any number of tasks, deaths and failures: a row that says  *)
(* Hibernated has its reference, a history has no more gaps than there     *)
(* were deaths and failures, and a task forgotten with success is gone.    *)
THEOREM BootsAreTrustworthy == StoreSpec => []BootsAreSound
<1>. QED
  BY InitStore, StoreStep, StoreInvImplies, PTL DEF StoreSpec

-----------------------------------------------------------------------------
Up(d) == memmuxd[d] \in Starting \cup {"serving"}

Watched ==
  ~unwatched =>
    /\ \A d, e \in Daemons : Up(d) /\ Up(e) => d = e
    /\ \A d \in Daemons : memmuxd[d] = "serving" => socket = d
    /\ \A u \in Users, d \in Daemons : memmux[u] = "spawn" => ~Up(d)

SupervisionInv == SupervisionTypeOK /\ Watched

-----------------------------------------------------------------------------
LEMMA SupervisionInitOK == SupervisionInit => SupervisionInv
<1>. SUFFICES ASSUME SupervisionInit PROVE SupervisionInv
  OBVIOUS
<1>1. SupervisionTypeOK
  <2>1. deaths \in 0..MaxDeaths
    BY SupervisionAssumption DEF SupervisionInit
  <2>2. /\ memmuxd \in [Daemons -> Starting \cup {"unborn", "serving", "dead"}]
        /\ memmux \in [Users -> {"idle", "spawn", "waiting", "connected", "failed"}]
    BY DEF SupervisionInit
  <2>3. socket \in Daemons \cup {NoSocket} /\ unwatched \in BOOLEAN
    BY DEF SupervisionInit
  <2>. QED
    BY <2>1, <2>2, <2>3 DEF SupervisionTypeOK
<1>2. \A d \in Daemons : ~Up(d) /\ memmuxd[d] # "serving"
  BY DEF SupervisionInit, Up, Starting
<1>3. Watched
  BY <1>2 DEF Watched
<1>. QED
  BY <1>1, <1>3 DEF SupervisionInv

(* A client that finds no daemon, with none on its way, is right.          *)
LEMMA NobodyIsUp ==
  ASSUME SupervisionInv, ~unwatched, ~Reachable, ~Underway, NEW d \in Daemons
  PROVE  ~Up(d)
BY DEF SupervisionInv, Watched, Reachable, Serving, Underway, Up, Starting

LEMMA SupervisionStepOK == SupervisionInv /\ [SupervisionNext]_supervisionVars => SupervisionInv'
<1>. SUFFICES ASSUME SupervisionInv, [SupervisionNext]_supervisionVars PROVE SupervisionInv'
  OBVIOUS
<1>. USE SupervisionAssumption DEF SupervisionInv
<1>1. ASSUME NEW u \in Users, Probe(u)
      PROVE  SupervisionInv'
  <2>1. SupervisionTypeOK'
    BY <1>1 DEF Probe, SupervisionTypeOK
  <2>2. ASSUME ~unwatched', NEW v \in Users, NEW d \in Daemons, memmux'[v] = "spawn"
        PROVE  ~Up(d)'
    <3>1. CASE v = u
      BY <1>1, <2>2, <3>1, NobodyIsUp DEF Probe, SupervisionTypeOK, Up
    <3>2. CASE v # u
      BY <1>1, <2>2, <3>2 DEF Probe, SupervisionTypeOK, Watched, Up
    <3>. QED
      BY <3>1, <3>2
  <2>. QED
    BY <1>1, <2>1, <2>2 DEF Probe, Watched, Up
<1>2. ASSUME NEW u \in Users, SpawnDaemon(u)
      PROVE  SupervisionInv'
  <2>1. CASE \E d \in Daemons : StartDaemon(d)
    <3>1. PICK d \in Daemons : StartDaemon(d)
      BY <2>1
    <3>2. SupervisionTypeOK'
      BY <1>2, <3>1 DEF SpawnDaemon, StartDaemon, Becomes, SupervisionTypeOK, Starting
    <3>3. ~unwatched' => \A e \in Daemons : ~Up(e)
      BY <1>2 DEF SpawnDaemon, Watched, SupervisionTypeOK
    <3>4. ~unwatched' => \A v \in Users : memmux'[v] # "spawn"
      BY <1>2, <3>1 DEF SpawnDaemon, StartDaemon, Becomes, SupervisionTypeOK
    <3>5. \A e \in Daemons : e # d => memmuxd'[e] = memmuxd[e]
      BY <3>1 DEF StartDaemon, Becomes, SupervisionTypeOK
    <3>6. memmuxd'[d] = "started"
      BY <3>1 DEF StartDaemon, Becomes, SupervisionTypeOK
    <3>7. Watched'
      BY <3>3, <3>4, <3>5, <3>6 DEF Watched, Up, Starting
    <3>. QED
      BY <3>2, <3>7
  <2>2. CASE memmux' = [memmux EXCEPT ![u] = "failed"] /\ UNCHANGED <<memmuxd, unwatched, deaths>>
    BY <1>2, <2>2 DEF SpawnDaemon, SupervisionTypeOK, Watched, Up
  <2>. QED
    BY <1>2, <2>1, <2>2 DEF SpawnDaemon
<1>3. ASSUME NEW u \in Users, PollUp(u) \/ PollExpires(u) \/ Quits(u)
      PROVE  SupervisionInv'
  BY <1>3 DEF PollUp, PollExpires, Quits, SupervisionTypeOK, Watched, Up
<1>4. ASSUME NEW d \in Daemons, StartByHand(d)
      PROVE  SupervisionInv'
  <2>1. SupervisionTypeOK'
    BY <1>4 DEF StartByHand, StartDaemon, Becomes, SupervisionTypeOK, Starting
  <2>2. ~unwatched' => \A e \in Daemons : ~Up(e)
    BY <1>4 DEF StartByHand, Underway, Serving, Up
  <2>3. ~unwatched' => \A v \in Users : memmux'[v] # "spawn"
    BY <1>4 DEF StartByHand
  <2>4. /\ memmuxd'[d] = "started"
        /\ \A e \in Daemons : e # d => memmuxd'[e] = memmuxd[e]
    BY <1>4 DEF StartByHand, StartDaemon, Becomes, SupervisionTypeOK
  <2>5. Watched'
    BY <2>2, <2>3, <2>4 DEF Watched, Up, Starting
  <2>. QED
    BY <2>1, <2>5
<1>5. ASSUME NEW d \in Daemons, Recover(d) \/ CheckSocket(d) \/ DaemonDies(d)
      PROVE  SupervisionInv'
  <2>1. SupervisionTypeOK'
    BY <1>5 DEF Recover, CheckSocket, DaemonDies, Becomes, SupervisionTypeOK, Starting
  <2>2. /\ memmuxd[d] \in Starting \cup {"serving"}
        /\ memmuxd'[d] \in Starting \cup {"dead"}
        /\ \A e \in Daemons : e # d => memmuxd'[e] = memmuxd[e]
        /\ UNCHANGED <<socket, memmux, unwatched>>
    BY <1>5 DEF Recover, CheckSocket, DaemonDies, Becomes, SupervisionTypeOK, Starting
  <2>3. Watched'
    BY <2>2 DEF Watched, Up, Starting
  <2>. QED
    BY <2>1, <2>3
<1>6. ASSUME NEW d \in Daemons, RemoveSocket(d) \/ BindSocket(d)
      PROVE  SupervisionInv'
  <2>1. SupervisionTypeOK'
    BY <1>6 DEF RemoveSocket, BindSocket, Becomes, SupervisionTypeOK, Starting
  <2>2. /\ memmuxd[d] \in Starting
        /\ memmuxd'[d] \in Starting \cup {"serving", "dead"}
        /\ memmuxd'[d] = "serving" => socket' = d
        /\ \A e \in Daemons : e # d => memmuxd'[e] = memmuxd[e]
        /\ UNCHANGED <<memmux, unwatched>>
    BY <1>6 DEF RemoveSocket, BindSocket, Becomes, SupervisionTypeOK, Starting
  <2>3. Watched'
    BY <2>2 DEF Watched, Up, Starting
  <2>. QED
    BY <2>1, <2>3
<1>7. CASE UNCHANGED supervisionVars
  BY <1>7 DEF supervisionVars, SupervisionTypeOK, Watched, Up
<1>. QED
  BY <1>1, <1>2, <1>3, <1>4, <1>5, <1>6, <1>7 DEF SupervisionNext, ServeStep

(* The socket, the daemons and the clients stay of their types             *)
(* (supervisor.rs:52, server.rs:22).                                       *)
THEOREM SupervisionTypeCorrect == SupervisionSpec => []SupervisionTypeOK
<1>1. SupervisionInv => SupervisionTypeOK
  BY DEF SupervisionInv
<1>. QED
  BY SupervisionInitOK, SupervisionStepOK, <1>1, PTL DEF SupervisionSpec

(* Two daemons serve side by side only when they were started in a race    *)
(* (supervisor.rs:52, server.rs:27), for any number of clients, daemons    *)
(* and deaths.                                                             *)
THEOREM DaemonsServeAlone == SupervisionSpec => []TwoDaemonsAreARace
<1>1. SupervisionInv => TwoDaemonsAreARace
  <2>1. SUFFICES ASSUME SupervisionInv, ~unwatched
                 PROVE  Cardinality(Serving) <= 1
    BY DEF TwoDaemonsAreARace
  <2>2. CASE Serving = {}
    BY <2>2, FS_EmptySet
  <2>3. CASE Serving # {}
    <3>1. PICK d : d \in Serving
      BY <2>3
    <3>2. Serving = {d}
      BY <2>1, <3>1 DEF SupervisionInv, Watched, Serving, Up
    <3>. QED
      BY <3>2, FS_Singleton
  <2>. QED
    BY <2>2, <2>3
<1>. QED
  BY SupervisionInitOK, SupervisionStepOK, <1>1, PTL DEF SupervisionSpec

-----------------------------------------------------------------------------
(* The update.                                                             *)

(* What an undisturbed run has staged and installed so far.                *)
Undisturbed(u) ==
  LET run == updates[u] IN
  /\ \A v \in Updaters : Updating(v) => v = u
  /\ \A n \in Binaries : /\ installed[n].open = {}
                         /\ run.step # "copy" \/ run.name # n => staged[n].open = {}
                         /\ ~run.pinned => installed[n].of \subseteq 1..run.tag
  /\ run.step = "copy" => staged[run.name] = Emptied({u})
  /\ run.step = "rename" => staged[run.name] = FileOf(run.tag)
  /\ run.name = "memmuxd" => installed["memmux"] = FileOf(run.tag)

(* Who is copying into a file is copying.                                  *)
WritersOK(file) ==
  /\ \A u \in file.open : updates[u].step = "copy"
  /\ file.of \subseteq 1..released

UpdateInv ==
  /\ UpdateTypeOK
  /\ \A n \in Binaries : WritersOK(installed[n]) /\ WritersOK(staged[n])
  /\ \A u \in Updaters : Updating(u) => updates[u].tag <= released
  /\ \A u \in Updaters : Updating(u) /\ updates[u].alone => Undisturbed(u)
  /\ "crossed" \notin excuses => /\ \A n \in Binaries : Whole(installed[n])
                                 /\ \A u \in Updaters : Updating(u) => updates[u].alone
  /\ excuses = {} => \/ installed["memmux"] = installed["memmuxd"]
                     \/ \E u \in Updaters : Updating(u) /\ updates[u].name = "memmuxd"

LEMMA FilesOK ==
  /\ NoFile \in Files
  /\ \A tag \in 1..Latest : FileOf(tag) \in Files /\ Whole(FileOf(tag)) /\ FileOf(tag) # NoFile
                            /\ FileOf(tag).open = {} /\ FileOf(tag).of = {tag}
BY DEF Emptied, NoFile, FileOf, Files, Whole

LEMMA UpdateInitOK == UpdateInit => UpdateInv
<1>. SUFFICES ASSUME UpdateInit PROVE UpdateInv
  OBVIOUS
<1>. USE DEF UpdateInit
<1>1. 1 \in 1..Latest
  BY UpdateAssumption
<1>2. \A u \in Updaters : ~Updating(u)
  BY DEF Updating, NoUpdate
<1>3. UpdateTypeOK
  BY <1>1, FilesOK DEF UpdateTypeOK, NoUpdate, Binaries
<1>4. \A n \in Binaries : WritersOK(installed[n]) /\ WritersOK(staged[n]) /\ Whole(installed[n])
  BY <1>1, FilesOK DEF WritersOK, Emptied, NoFile
<1>5. installed["memmux"] = installed["memmuxd"]
  BY DEF Binaries
<1>. QED
  BY <1>2, <1>3, <1>4, <1>5 DEF UpdateInv

LEMMA ReleaseKeeps == ASSUME UpdateInv, Release PROVE UpdateInv'
<1>1. /\ released' = released + 1 /\ released' \in 1..Latest /\ released \in 1..Latest
      /\ UNCHANGED <<installed, staged, updates, excuses>>
  BY UpdateAssumption DEF Release, UpdateInv, UpdateTypeOK
<1>2. UpdateTypeOK'
  BY <1>1 DEF UpdateInv, UpdateTypeOK
<1>3. \A n \in Binaries : WritersOK(installed[n])' /\ WritersOK(staged[n])'
  BY <1>1 DEF UpdateInv, WritersOK
<1>4. \A u \in Updaters : (Updating(u)' <=> Updating(u)) /\ (Undisturbed(u) => Undisturbed(u)')
  BY <1>1 DEF Updating, Undisturbed
<1>5. \A u \in Updaters : Updating(u) => updates[u].tag \in 1..Latest /\ updates[u].tag <= released'
  BY <1>1 DEF UpdateInv, UpdateTypeOK
<1>. QED
  BY <1>1, <1>2, <1>3, <1>4, <1>5 DEF UpdateInv

LEMMA BeginKeeps == ASSUME UpdateInv, NEW u \in Updaters, BeginUpdate(u) PROVE UpdateInv'
<1>. DEFINE crossed == \E v \in Updaters : Updating(v)
<1>1. PICK current \in 1..Latest, tag \in 1..released, pinned \in BOOLEAN :
        /\ installed["memmux"] = FileOf(current)
        /\ pinned \/ (tag = released /\ IsNewer(tag, current))
        /\ updates' = [v \in Updaters |->
             IF v = u THEN [step |-> "stage", name |-> "memmux", tag |-> tag,
                            pinned |-> pinned, alone |-> ~crossed]
             ELSE [updates[v] EXCEPT !.alone = @ /\ ~Updating(v)]]
        /\ excuses' = IF crossed THEN excuses \cup {"crossed"} ELSE excuses
  BY Zenon DEF BeginUpdate
<1>2. ~Updating(u) /\ UNCHANGED <<released, installed, staged>>
  BY DEF BeginUpdate
<1>3. /\ updates'[u] = [step |-> "stage", name |-> "memmux", tag |-> tag, pinned |-> pinned, alone |-> ~crossed]
      /\ Updating(u)' /\ (updates'[u].alone <=> ~crossed)
  BY <1>1 DEF Updating
<1>4. \A v \in Updaters : v # u =>
        /\ updates'[v] = [updates[v] EXCEPT !.alone = updates[v].alone /\ ~Updating(v)]
        /\ updates'[v].step = updates[v].step /\ updates'[v].name = updates[v].name
        /\ updates'[v].tag = updates[v].tag
        /\ (updates'[v].alone <=> updates[v].alone /\ ~Updating(v))
        /\ (Updating(v)' <=> Updating(v))
  BY <1>1 DEF UpdateInv, UpdateTypeOK, Updating
<1>5. released \in 1..Latest /\ tag \in 1..Latest
  BY UpdateAssumption DEF UpdateInv, UpdateTypeOK
<1>6. UpdateTypeOK'
  <2>. DEFINE Run == [step : {"none", "stage", "copy", "rename"}, name : Binaries,
                      tag : 1..Latest, pinned : BOOLEAN, alone : BOOLEAN]
  <2>1. "memmux" \in Binaries
    BY DEF Binaries
  <2>2. updates'[u] \in Run
    <3>. DEFINE alone == ~crossed
    <3>1. alone \in BOOLEAN
      OBVIOUS
    <3>2. updates'[u] = [step |-> "stage", name |-> "memmux", tag |-> tag, pinned |-> pinned, alone |-> alone]
      BY <1>3
    <3>. HIDE DEF alone, crossed
    <3>. QED
      BY <1>5, <2>1, <3>1, <3>2
  <2>3. ASSUME NEW v \in Updaters, v # u PROVE updates'[v] \in Run
    <3>. DEFINE alone == updates[v].alone /\ ~Updating(v)
    <3>1. updates'[v] = [updates[v] EXCEPT !.alone = alone] /\ alone \in BOOLEAN
      BY <1>4, <2>3
    <3>2. updates[v] \in Run
      BY DEF UpdateInv, UpdateTypeOK
    <3>. HIDE DEF alone
    <3>. QED
      BY <3>1, <3>2
  <2>4. updates' = [v \in Updaters |-> updates'[v]]
    BY <1>1
  <2>. HIDE DEF Run
  <2>5. updates' \in [Updaters -> Run]
    BY <2>2, <2>3, <2>4
  <2>6. excuses' \subseteq {"torn", "crossed"}
    BY <1>1 DEF UpdateInv, UpdateTypeOK
  <2>. QED
    BY <1>2, <2>5, <2>6 DEF UpdateInv, UpdateTypeOK, Run
<1>7. \A n \in Binaries : WritersOK(installed[n])' /\ WritersOK(staged[n])'
  <2>1. \A v \in Updaters : updates[v].step = "copy" => updates'[v].step = "copy"
    BY <1>2, <1>4 DEF Updating
  <2>2. \A n \in Binaries : installed[n].open \subseteq Updaters /\ staged[n].open \subseteq Updaters
    BY DEF UpdateInv, UpdateTypeOK, Files
  <2>. QED
    BY <1>2, <2>1, <2>2 DEF UpdateInv, WritersOK
<1>8. ASSUME NEW v \in Updaters, Updating(v)', updates'[v].alone PROVE Undisturbed(v)'
  <2>1. v = u /\ ~crossed
    BY <1>3, <1>4, <1>8
  <2>2. \A n \in Binaries : installed[n].open = {} /\ staged[n].open = {} /\ installed[n].of \subseteq 1..released
    <3>1. \A n \in Binaries : installed[n].open \subseteq Updaters /\ staged[n].open \subseteq Updaters
      BY DEF UpdateInv, UpdateTypeOK, Files
    <3>. QED
      BY <2>1, <3>1 DEF UpdateInv, WritersOK, Updating
  <2>3. \A w \in Updaters : Updating(w)' => w = u
    BY <1>4, <2>1
  <2>4. updates'[u].step = "stage" /\ updates'[u].name = "memmux" /\ updates'[u].tag = tag /\ updates'[u].pinned = pinned
    BY <1>3
  <2>5. ~pinned => tag = released
    BY <1>1
  <2>. QED
    BY <1>2, <2>1, <2>2, <2>3, <2>4, <2>5 DEF Undisturbed
<1>9. \A v \in Updaters : Updating(v)' => updates'[v].tag <= released
  BY <1>1, <1>3, <1>4, <1>5 DEF UpdateInv
<1>10. "crossed" \notin excuses' => /\ \A n \in Binaries : Whole(installed[n])
                                    /\ \A v \in Updaters : Updating(v)' => updates'[v].alone
  BY <1>1, <1>3, <1>4 DEF UpdateInv
<1>11. excuses' = {} => installed["memmux"] = installed["memmuxd"]
  BY <1>1 DEF UpdateInv
<1>. QED
  BY <1>2, <1>6, <1>7, <1>8, <1>9, <1>10, <1>11 DEF UpdateInv, Whole

(* A step of a run by itself changes nothing of the others'.               *)
LEMMA RunKeeps ==
  ASSUME UpdateInv, NEW u \in Updaters, Updating(u), released' = released,
         \A v \in Updaters : v # u => updates'[v] = updates[v],
         UpdateTypeOK',
         \A n \in Binaries : WritersOK(installed[n])' /\ WritersOK(staged[n])',
         Updating(u)' => /\ updates'[u].tag = updates[u].tag
                         /\ (updates'[u].alone <=> updates[u].alone),
         updates[u].alone /\ Undisturbed(u) =>
           /\ Updating(u)' => Undisturbed(u)'
           /\ "crossed" \notin excuses' => \A n \in Binaries : Whole(installed[n])'
           /\ excuses' = {} => \/ installed'["memmux"] = installed'["memmuxd"]
                               \/ Updating(u)' /\ updates'[u].name = "memmuxd",
         ~updates[u].alone => "crossed" \in excuses'
  PROVE  UpdateInv'
<1>1. ASSUME NEW v \in Updaters, v # u PROVE updates'[v] = updates[v] /\ (Updating(v)' <=> Updating(v))
  BY <1>1 DEF Updating
<1>2. ASSUME NEW v \in Updaters, v # u, Updating(v), updates[v].alone PROVE FALSE
  BY <1>2 DEF UpdateInv, Undisturbed
<1>3. updates[u].alone => Undisturbed(u)
  BY DEF UpdateInv
<1>4. \A v \in Updaters : Updating(v)' => updates'[v].tag <= released'
  BY <1>1 DEF UpdateInv
<1>5. \A v \in Updaters : Updating(v)' /\ updates'[v].alone => Undisturbed(v)'
  BY <1>1, <1>2, <1>3
<1>6. "crossed" \notin excuses' => /\ \A n \in Binaries : Whole(installed[n])'
                                   /\ \A v \in Updaters : Updating(v)' => updates'[v].alone
  <2>. SUFFICES ASSUME "crossed" \notin excuses'
                PROVE  /\ \A n \in Binaries : Whole(installed[n])'
                       /\ \A v \in Updaters : Updating(v)' => updates'[v].alone
    OBVIOUS
  <2>1. updates[u].alone /\ Undisturbed(u)
    BY <1>3
  <2>2. \A v \in Updaters : v # u => ~Updating(v)
    BY <2>1 DEF Undisturbed
  <2>. QED
    BY <1>1, <2>1, <2>2
<1>7. excuses' = {} => \/ installed'["memmux"] = installed'["memmuxd"]
                       \/ \E v \in Updaters : Updating(v)' /\ updates'[v].name = "memmuxd"
  BY <1>3
<1>. QED
  BY <1>4, <1>5, <1>6, <1>7 DEF UpdateInv

(* What a run under way is.                                                *)
LEMMA RunOK ==
  ASSUME UpdateInv, NEW u \in Updaters
  PROVE  /\ updates[u] \in [step : {"none", "stage", "copy", "rename"}, name : Binaries,
                            tag : 1..Latest, pinned : BOOLEAN, alone : BOOLEAN]
         /\ Updating(u) => updates[u].tag \in 1..released
         /\ Updating(u) /\ ~updates[u].alone => "crossed" \in excuses
BY DEF UpdateInv, UpdateTypeOK

LEMMA StageKeeps == ASSUME UpdateInv, NEW u \in Updaters, StageBinary(u) PROVE UpdateInv'
<1>. DEFINE run  == updates[u]
            name == run.name
            file == Emptied(staged[name].open \cup {u})
<1>1. /\ run.step = "stage" /\ Updating(u) /\ UNCHANGED <<released, installed, excuses>>
      /\ staged' = [staged EXCEPT ![name] = file] /\ updates' = [updates EXCEPT ![u].step = "copy"]
  BY DEF StageBinary, Updating
<1>2. /\ name \in Binaries /\ file.of = {} /\ file.open = staged[name].open \cup {u} /\ file \in Files
      /\ file = [of |-> {}, cut |-> FALSE, open |-> staged[name].open \cup {u}]
  <2>1. name \in Binaries
    BY RunOK
  <2>2. staged[name] \in Files
    BY <2>1 DEF UpdateInv, UpdateTypeOK
  <2>3. file = [of |-> {}, cut |-> FALSE, open |-> staged[name].open \cup {u}]
    BY DEF Emptied, NoFile
  <2>4. staged[name].open \cup {u} \subseteq Updaters
    BY <2>2 DEF Files
  <2>5. [of |-> {}, cut |-> FALSE, open |-> staged[name].open \cup {u}] \in Files
    BY <2>4 DEF Files
  <2>. HIDE DEF file
  <2>. QED
    BY <2>1, <2>3, <2>5
<1>3. /\ updates'[u] = [run EXCEPT !.step = "copy"] /\ \A v \in Updaters : v # u => updates'[v] = updates[v]
      /\ updates'[u].step = "copy" /\ updates'[u].name = name /\ updates'[u].tag = run.tag
      /\ (updates'[u].alone <=> run.alone) /\ (updates'[u].pinned <=> run.pinned)
  BY <1>1, RunOK DEF UpdateInv, UpdateTypeOK
<1>. HIDE DEF file
<1>4. staged'[name] = file /\ \A n \in Binaries : n # name => staged'[n] = staged[n]
  BY <1>1, <1>2 DEF UpdateInv, UpdateTypeOK
<1>5. UpdateTypeOK'
  BY <1>1, <1>2 DEF UpdateInv, UpdateTypeOK
<1>6. \A n \in Binaries : WritersOK(installed[n])' /\ WritersOK(staged[n])'
  <2>1. \A v \in Updaters : updates[v].step = "copy" => updates'[v].step = "copy"
    BY <1>3
  <2>2. \A n \in Binaries : installed[n].open \subseteq Updaters /\ staged[n].open \subseteq Updaters
    BY DEF UpdateInv, UpdateTypeOK, Files
  <2>3. ASSUME NEW n \in Binaries PROVE WritersOK(installed[n])' /\ WritersOK(staged[n])'
    <3>1. CASE n = name
      BY <1>1, <1>2, <1>3, <1>4, <2>1, <2>2, <3>1 DEF UpdateInv, WritersOK
    <3>2. CASE n # name
      BY <1>1, <1>4, <2>1, <2>2, <3>2 DEF UpdateInv, WritersOK
    <3>. QED
      BY <3>1, <3>2
  <2>. QED
    BY <2>3
<1>7. ASSUME run.alone, Undisturbed(u) PROVE Undisturbed(u)'
  <2>1. staged[name].open = {}
    BY <1>1, <1>2, <1>7 DEF Undisturbed
  <2>2. \A v \in Updaters : Updating(v)' => v = u
    BY <1>3, <1>7 DEF Undisturbed, Updating
  <2>3. staged'[name] = Emptied({u})
    <3>1. staged[name].open \cup {u} = {u}
      BY <2>1
    <3>. QED
      BY <1>4, <3>1 DEF file
  <2>. QED
    BY <1>1, <1>2, <1>3, <1>4, <1>7, <2>2, <2>3 DEF Undisturbed
<1>8. excuses' = {} => \/ installed'["memmux"] = installed'["memmuxd"]
                       \/ \E v \in Updaters : Updating(v) /\ updates[v].name = "memmuxd"
  BY <1>1 DEF UpdateInv
<1>9. /\ "crossed" \notin excuses' => \A n \in Binaries : Whole(installed[n])'
      /\ ~run.alone => "crossed" \in excuses'
  BY <1>1 DEF UpdateInv, Whole
<1>10. ASSUME run.alone, Undisturbed(u), excuses' = {}
       PROVE  \/ installed'["memmux"] = installed'["memmuxd"]
              \/ Updating(u)' /\ updates'[u].name = "memmuxd"
  <2>1. \A v \in Updaters : Updating(v) => v = u
    BY <1>10 DEF Undisturbed
  <2>2. Updating(u)' /\ updates'[u].name = run.name
    BY <1>3 DEF Updating
  <2>. QED
    BY <1>8, <1>10, <2>1, <2>2
<1>. QED
  BY <1>1, <1>3, <1>5, <1>6, <1>7, <1>9, <1>10, RunKeeps

(* What the copying of one updater does to a file.                         *)
LEMMA WrittenOK ==
  ASSUME UpdateInv, NEW u \in Updaters, Updating(u), NEW file \in Files, WritersOK(file)
  PROVE  /\ Written(file, u) \in Files /\ Cut(file, u) \in Files
         /\ Written(file, u).open = file.open \ {u} /\ Cut(file, u).open = file.open \ {u}
         /\ Written(file, u).of \subseteq 1..released /\ Cut(file, u).of \subseteq 1..released
         /\ u \notin file.open => Written(file, u) = file /\ Cut(file, u) = file
         /\ u \in file.open => Written(file, u).of = file.of \cup {updates[u].tag} /\ Written(file, u).cut = file.cut
<1>1. updates[u].tag \in 1..released /\ updates[u].tag \in 1..Latest
  BY RunOK
<1>. QED
  BY <1>1 DEF Written, Cut, Files, WritersOK

LEMMA FileTyped ==
  ASSUME UpdateInv, NEW n \in Binaries
  PROVE  installed[n] \in Files /\ staged[n] \in Files /\ WritersOK(installed[n]) /\ WritersOK(staged[n])
BY DEF UpdateInv, UpdateTypeOK

LEMMA CopyKeeps == ASSUME UpdateInv, NEW u \in Updaters, CopyBinary(u) PROVE UpdateInv'
<1>. DEFINE run == updates[u]
<1>1. /\ run.step = "copy" /\ Updating(u) /\ UNCHANGED <<released, excuses>>
      /\ installed' = [n \in Binaries |-> Written(installed[n], u)]
      /\ staged' = [n \in Binaries |-> Written(staged[n], u)]
      /\ updates' = [updates EXCEPT ![u].step = "rename"]
  BY DEF CopyBinary, Updating
<1>2. /\ \A v \in Updaters : v # u => updates'[v] = updates[v]
      /\ updates'[u].step = "rename" /\ updates'[u].name = run.name /\ updates'[u].tag = run.tag
      /\ (updates'[u].alone <=> run.alone) /\ (updates'[u].pinned <=> run.pinned)
  BY <1>1 DEF UpdateInv, UpdateTypeOK
<1>3. \A n \in Binaries :
        /\ installed'[n] \in Files /\ staged'[n] \in Files
        /\ installed'[n].open = installed[n].open \ {u} /\ staged'[n].open = staged[n].open \ {u}
        /\ installed'[n].of \subseteq 1..released /\ staged'[n].of \subseteq 1..released
        /\ u \notin installed[n].open => installed'[n] = installed[n]
        /\ u \notin staged[n].open => staged'[n] = staged[n]
  BY <1>1, FileTyped, WrittenOK
<1>4. UpdateTypeOK'
  BY <1>1, <1>3 DEF UpdateInv, UpdateTypeOK
<1>5. \A n \in Binaries : WritersOK(installed[n])' /\ WritersOK(staged[n])'
  <2>. TAKE n \in Binaries
  <2>1. \A v \in Updaters : v # u /\ updates[v].step = "copy" => updates'[v].step = "copy"
    BY <1>2
  <2>2. installed[n].open \subseteq Updaters /\ staged[n].open \subseteq Updaters
    BY FileTyped DEF Files
  <2>. QED
    BY <1>1, <1>3, <2>1, <2>2, FileTyped DEF WritersOK
<1>6. Updating(u)'
  BY <1>2 DEF Updating
<1>7. ASSUME run.alone, Undisturbed(u) PROVE Undisturbed(u)' /\ \A n \in Binaries : installed'[n] = installed[n]
  <2>1. \A v \in Updaters : Updating(v)' => v = u
    BY <1>2, <1>7 DEF Undisturbed, Updating
  <2>2. \A n \in Binaries : installed'[n] = installed[n] /\ installed[n].open = {}
    BY <1>3, <1>7 DEF Undisturbed
  <2>3. run.name \in Binaries /\ staged[run.name] = Emptied({u}) /\ run.tag \in 1..Latest
    BY <1>1, <1>7, RunOK DEF Undisturbed
  <2>4. staged'[run.name] = FileOf(run.tag)
    <3>1. /\ staged[run.name] \in Files /\ WritersOK(staged[run.name]) /\ staged[run.name].of = {}
          /\ staged[run.name].cut = FALSE /\ staged[run.name].open = {u}
      BY <2>3, FileTyped DEF Emptied
    <3>2. staged'[run.name] = Written(staged[run.name], u) /\ u \in {u}
      BY <1>1, <2>3
    <3>3. /\ staged'[run.name] \in Files /\ staged'[run.name].of = {run.tag}
          /\ staged'[run.name].cut = FALSE /\ staged'[run.name].open = {}
      BY <1>1, <3>1, <3>2, WrittenOK
    <3>. QED
      BY <3>3 DEF Files, FileOf
  <2>5. \A n \in Binaries : n # run.name => staged'[n] = staged[n] /\ staged[n].open = {}
    BY <1>3, <1>7 DEF Undisturbed
  <2>6. "memmux" \in Binaries
    BY DEF Binaries
  <2>. QED
    BY <1>2, <1>7, <2>1, <2>2, <2>4, <2>5, <2>6, FilesOK, <2>3 DEF Undisturbed
<1>8. ASSUME run.alone, Undisturbed(u), excuses' = {}
      PROVE  \/ installed'["memmux"] = installed'["memmuxd"]
             \/ Updating(u)' /\ updates'[u].name = "memmuxd"
  <2>1. \A v \in Updaters : Updating(v) => v = u
    BY <1>8 DEF Undisturbed
  <2>2. "memmux" \in Binaries /\ "memmuxd" \in Binaries
    BY DEF Binaries
  <2>. QED
    BY <1>1, <1>2, <1>6, <1>7, <1>8, <2>1, <2>2 DEF UpdateInv
<1>9. ASSUME run.alone, Undisturbed(u), "crossed" \notin excuses' PROVE \A n \in Binaries : Whole(installed[n])'
  BY <1>1, <1>7, <1>9 DEF UpdateInv, Whole
<1>10. ~run.alone => "crossed" \in excuses'
  BY <1>1, RunOK
<1>. QED
  BY <1>1, <1>2, <1>4, <1>5, <1>7, <1>8, <1>9, <1>10, RunKeeps

LEMMA FailKeeps == ASSUME UpdateInv, NEW u \in Updaters, UpdateFails(u) PROVE UpdateInv'
<1>. DEFINE run == updates[u]
<1>1. /\ Updating(u) /\ released' = released
      /\ installed' = [n \in Binaries |-> Cut(installed[n], u)]
      /\ staged' = [n \in Binaries |-> Cut(staged[n], u)]
      /\ updates' = [updates EXCEPT ![u] = NoUpdate]
      /\ excuses' = IF run.name = "memmuxd" THEN excuses \cup {"torn"} ELSE excuses
  BY DEF UpdateFails
<1>2. updates'[u] = NoUpdate /\ ~Updating(u)' /\ \A v \in Updaters : v # u => updates'[v] = updates[v]
  BY <1>1 DEF UpdateInv, UpdateTypeOK, Updating, NoUpdate
<1>3. \A n \in Binaries :
        /\ installed'[n] \in Files /\ staged'[n] \in Files
        /\ installed'[n].open = installed[n].open \ {u} /\ staged'[n].open = staged[n].open \ {u}
        /\ installed'[n].of \subseteq 1..released /\ staged'[n].of \subseteq 1..released
        /\ u \notin installed[n].open => installed'[n] = installed[n]
  BY <1>1, FileTyped, WrittenOK
<1>4. UpdateTypeOK'
  <2>1. NoUpdate \in [step : {"none", "stage", "copy", "rename"}, name : Binaries,
                      tag : 1..Latest, pinned : BOOLEAN, alone : BOOLEAN]
    BY UpdateAssumption DEF NoUpdate, Binaries
  <2>. QED
    BY <1>1, <1>3, <2>1 DEF UpdateInv, UpdateTypeOK
<1>5. \A n \in Binaries : WritersOK(installed[n])' /\ WritersOK(staged[n])'
  <2>. TAKE n \in Binaries
  <2>1. \A v \in Updaters : v # u /\ updates[v].step = "copy" => updates'[v].step = "copy"
    BY <1>2
  <2>2. installed[n].open \subseteq Updaters /\ staged[n].open \subseteq Updaters
    BY FileTyped DEF Files
  <2>. QED
    BY <1>1, <1>3, <2>1, <2>2, FileTyped DEF WritersOK
<1>6. ASSUME Undisturbed(u) PROVE \A n \in Binaries : installed'[n] = installed[n]
  BY <1>3, <1>6 DEF Undisturbed
<1>7. ASSUME run.alone, Undisturbed(u), excuses' = {} PROVE installed'["memmux"] = installed'["memmuxd"]
  <2>1. \A v \in Updaters : Updating(v) => v = u
    BY <1>7 DEF Undisturbed
  <2>2. "memmux" \in Binaries /\ "memmuxd" \in Binaries /\ run.name # "memmuxd" /\ excuses = {}
    BY <1>1, <1>7 DEF Binaries
  <2>. QED
    BY <1>6, <1>7, <2>1, <2>2 DEF UpdateInv
<1>8. ASSUME run.alone, Undisturbed(u), "crossed" \notin excuses' PROVE \A n \in Binaries : Whole(installed[n])'
  BY <1>1, <1>6, <1>8 DEF UpdateInv, Whole
<1>9. ~run.alone => "crossed" \in excuses'
  BY <1>1, RunOK
<1>. QED
  BY <1>1, <1>2, <1>4, <1>5, <1>7, <1>8, <1>9, RunKeeps

LEMMA RenameKeeps == ASSUME UpdateInv, NEW u \in Updaters, RenameBinary(u) PROVE UpdateInv'
<1>. DEFINE run  == updates[u]
            name == run.name
            next == IF name = "memmux" THEN [run EXCEPT !.step = "stage", !.name = "memmuxd"] ELSE NoUpdate
<1>1. /\ run.step = "rename" /\ Updating(u) /\ released' = released
      /\ installed' = [installed EXCEPT ![name] = staged[name]]
      /\ staged' = [staged EXCEPT ![name] = NoFile]
      /\ updates' = [updates EXCEPT ![u] = next]
      /\ excuses' = IF name = "memmuxd" /\ run.alone THEN {} ELSE excuses
  BY DEF RenameBinary, Updating
<1>2. /\ name \in Binaries /\ "memmux" \in Binaries /\ "memmuxd" \in Binaries
      /\ name # "memmux" => name = "memmuxd"
      /\ run.tag \in 1..Latest
  BY RunOK DEF Binaries
<1>3. /\ updates'[u] = next /\ \A v \in Updaters : v # u => updates'[v] = updates[v]
      /\ name = "memmux" => /\ updates'[u].step = "stage" /\ updates'[u].name = "memmuxd"
                            /\ updates'[u].tag = run.tag /\ Updating(u)'
                            /\ (updates'[u].alone <=> run.alone) /\ (updates'[u].pinned <=> run.pinned)
      /\ name = "memmuxd" => ~Updating(u)'
  <2>1. updates'[u] = next /\ \A v \in Updaters : v # u => updates'[v] = updates[v]
    BY <1>1 DEF UpdateInv, UpdateTypeOK
  <2>2. name = "memmux" => next = [run EXCEPT !.step = "stage", !.name = "memmuxd"]
    OBVIOUS
  <2>3. name = "memmuxd" => next.step = "none"
    BY DEF NoUpdate
  <2>. HIDE DEF next
  <2>. QED
    BY <1>2, <2>1, <2>2, <2>3, RunOK DEF Updating
<1>4. /\ installed'[name] = staged[name] /\ staged'[name] = NoFile
      /\ \A n \in Binaries : n # name => installed'[n] = installed[n] /\ staged'[n] = staged[n]
  BY <1>1, <1>2 DEF UpdateInv, UpdateTypeOK
<1>5. UpdateTypeOK'
  <2>1. next \in [step : {"none", "stage", "copy", "rename"}, name : Binaries,
                  tag : 1..Latest, pinned : BOOLEAN, alone : BOOLEAN]
    <3>1. run \in [step : {"none", "stage", "copy", "rename"}, name : Binaries,
                   tag : 1..Latest, pinned : BOOLEAN, alone : BOOLEAN]
      BY RunOK
    <3>2. NoUpdate \in [step : {"none", "stage", "copy", "rename"}, name : Binaries,
                        tag : 1..Latest, pinned : BOOLEAN, alone : BOOLEAN]
      BY UpdateAssumption DEF NoUpdate, Binaries
    <3>3. [run EXCEPT !.step = "stage", !.name = "memmuxd"]
            \in [step : {"none", "stage", "copy", "rename"}, name : Binaries,
                 tag : 1..Latest, pinned : BOOLEAN, alone : BOOLEAN]
      BY <1>2, <3>1
    <3>. QED
      BY <3>2, <3>3
  <2>. HIDE DEF next
  <2>. QED
    BY <1>1, <1>2, <2>1, FilesOK DEF UpdateInv, UpdateTypeOK
<1>6. \A n \in Binaries : WritersOK(installed[n])' /\ WritersOK(staged[n])'
  <2>. TAKE n \in Binaries
  <2>1. \A v \in Updaters : updates[v].step = "copy" => updates'[v].step = "copy"
    BY <1>1, <1>3
  <2>2. /\ installed[n].open \subseteq Updaters /\ staged[n].open \subseteq Updaters
        /\ staged[name].open \subseteq Updaters
    BY <1>2, FileTyped DEF Files
  <2>3. NoFile.open = {} /\ NoFile.of = {}
    BY DEF NoFile, Emptied
  <2>. QED
    BY <1>1, <1>2, <1>4, <2>1, <2>2, <2>3, FileTyped DEF WritersOK
<1>7. ASSUME Undisturbed(u) PROVE staged[name] = FileOf(run.tag) /\ installed'[name] = FileOf(run.tag)
  BY <1>1, <1>4, <1>7 DEF Undisturbed
<1>8. ASSUME Undisturbed(u), name = "memmuxd" PROVE \A n \in Binaries : installed'[n] = FileOf(run.tag)
  <2>1. installed["memmux"] = FileOf(run.tag)
    BY <1>8 DEF Undisturbed
  <2>. QED
    BY <1>4, <1>7, <1>8, <2>1 DEF Binaries
<1>9. ASSUME run.alone, Undisturbed(u), Updating(u)' PROVE Undisturbed(u)'
  <2>1. name = "memmux"
    BY <1>2, <1>3, <1>9
  <2>2. \A v \in Updaters : Updating(v)' => v = u
    BY <1>3, <1>9 DEF Undisturbed, Updating
  <2>3. \A n \in Binaries : n # name => staged'[n].open = {} /\ installed'[n] = installed[n]
    BY <1>1, <1>4, <1>9 DEF Undisturbed
  <2>4. staged'[name].open = {}
    BY <1>4 DEF NoFile, Emptied
  <2>5. FileOf(run.tag).open = {} /\ FileOf(run.tag).of = {run.tag} /\ run.tag \in 1..run.tag
    BY <1>2, FilesOK
  <2>6. \A n \in Binaries : installed'[n].open = {} /\ (~run.pinned => installed'[n].of \subseteq 1..run.tag)
    BY <1>4, <1>7, <1>9, <2>3, <2>5 DEF Undisturbed
  <2>. QED
    BY <1>3, <1>7, <1>9, <2>1, <2>2, <2>3, <2>4, <2>6 DEF Undisturbed
<1>10. ASSUME run.alone, Undisturbed(u), "crossed" \notin excuses' PROVE \A n \in Binaries : Whole(installed[n])'
  <2>1. CASE name = "memmuxd"
    <3>1. \A n \in Binaries : Whole(installed'[n])
      BY <1>2, <1>8, <1>10, <2>1, FilesOK
    <3>. QED
      BY <3>1 DEF Whole
  <2>2. CASE name = "memmux"
    <3>1. \A n \in Binaries : Whole(installed'[n])
      BY <1>1, <1>2, <1>4, <1>7, <1>10, <2>2, FilesOK DEF UpdateInv
    <3>. QED
      BY <3>1 DEF Whole
  <2>. QED
    BY <1>2, <2>1, <2>2
<1>11. ASSUME run.alone, Undisturbed(u), excuses' = {}
       PROVE  \/ installed'["memmux"] = installed'["memmuxd"]
              \/ Updating(u)' /\ updates'[u].name = "memmuxd"
  BY <1>2, <1>3, <1>8, <1>11
<1>12. ~run.alone => "crossed" \in excuses'
  BY <1>1, RunOK
<1>13. Updating(u)' => updates'[u].tag = run.tag /\ (updates'[u].alone <=> run.alone)
  BY <1>2, <1>3
<1>. QED
  BY <1>1, <1>3, <1>5, <1>6, <1>9, <1>10, <1>11, <1>12, <1>13, RunKeeps

LEMMA UpdateStepOK == UpdateInv /\ [UpdateNext]_updateVars => UpdateInv'
<1>. SUFFICES ASSUME UpdateInv, [UpdateNext]_updateVars PROVE UpdateInv'
  OBVIOUS
<1>1. ASSUME UNCHANGED updateVars PROVE UpdateInv'
  <2>1. UNCHANGED <<released, installed, staged, updates, excuses>>
    BY <1>1 DEF updateVars
  <2>2. UpdateTypeOK'
    BY <2>1 DEF UpdateInv, UpdateTypeOK
  <2>3. /\ \A n \in Binaries : WritersOK(installed[n])' /\ WritersOK(staged[n])'
        /\ \A n \in Binaries : Whole(installed[n]) => Whole(installed[n])'
    BY <2>1 DEF UpdateInv, WritersOK, Whole
  <2>4. \A u \in Updaters : (Updating(u)' <=> Updating(u)) /\ (Undisturbed(u) => Undisturbed(u)')
    BY <2>1 DEF Updating, Undisturbed
  <2>. QED
    BY <2>1, <2>2, <2>3, <2>4 DEF UpdateInv
<1>. QED
  BY <1>1, ReleaseKeeps, BeginKeeps, StageKeeps, CopyKeeps, RenameKeeps, FailKeeps DEF UpdateNext

(* The files, the releases and the updates under way stay of their types   *)
(* (update.rs, run_update).                                                *)
THEOREM UpdateTypeCorrect == UpdateSpec => []UpdateTypeOK
<1>1. UpdateInv => UpdateTypeOK
  BY DEF UpdateInv
<1>. QED
  BY UpdateInitOK, UpdateStepOK, <1>1, PTL DEF UpdateSpec

(* Updates are atomic (update.rs, swap_binaries) as long as they do not    *)
(* cross: for any number of updaters, releases, failures and copies left   *)
(* behind, each installed binary is then a whole copy of one release, the  *)
(* two differ only after an update failed between them, an undisturbed     *)
(* update that picks its release takes nobody back, and one that goes      *)
(* through makes up for all before.                                        *)
THEOREM UpdatesAreAtomic == UpdateSpec => []InstallsAreWhole
<1>1. UpdateInv => InstallsAreWhole
  BY DEF UpdateInv, InstallsAreWhole, Undisturbed
<1>. QED
  BY UpdateInitOK, UpdateStepOK, <1>1, PTL DEF UpdateSpec

=============================================================================
