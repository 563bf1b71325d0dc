---------------------------- MODULE RepositoryLock ----------------------------
(***************************************************************************)
(* Creating the worktrees of tasks in one repository.  Creation is         *)
(* serialised between processes by a lock file made with exclusive create; *)
(* whoever cannot get it in time, or whose `git worktree add` fails, runs  *)
(* the task in the repository itself.  Nothing takes the lock to remove a  *)
(* worktree, and nothing removes the file a dead process left behind.      *)
(***************************************************************************)
EXTENDS Naturals, FiniteSets

CONSTANTS
  Creators,      \* daemon processes that serve the same root
  Branches,      \* one task each: its slug names both branch and directory
  NoLock, Stale  \* the lock file: absent, or left by a process that died

ASSUME LockAssumption == NoLock \notin Creators /\ Stale \notin Creators /\ NoLock # Stale

VARIABLES
  lockFile,    \* NoLock, Stale, or the creator that made it
  creating,    \* per creator: the branch it is creating, and how far it is
  handles,     \* DaemonState::worktrees of each creator
  branches,    \* the branches memmux/<slug> that exist
  directory,   \* per branch: its worktree directory
  launchedIn   \* per branch: where its task was launched last

lockVars == <<lockFile, creating, handles, branches, directory, launchedIn>>

NotCreating == [step |-> "none", branch |-> {}]

LockTypeOK ==
  /\ lockFile \in Creators \cup {NoLock, Stale}
  /\ creating \in [Creators -> [step : {"none", "wait", "add", "release", "giveUp"},
                                branch : SUBSET Branches]]
  /\ handles \in [Creators -> SUBSET Branches] /\ branches \subseteq Branches
  /\ directory \in [Branches -> {"absent", "clean", "dirty"}]
  /\ launchedIn \in [Branches -> {"nowhere", "worktree", "repository"}]

LockInit ==
  /\ lockFile = NoLock /\ creating = [c \in Creators |-> NotCreating]
  /\ handles = [c \in Creators |-> {}] /\ branches = {}
  /\ directory = [b \in Branches |-> "absent"]
  /\ launchedIn = [b \in Branches |-> "nowhere"]

Stands(c, step)  == creating[c].step = step
Moves(c, step) == creating' = [creating EXCEPT ![c].step = step]
Launches(bs, where) ==
  launchedIn' = [b \in Branches |-> IF b \in bs THEN where ELSE launchedIn[b]]

-----------------------------------------------------------------------------
(* A handle from an earlier launch is used as it is.                       *)
ReuseWorktree(c, b) ==
  /\ Stands(c, "none") /\ b \in handles[c]
  /\ Launches({b}, "worktree")
  /\ UNCHANGED <<lockFile, creating, handles, branches, directory>>

(* Otherwise create: the repository and the base branch are looked at      *)
(* before the lock is asked for.                                           *)
BeginCreate(c, b) ==
  /\ Stands(c, "none") /\ b \notin handles[c]
  /\ \/ /\ creating' = [creating EXCEPT ![c] = [step |-> "wait", branch |-> {b}]]
        /\ UNCHANGED launchedIn
     \/ /\ Launches({b}, "repository")
        /\ UNCHANGED creating
  /\ UNCHANGED <<lockFile, handles, branches, directory>>

(* try_acquire: O_CREAT | O_EXCL.                                          *)
TryAcquire(c) ==
  /\ Stands(c, "wait") /\ lockFile = NoLock
  /\ lockFile' = c /\ Moves(c, "add")
  /\ UNCHANGED <<handles, branches, directory, launchedIn>>

(* Takes over a lock that is held for too long.                            *)
StealLock(c) ==
  /\ Stands(c, "wait") /\ lockFile # NoLock
  /\ lockFile' = c /\ Moves(c, "add")
  /\ UNCHANGED <<handles, branches, directory, launchedIn>>

(* Polls as long as somebody has the lock.                                 *)
PollForever(c) ==
  /\ Stands(c, "wait") /\ lockFile # NoLock
  /\ UNCHANGED lockVars

(* acquire: the deadline passes with the file still there.                 *)
TimeOut(c) ==
  /\ Stands(c, "wait") /\ lockFile # NoLock
  /\ creating' = [creating EXCEPT ![c] = NotCreating]
  /\ Launches(creating[c].branch, "repository")
  /\ UNCHANGED <<lockFile, handles, branches, directory>>

(* `git worktree add -b`: refuses a branch or a directory that exists.     *)
AddWorktree(c) ==
  LET new == creating[c].branch IN
  /\ Stands(c, "add")
  /\ \/ /\ new \cap branches = {} /\ \A b \in new : directory[b] = "absent"
        /\ branches' = branches \cup new
        /\ directory' = [b \in Branches |-> IF b \in new THEN "clean" ELSE directory[b]]
        /\ Moves(c, "release")
     \/ /\ Moves(c, "giveUp")
        /\ UNCHANGED <<branches, directory>>
  /\ UNCHANGED <<lockFile, handles, launchedIn>>

(* The guard's drop removes the file; ensure_worktree keeps the handle, or *)
(* falls back to the repository.                                           *)
ReleaseLock(c) ==
  /\ Stands(c, "release") \/ Stands(c, "giveUp")
  /\ lockFile' = NoLock
  /\ creating' = [creating EXCEPT ![c] = NotCreating]
  /\ \/ /\ Stands(c, "release")
        /\ handles' = [handles EXCEPT ![c] = @ \cup creating[c].branch]
        /\ Launches(creating[c].branch, "worktree")
     \/ /\ Stands(c, "giveUp")
        /\ Launches(creating[c].branch, "repository")
        /\ UNCHANGED handles
  /\ UNCHANGED <<branches, directory>>

(* cleanup_worktree: the handle goes, a clean directory too unless git     *)
(* refuses; the branch stays.                                              *)
RemoveWorktree(c, b) ==
  /\ Stands(c, "none") /\ b \in handles[c]
  /\ handles' = [handles EXCEPT ![c] = @ \ {b}]
  /\ \/ directory[b] # "dirty" /\ directory' = [directory EXCEPT ![b] = "absent"]
     \/ UNCHANGED directory
  /\ UNCHANGED <<lockFile, creating, branches, launchedIn>>

(* The provider writes and commits in the directory.                       *)
ProviderWrites(b) ==
  /\ directory[b] # "absent"
  /\ directory' = [directory EXCEPT ![b] = IF @ = "clean" THEN "dirty" ELSE "clean"]
  /\ UNCHANGED <<lockFile, creating, handles, branches, launchedIn>>

(* The process dies: no guard is dropped, no handle survives.  A new       *)
(* process may take its place.                                             *)
CreatorDies(c) ==
  /\ lockFile' = IF lockFile = c THEN Stale ELSE lockFile
  /\ creating' = [creating EXCEPT ![c] = NotCreating]
  /\ handles' = [handles EXCEPT ![c] = {}]
  /\ UNCHANGED <<branches, directory, launchedIn>>

CreateStep(c) == TryAcquire(c) \/ TimeOut(c) \/ AddWorktree(c) \/ ReleaseLock(c)

LockNext ==
  \/ \E c \in Creators :
       \/ CreateStep(c) \/ CreatorDies(c)
       \/ \E b \in Branches : ReuseWorktree(c, b) \/ BeginCreate(c, b) \/ RemoveWorktree(c, b)
  \/ \E b \in Branches : ProviderWrites(b)

LockSpec == LockInit /\ [][LockNext]_lockVars

(* A creation under way goes on: acquire polls until its deadline.         *)
LockFairness == \A c \in Creators : WF_lockVars(CreateStep(c))

-----------------------------------------------------------------------------
(* Properties.                                                             *)

Mutating(c) == creating[c].step \in {"add", "release", "giveUp"}

(* Two processes never change the repository's worktrees at the same time, *)
(* whoever dies or gives up in between.                                    *)
OneMutator == \A c, d \in Creators : Mutating(c) /\ Mutating(d) => c = d

(* Every creation comes to an end, also with a lock file nobody will ever  *)
(* remove: the daemon, which waits with its own lock held, answers again.  *)
CreationEnds == \A c \in Creators : (creating[c].step # "none") ~> (creating[c].step = "none")

(* A lock file left behind by a dead process ends isolation for good: no   *)
(* worktree is added to the repository any more.                           *)
StaleLockEndsIsolation ==
  [][lockFile = Stale => lockFile' = Stale /\ branches' = branches]_lockVars

=============================================================================
