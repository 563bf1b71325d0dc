# MemMux in TLA+

Models, model-checking runs and proofs for MemMux: a daemon (`memmuxd`) that
runs AI coding agents ("providers") in PTYs under a memory budget, freezes and
recycles them under pressure, isolates each in a git worktree, and survives its
own restarts from a SQLite store. Paths below are relative to `src/crates/`.

## 1. The system

| Component | State it keeps | Operations | Source |
|---|---|---|---|
| Daemon state | task registry, runtimes, reservations ledger, admission queue with reasons, worktree handles, samples, pressure stage | 8 requests that drive tasks, `pump`, boot | `memmuxd/src/daemon.rs` |
| Server | one `Mutex<DaemonState>`, connections, 100 ms pump timer, attach streams | accept, handle, pump, attach | `memmuxd/src/server.rs` |
| Store | rows for tasks, transitions, checkpoints, events, decisions, samples, workspaces | upsert, append, load, delete | `memmux-store/src/lib.rs` |
| Lifecycle | task state and history | `transition`, `allowed_next` | `memmux-core/src/{state,runtime}.rs` |
| Scheduler | none (pure) | class priors, score, plan, classify, actions | `memmux-sched/src/*.rs` |
| Checkpoints | artifact with integrity hash | capture, verify, `assess` | `memmux-lifecycle/src/*.rs` |
| Worktrees | branches, directories, lock files | create, complete, remove | `memmux-worktree/src/*.rs` |
| Providers and PTYs | child process, reader thread, screen, capture ring, attach buffer | spawn, pump, stop, resize | `memmux-adapters`, `memmux-pty` |
| Scrollback | chunk files, pending tail | append, flush, read | `memmux-pty/src/chunkstore.rs` |
| Process metrics | process snapshots | trees, attribution, escape sweep, terminate | `memmux-metrics/src/*.rs` |
| Clients | socket, pane and selection state | requests, attach, `ensure_daemon` | `memmux/src/*.rs` |
| Benchmark | none in the product | drives the daemon from outside | `memmux-bench/src/*.rs` |

**How they interact.** Clients send framed requests. Each is handled start to
end under the one mutex; a timer takes the same mutex every 100 ms for `pump`,
which retires dead providers, samples memory, classifies pressure and runs the
stage's actions, recycles bloated providers, and plans admission. Handlers call
the pure scheduler, spawn providers through adapters, and write the store
statement by statement. Providers run, write into their worktrees and exit
concurrently with everything. After a crash the rows and the disk are all that
is left.

**What is hard, and what makes each part correct.**

- *Five paths launch a provider* (admission, restart, resume, recycle and its
  native fallback) and six take one down. Runtimes, reservations, worktree
  handles and task states must stay in step over all of them:
  `LiveIsReserved`, `LeaksOnlyByFailedRecycle`, `CheckpointSeesTheWork`.
- *Checkpoint before stop.* A provider may only be frozen once the checkpoint
  is on disk, and the write can fail half-way: `HibernatedIsRestorable`.
- *Crash between any two steps, and between any two statements of the store*:
  `HibernatedIsRestorable`, `TerminatedIsFinal`, `DirtyWorkSurvives`,
  `BootsAreSound`, `HistoryIsAppendOnly`.
- *Destructive pressure actions* run over several steps of one pump:
  `LadderSparesWork`, `LowPriorityIsHeld`.
- *Admission arithmetic*: `AdmissionFitsBudget`, `PlanIsFair`.
- *Waiting*: `DeferralIsExplained`, `HeadroomIsUsed`, `ExitedIsRetired`,
  `DaemonBlocksOnlyOnTerminal`, `CreationEnds`, `ExitReachesClient`.
- *Processes the daemon does not own any more*: pids are reused, descendants
  leave the tree, and a snapshot is read pid by pid: `VictimsWereOwned`,
  `LeaksAreExplained`, `SnapshotsAreExplained`.
- *Output on its way to a screen* is cut, governed, shared between clients and
  dropped when a buffer is full: `LinesAreFaithful`, `CaptureIsAccounted`,
  `DropsAreAnnounced`, `StreamIsFaithful`, `TornFrameEndsTheStream`, `PageIsExact`.
- *Several processes on one repository or one socket*: `OneMutator`,
  `WorkIsKept`, `TwoDaemonsAreARace`, `StartLeadsToService`, `InstallsAreWhole`.
- *A client talks in several calls*, any of which may be lost after it was
  executed: `CallsAreTruthful`, `DashboardIsExplained`.
- *The screen's own state* (focus, selection, groups, panes, sessions):
  `ScreenIsCoherent`, `PanesTile`.
- *A benchmark that must not flatter itself or leave processes behind*:
  `StraysAreExplained`, `CreditsAreDue`, `RunMatchesSimulation`.

`PROJECT.json` lists every hazard with its line and its properties.

## 2. Modules

```
TaskLifecycle   Admission   PressureLadder          pure operators
     |     \        |    \        /
 TaskStore  \       |     \      /  AdmissionQueue (the planner on its own queue)
             MemMuxDaemon <- DaemonJoins <- MCDaemonJoins
                          <- MCDaemon, MemMuxDaemonProofs

 MCTerminal:  OutputCapture  LineSplitter  ScrollbackStore (refines AppendOnlyLog)
              AttachStream  TuiClient
 MCHost:      ProcessOwnership  RepositoryLock  DaemonSupervision
 MCTools:     AdmissionQueue  WorktreeCompletion  PaneTree (over SidebarLayout)
              BenchVerdict (over Benchmark)  RequestProtocol  StubAgent
              ProcessAccounting  TaskStore  SelfUpdate

 Proofs:      FoldLemmas (induction, folds over sequences and sets, iteration,
                          sums over sets that do not meet)
              AdmissionProofs (over FoldLemmas)
              MemMuxDaemonProofs (over AdmissionProofs)
              HostProofs (RepositoryLock, WorktreeCompletion, TaskStore,
                          DaemonSupervision, SelfUpdate)
              TerminalProofs (OutputCapture, LineSplitter, ScrollbackStore,
                              AttachStream, SidebarLayout, TuiClient; over FoldLemmas)
              ProcessOwnershipProofs (ProcessOwnership, ProcessAccounting; over FoldLemmas)
              BenchmarkProofs (Benchmark, StubAgent; over FoldLemmas)
              RequestProtocolProofs
```

`MCTerminal`, `MCHost` and `MCTools` each put several components into one run.
These share no state, so exploring their product would only multiply: the
initial state picks the part that takes steps, and the others stay where they
started.

| Module | Models | State and actions against the code |
|---|---|---|
| `TaskLifecycle` | `memmux-core/src/{state,runtime}.rs`, the handlers' walks | `allowed_next`, `Task::transition`. Every handler says `if let Ok(t) = task.transition(..)`, so an illegal move is skipped and the walk goes on; `Transition` models that. `ForceRequeue` is the six-round search of `force_requeue`; `AtSafePoint` is `assess` on the snapshots the daemon builds |
| `Admission` | `memmux-sched/src/{classes,envelope,score}.rs` | class priors as whole MiB (`PeakOf`), the score of the default weights scaled to integers by the positive age resolution times the budget (the order is that of the floats up to their rounding), `plan_admission` as a fold over the candidates in the order of its sort (`InOrder`: in place *k* the one that *k - 1* others precede) |
| `PressureLadder` | `memmux-sched/src/{envelope,pressure}.rs` | stages, `classify` with percentages as integer comparisons, `actions` |
| `MemMuxDaemon` | `memmuxd/src/daemon.rs` | see below |
| `DaemonJoins` | `PtySession::drop` (`memmux-pty/src/session.rs`) under the mutex | `MemMuxDaemon` whose mutex holder may have to wait for a reader thread at every drop of a session: terminate, hibernate, recycle, the retirement and the ladder. A wait that begins has already killed the provider; the rest of the handler is the step that ends it |
| `TaskStore` | `memmux-store/src/lib.rs`, the writes of every handler | a handler's statements one at a time, each may fail; ignored failures go on, the daemon may die between any two; a boot reads what is there |
| `OutputCapture` | `memmux-pty/src/{capture,governance,line,ring,truncate}.rs` | the governor's window, sampling and quota, then the ring with collapsing and eviction by count and bytes |
| `LineSplitter` | `RuntimeInstance::pump` of `memmux-adapters/src/runtime.rs` into `CaptureBuffer::ingest` of `memmux-pty/src/capture.rs` | output as bytes; `String::from_utf8_lossy` of each chunk on its own (`Lossy`), so that a character cut by the end of a chunk is replaced; the text cut at LF, CR and CR LF; the oversize flush, counted in bytes of text |
| `ScrollbackStore` | `memmux-pty/src/chunkstore.rs` | buffer, chunk files with failing writes, paging, a new store over old files after a restart |
| `AttachStream` | `memmuxd/src/server.rs` attach loop, `frame.rs`, the tee in `daemon.rs` | terminal, reader, tee buffer with its cap, the join of the reader under the mutex (`joining`), clients that attach, poll, send frames half by half and end |
| `TuiClient` | `memmux/src/{app,pane,main}.rs` | keys and clicks to their end, fetches, panes per group, attach sessions |
| `PaneTree`, `SidebarLayout` | `memmux/src/{app,render}.rs` | split, close, resize, move the focus over the rectangles, without the zoom, which draws one pane alone and changes no layout; the sidebar's rows |
| `ProcessOwnership` | `daemon.rs` terminate/reap/reclaim, `memmux-metrics/src/{terminate,tree}.rs`, `memmux-pty/src/session.rs` | pids with parent, true owner and terminal; stop, reap and reclaim as sequences of steps between which processes fork and exit. `unnoticed` are the pids whose process of a task ended since the last sample that would have missed it |
| `ProcessAccounting` | `memmux-metrics/src/platform/linux.rs`, `{attribution,sample,sweep,tree}.rs` | the walk of `/proc` pid by pid while processes fork and exit, and what is read off the torn snapshot |
| `RepositoryLock` | `memmux-worktree/src/{lock,worktree}.rs` | exclusive create, polling to a deadline, `git worktree add`, release; a process that dies leaves the file |
| `WorktreeCompletion` | `memmux-worktree/src/worktree.rs` `complete` | one action per git command; providers keep writing, two completions interleave in one checkout |
| `DaemonSupervision` | `memmux/src/supervisor.rs`, `memmuxd/src/server.rs` | probe, spawn, wait; boot, unlink, bind, serve |
| `SelfUpdate` | `memmux/src/update.rs` | per binary: the copy is opened (emptied), written and renamed; several updates at a time, each of which may fail or die anywhere, under the two staged names they share |
| `RequestProtocol` | `memmux/src/client.rs`, `server.rs`, the calls of a refresh and of a launch | a connection step by step: dial, send, handle, answer, read; faults anywhere; a daemon that dies and boots |
| `AdmissionQueue` | `plan_admission` against what a pass should achieve | arrivals, ageing, headroom |
| `Benchmark`, `BenchVerdict`, `StubAgent` | `memmux-bench/src/*.rs` | trials under each launcher, teardown, kills that may fail unseen (`kill -9`, `tmux kill-server`); rows and gates; a script simulated and executed |

### The daemon's model

*State.* `task`, `runtimes`, `reservations`, `pending`, `reasons`, `worktrees`,
`samples`, `used`, `stage` are the fields of `DaemonState` of the same meaning,
as functions and sets over task ids. `stored`, `checkpoint` and `tree` are the
disk: the state in a task's row, its checkpoint row with its artifact (`fresh`
from the last provider, `stale` since a provider was launched after it, `torn`
when row and artifact disagree), and its worktree directory. `alive` and
`inTree` say which runtimes have a running process and which of those work in
their task's worktree.

*Steps.* A request handler is one action: it holds the mutex from its first to
its last line. `StartTask` is the exception; it ends in an admission pass,
which is shared with `pump`. `pump` is a sequence of actions that keeps the
mutex (`phase` is not `"free"`), so that a provider may exit or write between
any two of them and a crash may cut it anywhere:

| `phase` | Action | Code |
|---|---|---|
| free | `PumpBegin` collects the dead | `pump` 1314-1324 |
| retire | `RetireExited(t)`, then `SampleTick` | 1325-1353, `sample_tick` |
| pressure | `PressureTick` | `pressure_tick` |
| ladder | one action per `PressureAction`, `LadderDone` | `apply_pressure_stage` |
| triggers, recycle | `RecycleTriggers`, `RecycleTriggered(t)`, `RecycleDone` | `check_recycle_triggers` |
| admit | `AdmitPass` | `try_admit_pending` |
| launch | `LaunchAdmitted(t)` | `try_admit_pending`, `launch_queued` |

*Choices left open.* Which providers are over their recycle threshold (any
subset of the live ones), which sample is largest, what a sampling tick measures
(`UsedLevels`), whether swap grows, whether a throttled tick is due, the ages
the score sees (any assignment in which an older task is never younger), the
order of launches inside one pass, and whether a spawn, a relaunch, a
checkpoint write, a `git worktree add` or a `git worktree remove` fails.

*Abstractions.* Store writes other than `persist_checkpoint` are taken to
succeed (the daemon ignores their errors with `let _ =`), and a request handler
reaches the disk at once; `TaskStore` has the same handlers statement by
statement, with failures and deaths in between. A request that the code refuses, and a resume that fails, change nothing
and are not steps. Providers are gone when the daemon has crashed: their PTYs
close. The `force_requeue` failure branch of `restart` is unreachable because no row ever
rests in `Terminating`. Titles, audit records, events, histories, attach
streams and process trees are in modules of their own or left out. Files a repository ignores do
not make a worktree dirty, in git as in the model.

## 3. Runs

| Run | Instance | Shows |
|---|---|---|
| `daemon_core` | 2 tasks, 2 kinds of request, budget 1500 MiB, one crash | ledger, worktrees, queue and disk stay consistent, over a crash too: `TypeOK`, `LiveIsReserved`, `LeaksOnlyByFailedRecycle`, `CheckpointSeesTheWork`, `DeferralIsExplained`, `HibernatedIsRestorable`, `AdmissionFitsBudget`, `DirtyWorkSurvives`, `TerminatedIsFinal` |
| `daemon_pressure` | the same without a crash, usage at Normal, High and above the hard limit, swap growing or not: all five stages | the ladder and the hold: `LowPriorityIsHeld`, `LadderSparesWork` |
| `daemon_live` | `MCDaemonJoins`, 2 equal tasks, `JoinsSpec`, one life of the daemon (a crash empties the slots and the queue) | nothing waits for good while joins return: `ExitedIsRetired`, `HeadroomIsUsed` |
| `terminal` | `MCTerminal` | output from the provider to the panes: `CaptureIsAccounted`, `DropsAreAnnounced`, `LinesAreFaithful`, `PageIsExact`, `HistoryIsAppendOnly`, `StreamIsFaithful`, `TornFrameEndsTheStream`, `ExitReachesClient`, `ScreenIsCoherent` |
| `host` | `MCHost` | processes, repository, socket: `LeaksAreExplained`, `VictimsWereOwned`, `DaemonBlocksOnlyOnTerminal`, `OneMutator`, `CreationEnds`, `TwoDaemonsAreARace`, `StartLeadsToService` |
| `tools` | `MCTools` | planner, completions, tiling, requests, benchmark, snapshots of processes, tables, updates: `PlanIsFair`, `WorkIsKept`, `PanesTile`, `CallsAreTruthful`, `DashboardIsExplained`, `StraysAreExplained`, `CreditsAreDue`, `RunMatchesSimulation`, `SnapshotsAreExplained`, `BootsAreSound`, `InstallsAreWhole` |

**Bounds.** The daemon's runs use two tasks (one where one is enough): every
property relates at most two tasks, and two requests of 580 and 1320 MiB do not
fit the 1500 MiB budget together, so admission has to choose, defer and come
back. One crash reaches every mixture of an old disk and an empty memory; a
second starts from a state a first can already produce. `AgeUnit` (in the
planner's own queue `AgeSteps`) is the resolution of ages, `UsedLevels` the values a sample may take.

- *Capture*: 6 lines of three shapes (one oversized) at 3 clock readings, a ring
  of 2 lines and 56 bytes, a quota of 16, a rate threshold of 2 with every third
  line kept: sampling, quota, both evictions and collapsing all happen and can
  happen together.
- *Splitter*: 5 bytes in chunks of at most 2, cap 3: every terminator and every
  character of two bytes falls on every chunk boundary, and a run outgrows the cap.
- *Scrollback*: chunks of 2 rows, batches of 1 and 3 rows, 5 rows, 2 failing
  writes, 1 restart: full and partial chunks, a batch over two chunks.
- *Attach*: 2 clients, 2 launches, 2 chunks of output, a tee of 1 chunk, 1 typed
  frame: sharing, overflow, a stop and a relaunch under an open attachment.
- *Panes*: 2 agents in 2 repositories, 6 keys, 1 outside change, three starts.
- *Processes*: 1 task, 3 pids, 3 process starts, 1 failed snapshot: a pid passes
  from the task to a stranger, and a descendant is adopted by init.
- *Repository*: 2 daemon processes, 2 branches. *Supervision*: 2 clients, 3
  daemons, 2 deaths. *Update*: 2 updaters, 2 releases: updates fail anywhere,
  leave copies behind and cross. *Store*: 1 task, 2 failed
  statements, 2 boots, 6 handlers.
- *Planner*: up to 4 waiting tasks of 5 kinds, 5 headrooms. *Completion*: 2
  tasks, 2 targets, 2 edits, 3 completions in all (one target is checked out at
  first; they are alike). *Tiling*: 4 panes on a grid of 5 by 4, 1 resize of
  nine presses (it ends at the limit): small enough that panes vanish, and as
  many panes as the four keys always serve.
- *Requests*: 1 shell, 1 dashboard, 1 repository, 1 task, 2 actions, 1 fault,
  pages of 3 events. *Snapshots*: 5 pids of
  different sizes, 2 owners, 2 forks, 2 walks: a child is read before its parent
  or after it.
- *Benchmark*: 7 plans that cover every launcher and scenario, 1 mishap, 1 grace
  poll; one cell follows a failed start of its own launcher. *Stub*: all scenarios and all three-step scripts over 6 kinds of step,
  1 failure.

**Fairness.** Only of the daemon, never of clients, providers or users.

| Assumption | Why the code justifies it |
|---|---|
| `WF` of the mutex holder's steps in `DaemonJoins` (`HolderGoesOn`, or the beginning of a join) | whoever holds the mutex is synchronous code and runs to its end, except for the join of a reader thread: `JoinEnds` has no fairness, since a descendant may hold the terminal for good. `ExitedIsRetired` and `HeadroomIsUsed` are stated for behaviours in which joins return (`JoinsReturn`) |
| `SF(PumpStarts)` of `DaemonJoins`; `SF(RetireTree(t))` of `ProcessOwnership` | the pump's timer fires every 100 ms and gets the mutex again and again although requests interleave. `std::sync::Mutex` is not FIFO, so this is an assumption; the lock is free most of the time |
| `WF(DaemonStep)` of `ProcessOwnership` | an operation under way holds the mutex and goes on, except for a join that waits for a terminal: that wait is a guard |
| `WF` of the pump and of each client's attach loop in `AttachStream` | the runtime polls every ready task; a loop goes on once something is there for it. All of them need the mutex: none is enabled during a join, `JoinReader` has no fairness, and `ExitReachesClient` is stated for behaviours in which joins return |
| `WF(CreateStep(c))` of `RepositoryLock` | `acquire` polls until its deadline, and the deadline comes |
| `WF(ServeStep(d))` of `DaemonSupervision` | a started daemon boots, binds and serves without waiting for anybody |

**Where code and comments disagree.** Six runs are expected to be violated;
each states what a comment says:

| Run | Comment | What happens |
|---|---|---|
| `budget_leak` | a ledger entry is "removed on hibernate/terminate/exit" (`memmuxd/src/daemon.rs:78-79`) | a recycle whose relaunch fails keeps it, and `forget` then makes the leak permanent |
| `recycle_rollback` | "retain the checkpoint (... the user can resume later)" (`memmuxd/src/daemon.rs:1152`) | the task is `Failed`; `resume` wants `Hibernated` |
| `over_commit` | reservations are made "*before* it launches, so admission never over-commits" (`memmux-sched/src/reservation.rs:3-4`) | `restart` and `resume` launch without the planner |
| `resume_directory` | "into the same isolated worktree the task was launched in" (`memmuxd/src/daemon.rs:1236`) | handles are not persisted: after a daemon restart the provider runs in the repository |
| `opened_pane` | "open it as a live pane" (`memmux/src/main.rs:244`) | `PaneManager::open` (`pane.rs:192`) keeps a session that has ended |
| `gate_data` | "never reports a gate as *passed* on missing data" (`memmux-bench/src/gates.rs:5-6`) | with no successful memmux trial the overhead gate passes (`run.rs:896`) |

`LeaksOnlyByFailedRecycle` and `AdmissionFitsBudget` are the strongest true
forms of the first and the third.

**What the models record besides.** These are not runs of their own; the
properties above are stated around them, and their comments name them.

- A lock file left by a dead process ends isolation in its repository for good:
  every later creation waits 30 s with the daemon's mutex held and then runs the
  task in the repository (`StaleIsForever` proves the first half).
- Dropping a provider's session joins its reader thread under the daemon's
  mutex; a descendant that keeps the terminal open blocks the whole daemon: no
  other provider is retired, no start admitted, no attached client told.
- Output is decoded chunk by chunk: a character of several bytes that the end of
  a chunk cuts is replaced, its bytes one by one (`Lossy`).
- The last output before an exit is drained by the pump that retires the
  provider and never reaches an attached client (`OnlyTheEndIsLost`).
- A pid recorded at the last sample and reused before the next is signalled as
  the task's (`unnoticed`), and so is what runs under a provider's own pid once
  it was handed on (`under`).
- `ensure_daemon` probes and then spawns: two clients may start a daemon each. A
  `memmuxd serve` by hand always takes the socket.
- An interrupted update leaves a new `memmux` beside an old `memmuxd`, and
  `memmux update` then finds nothing to do until the next release; a pinned one
  repairs it. Two updates at once share the staged names, and one can rename what
  the other is still writing (`InstallsAreWhole` says "while no two cross").
- The harness looks at neither `kill -9` nor `tmux kill-server`: what either
  leaves runs on between trials, and a tmux server may host the agents of a later
  trial of the same benchmark (`StraysAreExplained`, `MeasuresItsOwn`).
- `terminate` never deletes the checkpoint row; `forget` removes the task from
  memory before its row, and when the deletion fails the task is back at boot.
- A client's call has no timeout. The calls of a refresh see different states.
- A tmux start that fails half-way, or a kill-server that fails, leaves its agents to the next tmux cell,
  which measures them as its own: its row can confirm more escapes than it
  injected (`HadStrangers`).
- With five panes open one can be out of reach of the four focus keys, since
  `focus_dir` takes the nearest centre: in
  `rows(cols(p1, p2), rows(p3, cols(p4, p5)))` on a square grid no key leads to
  `p2`. A click or the sidebar does. `PanesTile` claims the keys up to four.
- Two clients attached to one task share one tee buffer: each takes the other's
  output, and the first to leave turns the tee off.
- A completion of a task takes no lock: two completions share the checkout.

## 4. Proofs

Fifty theorems, for every value of the constants. *Assumptions* are those
named in the modules that declare the constants; TLC evaluates each of them in
a run that extends the module. They say that the bounds are numbers, that
markers such as `NoLock` are not among the values they mark, and that inputs
have their type, nothing about which instance is chosen. `QueueAssumption` also
says that there is a greatest headroom: it is the budget with nothing reserved,
which the score divides by; `StubAssumption` that a script is a finite sequence
of steps.

**The daemon** (`MemMuxDaemonProofs`).

| Theorem | Property |
|---|---|
| `TypeCorrect` | `TypeOK` |
| `EveryLiveProviderIsPaidFor` | `LiveIsReserved` |
| `BudgetLeaksOnlyByFailedRecycle` | `LeaksOnlyByFailedRecycle` |
| `HibernatedTasksAreRestorable` | `HibernatedIsRestorable` |
| `CheckpointsSeeTheWork` | `CheckpointSeesTheWork` |
| `DeferralsAreExplained` | `DeferralIsExplained` |
| `TerminatedForGood` | `TerminatedIsFinal` |
| `DirtyWorkIsKept` | `DirtyWorkSurvives` |
| `LowPriorityStaysHeld` | `LowPriorityIsHeld` |
| `AdmissionNeverOvercommits` | `AdmissionFitsBudget` |
| `LadderTakesTheSpared` | `LadderSparesWork` |

None of the invariants is inductive alone. A hibernation needs to know that a
live task is `Active` (else the walk would stop short of `Hibernated`), that its
row says so too, and that no unissued id sits in a table. `IInv` (theorem
`Inductive`) therefore adds to the checked invariants `StoreAgrees` (rows and
registry are equal while the daemon is up), `DownIsEmpty` (nothing in memory
after a crash), `UnissuedIsAbsent`, and `AdmittedIsQueued` (during the launches
of a pass the admitted tasks are still queued and everything else in the queue
has its reason). `Walks` computes where each lifecycle walk ends from those
states; there is one lemma per handler (`TerminateStep`, `HibernateStep`,
`RecycleStep`, `LaunchStep`, ...), used wherever the handler is called from
(request, ladder, trigger, retirement), and `IInvStep` collects them. The
low-priority hold has an invariant of its own, `AdmittedIsNotHeld`, with
`LaunchPhase` showing that nothing but launches and crashes happens between plan
and launch. That admission fits the budget needs `LaunchesFit`: during the
launches of a pass, what is reserved and the peaks of the tasks still to be
launched fit together. The plan establishes it, a launch moves one peak from the
second to the first, and nothing else happens between them. That what
the ladder takes down was checkpointed and is of the lowest priority spans two of
its actions, between which providers go on: `LadderInOrder` (a victim is named
only by the first action of the Emergency stage) and `VictimIsSpared` (until its
end it keeps the fresh checkpoint, and nothing of lower priority is launched).

**Admission** (`AdmissionProofs`, on `FoldLemmas`): `QueueIsTreatedFairly`
(`PlanIsFair`), and the lemmas `AdmissionNeverOvercommits` rests on. The planner
folds over the candidates in their order, and the provers take no predicate as a
parameter; `FoldLemmas` therefore states induction about the *set* of the values
that have the property (`UpTo` for numbers, `OneLess` for the subsets of a finite
set) and derives it from a least counterexample. With it, a fold over a sequence
and a sum over a set are shown to exist and to take their arguments apart
(`TakesApart`, `FoldExists`, `SumOK`, `SumGrows`). `OrderOK` says that `InOrder`
lists every candidate once, none before one that precedes it; `PlanOK` that
whoever is admitted is exactly who fits beside the admitted ones ahead of it, and
that the admitted ones fit together. The arrival order needs `QueueInv`: of two
waiting tasks the one that was created first is at least as old, so of the same
priority and class it scores at least as high (`ScoreOK`) and wins a tie.

**Worktrees** (`HostProofs`): `LockTypeCorrect`, `MutatorsAreAlone`
(`OneMutator`), `StaleIsForever`, `CompletionTypeCorrect`, `WorkStays`
(`WorkIsKept`). For the lock, `LockInv` adds that whoever mutates owns the file;
a stale file has no owner, so it can only deny. For the completions,
`CompletionInv` relates git's own state to the flows: what is committed, landed
or gone (`GitOK`), what a provider wrote and no flow has taken (`EachKept`),
where each flow stands and what it looked at (`FlowOK`), what a discard may
remove (`DiscardOK`) and what a report claims (`ReportOK`). The proof showed
that `WorkIsKept` did not hold for a second completion of the same task as
first modelled, because the report of the first was still there when the second
began; `BeginCompletion` now clears it, as a new call of `complete` returns a
new report, and the run allows three completions by two tasks.

**Daemons that come and go, and update** (`HostProofs`): `SupervisionTypeCorrect`,
`DaemonsServeAlone` (`TwoDaemonsAreARace`), `UpdateTypeCorrect`,
`UpdatesAreAtomic` (`InstallsAreWhole`). `SupervisionInv` says what holds until
somebody starts a daemon unwatched: at most one is up, the socket leads to the
one that serves, and no client about to spawn coexists with one that is up.
`UpdateInv` says that a file is being written only by updates that are copying,
that an update which nobody crosses writes into its own copy alone
(`Undisturbed`), and that the binaries are of one release unless a failure or the
update between its two renames explains why not.

**Task tables** (`HostProofs`): `StoreTypeCorrect`, `BootsAreTrustworthy`
(`BootsAreSound`). The invariant is about statements that have not been executed
yet: those left in a handler are a path (`Leads`) from what the tables say now
to the state the handler will leave in memory, along which the history stays
connected and no row says `Hibernated` without a reference. One lemma per handler
shows that its list of statements is such a path (`LaunchLeads`, `RequeueLeads`,
`WalkLeads`, ...), paths compose (`LeadsOn`) and lose their first statement
(`LeadsNext`), so a death or a failure may fall anywhere. The gaps in a history
are bounded by counting one more for a handler whose state is not where the
history ends (`GapsOK`). A task with an ignored failed write keeps the path but
not its rows.

**Output** (`TerminalProofs`): `OutputIsAccounted` (`CaptureIsAccounted`),
`QuotaHolds` (`QuotaIsKept`, its part about the quota) and `NoSilentDrop`
(`DropsAreAnnounced`). `GovernorInv`: a limit that is marked as breached was
announced, the rate in the window that is still open; a window restart by a
clock that steps back needs the second half. `RingInv`: the ring's byte count is
the sum over its entries, both caps hold and every row is in the ring, on its way
to the chunk store or there. `EvictOK` takes eviction, which pops entries until
both caps hold, as a step that may be repeated: after as many rounds as the ring
has entries it is empty, so nothing stays over a cap.

**Lines** (`TerminalProofs`): `LinesStayFaithful` (`LinesAreFaithful`). The
property compares the splitter with a reader (`Read`) that takes the whole
output one character after the other and knows nothing of chunks; the splitter
searches, cuts and keeps a remainder (`CutOnce`, `Cut`). Within one call, after
every cut the lines are those of the reader at the place of the cut (`AtPlace`),
and the rounds suffice because each cut shortens what is left. Across calls, a
reader that starts where the last line broke reads what one that started with
the first character does, whatever came before (`ReadAlong`, by `Behind`, step by
step); only the LF that comes in a chunk after its CR makes a line more, an
empty one. What the splitter takes is the output as text (`Shown`), which is the
text of the chunks so far with that of the next behind it, since a byte is shown
by what stands beside it up to the ends of its chunk (`FedInv`). `SplitInv` says
so and that what is pending holds no terminator.

**Scrollback** (`TerminalProofs`): `StoreImplementsLog` (`HistoryIsAppendOnly`),
`PagesAreExact` (`PageIsExact`), `TotalsAreExact`. The chunk store refines
`AppendOnlyLog`, one append for each batch and one restart for each new store,
whichever writes fail. A fold over chunks or over a batch is shown to be the last
of a row of values, each made from the one before; what holds of the values
(`Stores`: chunks and files follow each other without a gap, the total is the
length of what is held; `TookIn`: after *n* rows of a batch the first *n* are
held) holds of the fold. A page goes over the chunks and then over the buffer,
and a page of two pieces is a page of the first and then of the second
(`TakenOK`).

**Attachments** (`TerminalProofs`): `FramesAreAccounted`
(`TornFrameEndsTheStream`), `StreamsAreFaithful` (`StreamIsFaithful`). For the
frames, `WireInv`: what is on a client's wire is a whole number of frames and
maybe half of one, or it starts with a body and the loop can only end. For the
stream, `OrderInv`: terminal, reader, ring, tee and what clients have got are,
front to back, strictly increasing, which gives both no repetition and no
reordering; `LedgerInv` counts what a lone client must
have, and `EndInv` that of a provider that is gone it has the beginning.

**Processes** (`ProcessOwnershipProofs`): `OwnershipTypeCorrect`, `VictimsAreOwn`
(`VictimsWereOwned`), `LeaksHaveAReason` (`LeaksAreExplained`). `OwnedInv`: a
process has the owner of its parent unless init adopted it, a recorded pid is
that of a process of the task or of one that ended since the last sample
(`Known`), and the operation under way is one of the plans the handlers begin,
aimed at such pids or at what runs under the provider's own pid. `LeakInv` adds that what was
sampled stays tracked or is about to be killed. A subtree is defined as the
least closed set, so that it can be reasoned about without induction.

**Snapshots** (`ProcessOwnershipProofs`): `AccountingHolds` (types and the
invariant) and `SnapshotsHold` (`SnapshotsAreExplained`). A snapshot is torn:
processes fork, exit and take over pids while it is read. What a walk down
collects is the least set closed under children, what a walk up collects the
least closed under parents, and both are complete after as many rounds as there
are pids (their sets grow until they are closed); hence the two agree, a process
has one root (`OneRoot`), trees of different roots do not meet, and bytes summed
over them add up. `AccountingInv` relates the snapshot to the processes:
`Population` (who forked whom, for whom), `Gathered` (what was read is still so
or was orphaned, but where the pid is another's by now), `WereThere` (the
processes that were there when the walk began have their parents among them and
are read when the walk has passed them) and `Blamed` (without a pid come back,
`Belong` tells whose a process is by the parents that were read). The attempt
to prove it found two states beyond the run's two forks in which the property as
first stated fails: a pid whose *number* was only read as somebody's parent comes
back as another process, and the children of a pid that came back are as wrong
as it is. Both are what the code does; `Named` and `Anew` now say so. Sizes were
one unit for all; they are a number for each pid now (`Size`), which shows sums
that a count of processes would not.

**Requests** (`RequestProtocolProofs`): `ProtocolTypeCorrect`, `CallsAreHonest`
(`CallsAreTruthful`), `DashboardsAreExplained` (`DashboardIsExplained`).
`CallInv` relates memory and tables (`Follows`: a handler only moves them
forward together, but where its write is ignored), each connection, what each
client was told and what was promised it. `RefreshInv` adds that the parts of a
refresh were taken in order and that an answer on its way fits the log.
`Onward`, which says what a client does with its answer, had overlapping `CASE`
arms; TLA+ leaves the choice between those open, so they were made disjoint.

**Sidebar** (`TerminalProofs`): `ClicksAreExact`, a click selects the row
that is drawn under it, on any screen.

**Panes** (`TerminalProofs`): `TuiTypeCorrect`, `ScreenStaysCoherent`
(`ScreenIsCoherent`). Every operation on the model of the screen keeps
`Coherent` (its focus and selections are in order) and says where it puts panes;
`ScreenInv` adds that a task which did not change group is in its own, with a
session. A turn touches the panes of one task at most, in the group it was in or
is in now (`Touches`), and either leaves it a session or has closed it
(`OneTaskTurnOK`), which settles opening, refused attachments and closing alike.
What stays of a filtered list (`Filtered`, a recursive function) needs induction
over data; it is done with a least counterexample, first to the existence of the
function and then to what it returns (`FilteredOK`).

**Benchmark** (`BenchmarkProofs`): `BenchmarkTypeCorrect`, `NoStrays`
(`StraysAreExplained`), `MeasurementsAreOwn` (`MeasuresItsOwn`),
`CreditsAreGiven` (`CreditsAreDue`). `StraysInv`: a process is started once, by an earlier trial or
this one; of an earlier trial no server or agent is left but after a failed
start or a failed `tmux kill-server` (`RunnersOK`); the roots of a trial are its
own agents but for what such a server hosts (`RootsOK`); what a teardown captured
and still runs is among the survivors it polls for, or its kill failed
(`CaughtOK`).

`KillsInv` is about what the harness kills itself: of a trial under way it has
killed nothing before the escapes are measured, then what it confirmed, which
had escaped (`SeenOK`: an agent waits for its child, so of what was seen below
the roots nothing else outlives its place there), then the survivors, which the
cleanup result counts (`KillsOK`, `FreshOK`, `FiniteOK`). `RowsInv` is about what
is kept: the figures of every kept trial are in order, no more escapes are
confirmed than there are agents (`OneEach`) unless the roots were not all its
own, and a cell left behind has its trials or says that it failed. From there
the rows and the gates are compared one by one at the end of a benchmark
(`SoakAgrees`, `LossAgrees`, `PressureAgrees`, `CleanupAgrees`,
`OverheadAgrees`, `EscapesAgree`): each pair sums the same trials by different
definitions, so each needs its own argument; the worst of several trials takes
an order of fractions to be total and transitive (`WorstOf`).

Two clauses did not survive the attempt. That a cleanup result hides no kill was
stated in shares of processes and held only because the run allows one mishap;
it is now a count per trial in `StraysAreExplained`. That no row confirms more
escapes than it injected is false after a failed tmux start or kill-server; the plan on which
it fails is in the run, and the clause names the exception.

**Stub agent** (`BenchmarkProofs`): `StubTypeCorrect`, `RunsMatchSimulation`
(`RunMatchesSimulation`), for any scripts. `simulate` is a fold over the script,
a live run executes it step by step with workers that are spawned, waited for or
escape. `StubInv` is `RunOK` (the workers, and which are left to wait for) with
`FollowsOK` (what the run holds, has written and peaked at is the value the
simulation has after as many steps). Escapes are counted by the steps that
script them.

**Only model-checked, and why.**

- *Recursive operators.* `PanesTile` (`PaneTree`, whose layout recurses over the
  tree) is in a module that declares them, which the SMT backend does not accept;
  written without them it would still be an induction over trees.
- *Liveness.* `ExitedIsRetired`, `HeadroomIsUsed`, `ExitReachesClient`,
  `DaemonBlocksOnlyOnTerminal`, `CreationEnds`, `StartLeadsToService`: fairness
  and `ENABLED` are out of the provers' reach.

## 5. Not modelled

- Not called by the daemon: `SafePointWaiter`, the EWMA predictor,
  `classify_substate`, the worktree cache, the repository watch and the conflict
  detector.
- Of a library or the system: the vt100 screen, the macOS samplers, git itself
  beyond what its commands do to branches and trees.
- Presentation and input: drawing, themes, configuration, adapter command
  lines, parsing of `/proc`, command-line output, statistics and plots of the
  benchmark, the updater's download.
- Tables that are only written and listed: decisions and samples.
- Paper and website.
