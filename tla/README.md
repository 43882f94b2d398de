# A verification of ExecQueue in TLA+

ExecQueue takes tasks over an HTTP API, prepares each for an agent (a branch and
a worktree, if it may write), lets a runner claim and dispatch it to OpenCode,
and is meant to follow its events, inspect the result and adopt its commits.
This directory holds models of these parts written from the code, the
configurations that check them with TLC, and proofs checked by TLAPS.

`PROJECT.json` lists components, runs, mutants, hazards, findings and
theorems, and maps every definition to the lines it stands for.

    tlc -config <Run>.cfg <Module>      a run
    tlapm <Module>_proofs.tla           a proof

## 1. The system

### Components, their state and their operations

| Component | Source (`src/execqueue/`) | State | Operations |
|---|---|---|---|
| Task intake | `tasks/service.py`, `api/routes/domain.py` | tables `task`, `requirement` | `create_task`, `create_task_from_requirement`, the endpoint's error answers |
| Preparation pipeline | `orchestrator/main.py`, `locking.py`, `candidate_discovery.py`, `classification.py`, `orchestrator_trigger.py` | task rows (`status`, `locked_by`, `queued_at`, attempts, error); the rows a session has cached | discover, plan a batch, lock, re-read after a conflict, prepare, record a failure, release |
| Stale-queue recovery | `orchestrator/recovery.py` | the rows it loaded | find, recover, commit |
| Git context | `orchestrator/git_context.py`, `context_contract.py` | base repository, branches, worktrees | find or create a branch, read HEAD, reuse or add a worktree |
| Polling and claim | `runner/main.py`, `polling.py`, `claim.py` | task rows, `task_executions` | poll cycle, `claim_single_task`, check / update / insert |
| Dispatch | `runner/dispatch.py`, `opencode/client.py` | execution row, its events | load, flush, two requests, commit or failure |
| Retry policy | `runner/error_classification.py` | none | classify, decide, backoff, stale or not |
| Stale recovery | `runner/recovery.py` | execution rows it loaded | `handle_error`, `process_stale_executions` |
| Event stream | `runner/sse_handler.py` | ids seen, sequence, terminal flag | receive, deduplicate, disconnect, reset |
| Result inspection | `runner/result_inspector.py` | none (reads a worktree) | `inspect` |
| Commit adoption | `runner/commit_adopter.py` | the worktree of the target branch | `adopt`, one git command after the other |
| Runner's lifecycle, watchdog | `runner/main.py`, `runner/watchdog.py` | the tasks of one event loop, idle time, pings sent, an HTTP client | start, poll, signal, stop, ping |
| Telegram bot: process | `workers/telegram/bot.py`, `health.py` | PID file, health file, reporter and shutdown task | start, report, take a signal, shut down |
| Telegram bot: commands | `workers/telegram/commands.py` and others | users, the conversation of a chat | commands, notifications |
| Restart of the bot | `api/routes/system.py`, `ops/scripts/telegram_restart.sh` | what it has read of processes and files | list, terminate, verify, start |
| Launcher | `orchestrator_legacy.py` | two child processes | start, monitor, terminate |
| Health aggregation | `health/`, `api/health.py`, `db/health.py`, `opencode/health.py` | none | one check per component, aggregate |

### How they interact

What tasks share is in the database, in git or in OpenCode; there is no queue. A request thread inserts a task and runs a whole
preparation cycle itself (`tasks/service.py:162`, `:363`): that is the only
trigger of the orchestrator, so "worker" below means a request thread of some
API process. `queued` has two meanings for the task table: locked for
preparation, and claimed by a runner; the recovery cannot tell them apart.
Sessions use `expire_on_commit=False` and `autoflush=False`: code computes new
values from rows it loaded long ago, and the ORM leaves assignments that repeat
a loaded value out of its UPDATE.

The processes of the bot, of the launcher and of a restart know each other only
through signals, the process table and two files that each of them writes; the
health check reads one of these files. Inside a runner the main coroutine, a
task per signal and the watchdog's loop share one event loop and a few flags.

Several parts have no caller in `src/execqueue` and are modelled as the operations
they offer: `StaleQueuedRecovery`, `dispatch_prompt`, `handle_error`,
`process_stale_executions`, `SSEEventHandler`, `inspect`, `adopt`. No caller and
not modelled: `lock_single_task`, `create_requirement`, `cleanup_worktree`,
`WriteTaskRecovery` (which fails on the undefined name `GITPYTHON_AVAILABLE`).

### What is hard, and what makes each part correct

- Intake: overlapping requests with one key, an answer lost after the commit, an
  error between requirement and task. Correct: one task per key, both or
  neither, and an answer that is true.
- Preparation: overlapping batches, rollback of a partial lock, a crash after
  the lock, a recovery that writes rows by id from old values, late outcomes.
  Correct: a task has one worker, outcomes stay, the lock columns fit the
  status, nothing is lost for good.
- Git context: nothing locks the base repository, every preparation moves its
  HEAD, commands are killed. Correct: branches do not mix, the recorded
  baseline hides no work.
- Claim: three statements at READ COMMITTED, batches that deadlock, cycles that
  fail as a whole. Correct: a claim is atomic, and a prepared task is claimed.
- Dispatch and stale recovery: a transaction open over two HTTP requests, a lost
  answer, a second session that writes from a copy. Correct: what is committed
  is what happened, attempts stay bounded.
- Events: replay and gaps after a reconnect, a bounded memory, a handler used
  twice. Correct: no gaps in numbers, nothing twice.
- Bot, launcher and restart: a crash of any of them between two steps, a shutdown
  that hangs, two signals, files that outlive their writer. Correct: one bot at a
  time, which the PID file names; a health that is true; restarts that end.
- Runner's lifecycle: signals while a stop awaits, a ping in flight when its client
  is closed, `asyncio.run` cancelling what the main coroutine leaves behind.
  Correct: nothing is left, no ping without a client, idle sessions are pinged.
- Inspection and adoption: any order of edits, moves and commits; two runners in
  one worktree; a pull that brings the commit; git commands that fail, time out or
  refuse. Correct: what git could show is found, success is true, and a pick that
  stopped is aborted or reported.

## 2. The modules

| Module | Models | MC module / config |
|---|---|---|
| `TaskClassification` | type, write setting, conflict key, batch plans | through the next |
| `TaskPreparation` | workers and stale-queue recovery over the task table | `MCTaskPreparation` / `TaskPreparationConcurrent`, `TaskPreparationLockRollback` |
| `TaskLifecycle`, `TaskPreparationRefines` | what preparation promises; the refinement mapping | `TaskPreparationConcurrent` |
| `ExecutionClaim` | sessions that claim | `MCExecutionClaim` / `ExecutionClaim`, `ExecutionClaimRunner` |
| `ClaimQueue` | the claim as one step | `ExecutionClaim` |
| `TaskPipeline` | composes `TaskPreparation` and `ExecutionClaim` over one table | `MCTaskPipeline` / `TaskPipeline` |
| `RetryPolicy` | pure functions of error handling | `MCRunnerServices` / `RunnerServices` |
| `ExecutionDispatch` | dispatch and stale recovery of executions; uses `RetryPolicy` | `MCExecutionDispatch` / `ExecutionDispatch` |
| `EventStream` | the event handler | `MCRunnerServices` / `RunnerServices` |
| `TaskIntake` | requests and their transactions | `MCTaskIntake` / `TaskIntake` |
| `GitContext` | `prepare_context` of concurrent tasks | `MCGitContext` / `GitContext` |
| `CommitAdoption` | `adopt` of concurrent runners | `MCRunnerServices` / `RunnerServices` |
| `ResultInspection` | `inspect` over what an agent can leave behind | `MCRunnerServices` / `RunnerServices` |
| `RunnerLifecycle` | main coroutine, signals and watchdog of a runner | `MCRunnerLifecycle` / `RunnerLifecycle` |
| `SystemHealth` | the checks and their aggregation, as functions | through the next |
| `TelegramBot` | bots, launcher and restart scripts; uses `SystemHealth` | `MCTelegramBot` / `TelegramBot`, `TelegramRestartOverlap` |
| `*_proofs` | theorems about the module of that name; `TaskPreparation_proofs` also those of the refinement, `RunnerServices_proofs` those of `RunnerLifecycle`, `EventStream`, `CommitAdoption`, `ResultInspection` and `RetryPolicy` | (tlapm) |

### Correspondence

**TaskPreparation.** Columns are functions from tasks. `pc[w]` is the point in
`run_preparation_cycle`: *discover*, *lock*, *reread*, *prepare*. `batch[w]` is
the plan, then `locked_task_ids`; before the discovery it remembers the row the
request inserted, because the query does not refresh it. `view[w]` is the
session's identity map, of which only attempts and error are ever used for new
values. A commit is a step; the reads between two commits belong to the next
step, except where another commit may come between them to some effect (the
re-read after the rollback, the rows the recovery loads). Messages are reduced
to what `RECOVERY_MATRIX` makes of them. The timestamp `queued_at` is null,
recent or stale. `LockAges` lets a lock become stale; with
`SlowPreparation = FALSE` only when no living worker is preparing the task, and
with `SlowCycle = FALSE` only when none has it in its batch from before the lock.
`unlockedGrant` is a history variable: the tasks that the rollback path handed
out without a lock (finding 1). The properties about ownership exempt them,
and `TaskPreparationLockRollback` shows the exemption is needed.

**TaskClassification.** Read-only tasks all join a plan; a conflict key lets one
write task per batch through. The order of candidates is left open.

**ExecutionClaim.** A session has a batch `todo`, and per task the progress of
`claim_task`: `checked`, `updated`, `claimed`. The uncommitted changes are
derived: `Locks(r)` are the rows it has updated. `WaitsFor` is the row lock,
`DeadlockAbort` the database's way out of a cycle. `Committing` and `Keyed` are
the sessions whose caller commits and whose executions have an id: both are
empty in `src/execqueue` (finding 2), so the passing run checks the protocol
the tests exercise and `ExecutionClaimRunner` checks what the program does.

**TaskPipeline.** Both modules share `status`. An UPDATE of a row that a claim has
locked waits (`PreparationStep`). Executions end at any time; no code then
writes the task.

**ExecutionDispatch.** `row` and `events` are committed, `copy` and `pending` what
the runner's session would commit, `loaded` what it read. `Merged` writes only
the changed columns. The other session is the recovery, with `seen` and
`planned`. `accepted` counts the prompts OpenCode has taken, known to nobody
when an answer is lost.

**RetryPolicy.** An exception is its class, status and the phrases in its text;
`classify_error` is a list of rules of which the first decides. `DispatchError`
is what the client and the dispatcher leave of an error before it gets there.

**EventStream.** `log` is what OpenCode sends, `pos` where the connection reads,
which a reconnect may set to any earlier or later place. `eventIds`, `sequence`,
`terminal` are the handler's fields. `received` and `out` record what came in
and what was yielded.

**TaskIntake.** A request is a transaction: flush the requirement, draw the number
from a sequence, insert (waiting while another open transaction holds the key),
commit, answer. Clients repeat until settled.

**GitContext.** Each git command is a step and may be killed with or without
effect. A branch is the set of agents whose work its history contains; a task
stands for its branch, its worktree and its preparation. The commands' own
rules (a branch is checked out at most once, `checkout -b` moves HEAD) are
external. A command that fails ends the preparation as *failed* or returns it to
backlog, as the error is classified. The agent works as soon as it has been given a worktree, also
during a repeated preparation, and stays on its branch.

**CommitAdoption.** Versions of the branch are lengths of its history; each
command of `adopt` is a step, timeouts give the value the `except` clauses give.
What files hold is left out: whether a commit still changes anything, so whether a
cherry-pick copies it, conflicts or is empty, is git's choice. The abort may be
refused (the other runner's command holds the lock of the index), which the code
does not notice. The worktree is assumed to be on the target branch.

**ResultInspection.** Three versions of the tree (HEAD, index, files); what `git
diff` and `git status` print is external, what the parser makes of it is the
code's. `answered` are the commands of an inspection whose answer it gets; one
that fails, times out, or is not run for want of a `commit_sha_before` counts as
one that printed nothing, as in the code.

**RunnerLifecycle.** A step takes a task of the event loop from one suspension to
the next. `main` is the main coroutine, `stop[s]` where the call of `Runner.stop`
by a signal (or by the main coroutine, `Main`) stands: *new*, in the `await` of
the watchdog's task (*join*), in `aclose`, *done*, or *cut* by a cancellation.
`cancelled` are the tasks that `asyncio.run` has cancelled at the end. `loop` and
`client` are the watchdog's task and its HTTP client. Time is a flag: `idle` says
whether the last activity is further away than the limit.

**TelegramBot.** A process id is a value of `Bot`, used once. `bot[b]` is the place in
`run_bot` and `main`, `shutdown[b]`, `event[b]` and `reporter[b]` its tasks. A
signal is pending until it is taken, and ends the process where no handler is
installed. `script[s]` is the place of a restart between two looks at the process
table or the files, `targets[s]` the pids it works on. The script dies, and a bot
crashes, at any point. `Overlap` says whether a restart may begin while another
runs: the lock that should prevent it does not (finding 3), so it is left out.
`cleanup_stale_pid` is two steps, its look (`ChecksFile`) and its `rm` (`RemovesFile`).
The launcher starts a bot once, at any time at which no bot lives and no restart
runs (`LauncherStarts`), and looks at no file; of the API only that its end is a
reason to stop. `Former` is the pid of a bot that was killed before: its PID and
health file may be there at first. A script is killed together with the subshell
that forks and records the bot (`telegram_restart.sh:391-395`): one whose subshell
lives on counts as one that dies after it. A script that dies between its last
look at the PID file and its signals is *cut*. `StartsNothing` is the start of a bot that is disabled, has no token, or runs already.

**SystemHealth.** Each check maps what its probe meets to OK, DEGRADED or ERROR, and
`AggregateSystemStatus` their combination; `Answers(h)` are the answers of
`GET /health` for a health `h` of the bot, whatever the other probes meet.

## 3. The runs

Instances are small because the hazards need few actors: two sessions that
collide and one that comes in between. The states are those TLC reports.

| Run | Instance | States | Shows |
|---|---|---|---|
| `TaskPreparationConcurrent` | 2 workers, recovery, a write and a read-only task, one recorded attempt, symmetric workers | 358k | lock columns agree; one worker per task; outcomes final; the recovery commits over the row it read; refinement of `TaskLifecycle` |
| `TaskPreparationLockRollback` | the same | – | violated: *two workers must never claim the same task* |
| `TaskPipeline` | 3 request threads, recovery, 2 runners, a task, up to 2 attempts, a crash, symmetric threads, no slow cycle | 495k | one active execution per task; failures are explained |
| `ExecutionClaim` | 2 poll loops and a single claim, 2 tasks, a crash | 6k | claims disjoint; refinement of `ClaimQueue`; prepared tasks are claimed |
| `ExecutionClaimRunner` | the same without commit and id | – | violated: prepared tasks are claimed |
| `ExecutionDispatch` | 2 executions, 2 attempts, one broken-off session | 57k | outcomes true and kept; attempts bounded; sent only while queued; queued is dispatched |
| `TaskIntake` | 3 clients (2 share a key, 2 submit requirements), 2 failures | 122k | one task per key; both or neither; answers true; requests stored |
| `GitContext` | 3 tasks, symmetric | 49k | branches isolated; baselines hide no work |
| `RunnerServices` | events: 3 messages, 4 events, 2 connections, memory of 2; worktree: 3 files, 4 edits, 2 commits; adoption: 2 runners, 2 commits, 3 calls, a pull, a crash or timeout; retry policy: every error, phase, jitter and attempt up to 7, ages up to 4; symmetric commits and runners | 805k | nothing yielded twice, the terminal flag; read-only violations and the scope of what passes, for every set of git commands that answer; success is true, stopped picks are aborted or reported; the definitions of *stale* agree, retries are measured |
| `RunnerLifecycle` | 3 signals, 3 pings | 7k | the process leaves nothing behind; no ping without a client; a signal ends the runner; idle sessions get their pings |
| `TelegramBot` | 3 bots, launcher, 2 restarts one after the other, 2 crashes of bot or script, with or without the files of an earlier bot | 135k | one bot; it is the recorded one; health is earned; restarts and shutdowns end |
| `TelegramRestartOverlap` | 2 restarts at the same time, 1 crash | – | violated: one bot |

`RunnerServices` explores four modules without common state, each while the others
have not begun, so the states add up and do not multiply.

Bounds. `AttemptCap`, `MaxCrashes`, `MaxFaults`, `MaxFailures`, `MaxPulls`,
`MaxCalls`, `MaxEvents`, `MaxConnections`, `MaxCommits`, `MaxEdits`, `MaxAge`,
`MaxKills` only keep runs finite; `MaxBatchSize`, `BatchSize`, `MaxAttempts`,
`CacheSize`, `MaxContinues` are
parameters of the code, set so low that they are reached. One crash suffices
since a crashed session leaves only committed rows behind, and every committed
state is a start of another session. Two event ids fit the memory and three do
not, so both sides of the bound occur. Three bots suffice for two restarts after the
launcher's bot; two crashes let a script die after the bot it was to replace has.
A third signal arrives after two have met in one stop. Three request threads suffice
for a copy that is old twice over: one fails, one repeats, one writes from what it
read before both. `FailedIsExplained` is stated for `SlowCycle = FALSE`: a cycle, from
its discovery on, ends before its tasks' locks count as stale. With
`SlowCycle = TRUE` TLC finds a failed task without a message, see section 5.

`CHECK_DEADLOCK FALSE` stands where the system comes to rest: every task settled,
every bound used up, a stream closed.

### Fairness

- `ExecutionClaim`: weak fairness of each runner, whose loop catches every
  exception and polls again; strong fairness of `UpdateTask`, since the
  database queues the sessions that wait for a row, so one that waits again and
  again gets it. Crashes have no fairness.
- `ExecutionDispatch`: weak fairness of the caller that dispatches and of the
  recovery's scan, strong fairness of the recovery's commit, which waits for
  rows a dispatch holds. These services have no caller in `src/execqueue`; the
  liveness property says what a scheduler that runs them would get.
- `TaskIntake`: weak fairness of each client, that is, a client repeats a
  request without an answer. This is a condition on clients, not on the code.
- `TelegramBot`: weak fairness of each script, which waits for nobody longer than
  its timeouts; of the delivery of signals; and of the bot's shutdown, which
  `wait_for` bounds. What a bot awaits of Telegram may never end, so none of its
  other steps is fair, and a restart must get along with a bot that hangs.
- `RunnerLifecycle`: weak fairness of each task of the event loop (sleeps end, a
  request has a timeout of ten seconds), none of the polling; strong fairness of
  `PingSucceeds`: a session that lives answers one of the pings.
- The other modules state safety only and have no fairness.

### Mutants

Next to the definitions stand *mutants*: a definition with a plausible slip
(a dropped guard, a missing reset, a swapped order). Each property of a passing
run is violated by one, listed in `PROJECT.json`.

## 4. The proofs

Every theorem holds for all values of the constants that meet the assumptions
stated with them.

| Theorem | Property | Argument |
|---|---|---|
| `TypeCorrect`, `LockColumns`, `ExclusiveGrants`, `FinalOutcomes`, `CurrentRecovery` | `TaskPreparation` | `LockColumnsAgree` is inductive with typing. Exclusion is not: it needs that what a recovery has loaded, a worker does not hold, that a task held is queued and locked by its holder, and that a lock ages only after its worker has gone. These are `ExclusionInv`. |
| `Refinement` | `ImplementsLifecycle` | each step maps to a step of `TaskLifecycle` or a stutter, given `ExclusionInv` |
| `CompatibleBatches`, `DiscoveryFindsWork` | `TaskPreparation` | a batch only shrinks after its plan. A plan exists while a task is open: a subset of any size up to the limit, and within a candidate set a maximal compatible part; the choice of the smallest element is by well-founded induction on finite sets |
| `PipelineTypeCorrect`, `OneExecution`, `PipelineGrants`, `CoveredColumns`, `PipelineLifecycle` | `TaskPipeline` | a step of the preparation changes the table as in `TaskPreparation`; a step of a runner leaves it alone or takes prepared tasks (`TakesPrepared`), so that the invariants of both parts survive the steps of the other (`PipelineInv`). `OneActiveExecution` needs that an updated row is locked by one session and has no active execution. With runners `LockColumnsAgree` no longer follows for every task, so it is shown for those whose lock was committed (`CoveredColumnsAgree`) |
| `PipelineRecovery`, `PipelineFailures` | `TaskPipeline` | a claim takes prepared tasks, which no recovery has loaded. `ExplainInv`, for any number of threads: an old lock is of a task that is in nobody's batch (`OldLocksAreForgotten`), so no copy a worker still writes from has a message that the recovery has cleared (`CopyIsNotAhead`), and what the ORM leaves out is in the row |
| `ClaimTypeCorrect`, `DisjointClaims`, `ClaimRefinement` | `ExecutionClaim` | an updated row is prepared, has no execution and is locked by one session; so a commit is one atomic claim |
| `ClaimsNeverStick` | `ExecutionClaim` | nobody is stuck: in a state where no session in a set of waiters may go on, what they wait for is in that set, and a finite set closed under waiting is a deadlock, which `DeadlockAbort` ends. TLC has confirmed on the instance of `ExecutionClaim` that `MayGoOn(r)` says when `RunnerWork(r)` is enabled |
| `DispatchTypeCorrect`, `OutcomesAreTrue`, `BoundedAttempts`, `SendingIsForQueued`, `OutcomesAreKept` | `ExecutionDispatch` | while a session holds anything, the committed row is still queued (`CopyInv`); the recovery's plan never passes the maximum (`PlannedInv`) |
| `CountedDeliveries` | `ExecutionDispatch` | as long as an execution is queued and its dispatch has no answer, each delivery so far was that of a session that broke off (`DeliveryInv`) |
| `IntakeTypeCorrect`, `TaskPerKey`, `RequirementsAreLinked`, `ConflictsAreDuplicates`, `AcceptedTasksAreStored` | `TaskIntake` | an insert that went through is still admissible at its commit (`InsertedIsFree`), and its number is its own (`NumberIsDrawn`); an accepted request has its row |
| `GitTypeCorrect`, `IsolatedBranches`, `NoHiddenWork` | `GitContext` | one checkout per branch, work only where a worktree is, so HEAD of the base repository is bare |
| `TypeCorrect`, `NeverTwoBots`, `RecordedBot`, `EarnedHealth` | `TelegramBot` | `OneBot` is not inductive: a script that forks must know that nobody lives. At most one script is busy, it has listed all that live, what its grace left alive has been killed, and nothing starts between its last look and the fork. The PID file needs that a file a script finds stale can only be overwritten by the launcher's bot (`FileIsOfAlive`); the health that an *ok* was written by a bot that lives and is connected, or by one that was killed |
| `LifecycleTypes`, `PingsAreSentThroughTheClient`, `NothingIsLeft` | `RunnerLifecycle` | exactly one call of `stop` takes over from the flag (`OneJoiner`), and until it has seen the loop end the client is open (`ClientIsOwned`) |
| `StreamTypes`, `NoReplayIsYielded`, `NoGaps`, `TerminalOfThisStream` | `EventStream` | as long as the ids of the log fit, the memory is never emptied and knows every id that was yielded (`EventsAreKnown`); what is sent later adds to the log only |
| `AdoptionTypes`, `SuccessHoldsTheChange`, `StoppedPicksAreKnown` | `CommitAdoption` | the branch only grows, so a version that holds a change does for ever; from the cherry-pick on the call's change is in the branch (`Adopting`), and the result repeats what the call has read (`Reported`); whose pick stopped is about to abort it or has reported it, and its next call ends at the look at the worktree, which is inductive as it stands |
| `ViolationsAreFound`, `PassedWritesAreInScope` | `ResultInspection` | about the parser for any three versions of the tree: a file that differs appears in one of the two listings if the commands that make them answer; typing of the worktree (`WorktreeSafety`, a lemma) makes it an invariant |
| `StaleIsFound`, `MeasuredRetries` | `RetryPolicy` | each delay is a power of two with its jitter; that powers grow follows from 2^n being the number of subsets of n things, since the prover has no induction over exponents |

Assumptions. `ExclusiveGrants`, `FinalOutcomes` and `Refinement` hold under
`SlowPreparation = FALSE`, i.e. if no preparation outlasts the stale timeout;
otherwise the recovery takes a task from a living worker, and they are false.
`LockColumns`, `OneExecution` and `CompatibleBatches` hold in both cases; `PipelineGrants`, `CoveredColumns` and
`PipelineLifecycle` need what the former do, as do `CurrentRecovery` and
`PipelineRecovery`. `PipelineFailures` needs `SlowCycle = FALSE` and holds for any
number of request threads. `ClaimsNeverStick` needs a finite set of
sessions: an endless chain of waiters is no deadlock. `NeverTwoBots`, `RecordedBot` and `EarnedHealth`
hold if restarts do not overlap (`~Overlap`); finding 3 is the other case. They also
rest on what `Begins` and `LauncherStarts` say of the operators of the system: nobody
starts the launcher beside a bot or a restart. The named `ASSUME`s only fix types and keep
`NULL` apart from values; `TaskAssumption` makes the set of tasks finite.

Proved and not part of a run: the type invariants, `NoGaps`,
`BatchesAreCompatible`, `CoveredColumnsAgree`, `NobodyIsStuck`, `DeliveriesAreCounted`,
`DiscoveryFindsWork` and `PipelineLifecycle`.

Model-checked only: `PreparedIsClaimed`, `QueuedIsDispatched`, `RequestIsStored`,
`RestartEnds`, `ShutdownEnds`, `SignalEndsRunner` and `IdleSessionIsPinged`. They are
liveness under fairness, which is beyond this prover, as is `ENABLED`;
`DiscoveryFindsWork` and `ClaimsNeverStick` state with ordinary formulas the part of
it that says a step is possible. Every safety property that a passing run checks is
also stated by a theorem.

## 5. Findings and known disagreements

Three disagreements have a run of their own:

1. `lock_tasks` reports tasks as locked after its rollback has released them
   (`locking.py:107`, `:131`), against `locking.py:41`: "Two workers must never
   claim the same task" (`TaskPreparationLockRollback`).
2. Nothing commits a claim (`runner/main.py:93`, `db/session.py:51-68`), and no
   id is given to the execution (`models/task_execution.py:103`), against
   `runner/main.py:37-38` (`ExecutionClaimRunner`).
3. The lock of the restart script is taken in a subshell whose redirection has
   emptied the file before `set -C` could forbid it (`telegram_restart.sh:79`),
   against "Acquire lock to prevent concurrent restarts" (433): two restarts
   start two bots (`TelegramRestartOverlap`). `api_restart.sh:53` and
   `opencode_restart.sh:46` lock in the same way.

Others were met while modelling; the properties are stated so as to hold beside
them.

- `orchestrator/recovery.py`: stale is a task that stays queued "without progress"
  (88-89), but the rows are written by id from old values (219), so that a row
  that moved on in between is overwritten, and a task that a runner has claimed,
  with the `queued_at` of its preparation, is put back although the matrix says
  to do nothing in progress (261). The limit on attempts (256, 260) is applied
  by the recovery only; `release_lock` returns a task to backlog without one
  (`orchestrator/main.py:290`).
- `orchestrator/main.py`: attempts and error are computed from the row as the session
  read it at its discovery. Of two failures in a row the second may count the first
  away, and a worker whose cycle outlasts the stale timeout may fail a task with
  the message it read before the recovery cleared it, which the ORM then leaves
  out: the task has failed and says nothing.
- `orchestrator/git_context.py`: `checkout -b` in the base repository (281) checks
  the branch out there, so `worktree add` (325) refuses it; the first preparation
  of a write task ends as *failed*, unless something moves HEAD in between. Adding
  the worktree with `--force` would make `BranchesAreIsolated` false. "Reuse only
  if worktree belongs to this task and is clean" (47): a directory that is no
  worktree counts as clean, since git prints nothing on its standard output, and
  a directory left by a killed `worktree add` is used as it is (329).
  `commit_sha_before` is HEAD of the base repository, which may be ahead of a
  branch that existed before.
- `runner/error_classification.py`: `find_stale_executions` (458) never looks at
  `created_at`, by which `is_execution_stale` judges an execution that has not
  started, and it has `<=` where the other has `>`. Server errors are documented
  as transient (244-256), but the text of the client's own errors does not match
  any rule, so they are permanent. The jitter is documented as 0-10 % (105, 341)
  and is 10 % in both directions, after the cap (344).
- `runner/recovery.py`: "stale executions do not hang for ever" (212), but the
  update of every decision names `RecoveryAction.RETRY_EXHAUSTED` (354), which
  does not exist, and the exception is swallowed. A retry is scheduled (172),
  but nothing returns an execution to queued.
- `runner/sse_handler.py`: the memory is cleared as a whole at more than 100 ids,
  where the comment has "Keep only last 100" (158-160). All events of a message
  carry its id, so that on the first connection the later ones are dropped as
  duplicates (154). `stream_events` wraps an asynchronous generator in
  `create_task` (192), which raises.
- `runner/result_inspector.py`: `strip()` of the output of `git status` cuts the
  first letter of the first name if it is unstaged (178-180); of a rename only the
  old name is read, and a committed rename hides the deletion; a write task
  without commits passes with uncommitted changes (323); commits that cancel out
  pass a read-only task. A git command that fails or times out is taken for one that
  printed nothing (160-184, 214-221), so that a violated worktree passes; and a
  read-only task is given no `commit_sha_before` (`context_contract.py:112`), so that
  what it commits is never looked at.
- `runner/commit_adopter.py`: a second call during the resolution of a conflict
  reports a conflict of its own (56, 170); a timeout of `rev-parse` gives success
  with no adopted commit. The check for a commit adopted before (281) looks for its
  own sha, but a cherry-pick has a new one: a retry of what was copied copies nothing
  (git finds the pick empty) and is reported for review, or copies it again if the
  change was reverted since. The exit code of the abort is not looked at (321-324).
- `ops/scripts/telegram_restart.sh`: its timeout is the bot's own (8 seconds), so that
  the SIGKILL comes just when the bot's `wait_for` ends. A detail that it wrote
  itself ("stale running state", 163) counts as running when it reads it (385). Its
  removal of a stale PID file (137-139) is a check followed by an `rm`: the bot of the
  launcher may write its pid in between. The script then stops this bot, but if it is
  killed first, a working bot is left without an entry; `WorkingBotIsRecorded` exempts
  exactly this.
- `workers/telegram/bot.py`: the reporter writes "running and polling" as soon as it is
  started (539), before `start_polling` has returned (543), if it ever does. It may write *ok* after the *not_ok* of a
  shutdown that has begun (467), until it is cancelled. A signal before
  `initialize` returns stops the application; then the PID file is written and
  polling starts all the same. The interval of the reporter may be set to 60
  seconds (`settings.py:94-99`), which is also the age at which the file is stale
  (`health.py:14`). A disabled bot reports *not_ok*, so that the system's health is
  ERROR; so does one that is starting.
- `orchestrator_legacy.py`: the wait after a kill may raise `TimeoutExpired` (99),
  and the API is left running; no bot is looked for before one is started, and no file
  of an earlier one is removed, so that until the new bot writes its own the health
  of the dead one is answered; a
  restart of the API alone ends the launcher and its bot.
- `runner/watchdog.py`: a ping is not an activity, so the pings of an idle session
  follow each other at the poll interval, and their counter is never reset (225);
  pings that fail are not counted. `main` uses a configuration in which the
  watchdog is off (`runner/main.py:226-238`). `HealthIsEarned` and
  `IdleSessionIsPinged` are stated so as to hold beside these.
- `workers/telegram/commands.py`: the answers of a `/create` are kept per user, the
  conversation per chat, so that conversations in two chats mix their data; a
  task is created without idempotency key, so that a prompt repeated after a
  timeout of the client creates a second one.
- `tasks/service.py`: on SQLite two requests compute the same number (195), and
  the second is told 409 for a task that does not exist (144).

## 6. Not modelled, and why

- The rest of the SSE parser (an event type carried over to the next event), close
  beside a reader, a connection lost while the server goes on: text and transport.
- Validation of fields, formatting, metrics, prompts, logging: no control flow
  depends on them.
- Commands and notifications of the bot: handlers of single messages, run one after
  the other, that call the API and format its answer. What a created task goes
  through is `TaskIntake`; the conversation's state belongs to the library.
- The restarts of the API and of OpenCode: the same script but for the health file.
  Routing and authentication decide nothing about state.
- Of the launcher, the API process and a `terminate_process` that raises; of the
  health checks, malformed results, which none of them returns.
- `WriteTaskRecovery` (`runner/recovery.py:404-736`), execution plans and dependencies,
  the validator hook: code without a caller or an effect; see the table of
  components in `PROJECT.json`.
- A task whose preparation keeps failing returns to backlog without a limit on its
  attempts (`orchestrator/main.py:290`): there is no bound in the code to state.
- Migrations, engine, pool: run before, or belong to, the libraries. The unique
  index on active executions is part of the models that rely on it.
- SQLite, except for the disagreement above: the models assume PostgreSQL.

## 7. Plan

Order of construction, the core first: (1) preparation and recovery, with the
abstract life of a task; (2) the claim, with the abstract queue, and their
composition; (3) dispatch, retry policy and stale recovery; (4) events;
(5) intake; (6) inspection and adoption; (7) the git context; (8) the processes of
the bot with launcher, restart and health; (9) the lifecycle of a runner with its
watchdog. These are done.

What is left:

- *Git context and preparation together*: the outcomes of `GitContext` as those of
  `PrepareSucceeds`, `PrepareRejects` and `PrepareReturns`, and with adoption:
  what is adopted is what was inspected.
- *Abstract intake*: a specification of what an answer promises, of which `TaskIntake`
  is an implementation, with its refinement proved like `ClaimRefinement`.
