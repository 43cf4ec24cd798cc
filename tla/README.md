# A verification project for Suto's durable job runtime

Suto is a local-first automation runtime. CLI, TUI and HTTP processes and one
standalone worker process share a SQLite database; the worker claims durable
jobs from it, runs each through the agent runtime and writes the outcome back.
This directory models the part of that system whose correctness depends on the
order in which several processes, tasks and crashes step: the job store, the
worker and the attempts it runs; what one job writes, and the approvals it
needs for that; the schedules that create jobs; the users who act on the same
rows; and, each by itself, the services around the queue: budgets, plans, the
library, agent runs and their stream, reminders, notices, conversations, voice,
tools, the knowledge index and upgrades.

Paths below are relative to `src/`.

## 1. Inventory

| Component | State | Operations | Interacts with |
|---|---|---|---|
| Job store (`workflows/storage/store.py`, `migrations.py`) | `jobs`, `job_attempts`, `job_stats`, audit tables; every method is one transaction | create, claim, complete, fail, block, interrupt, resume, cancel, recover | everything; SQL triggers write attempts, notifications, counters |
| Subtasks (`storage/subtasks.py`) | `jobs.parent_id`, options | create_subtask, wait_for_children, reconcile_children | runner (create, join), worker (reconcile) |
| Worker (`runtime/worker.py`, `application/worker.py`, `storage/locking.py`) | `_tasks`, `_stopping`, `_wake`, advisory lock | start (recover, loop, drain), stop, cancel, resume, approve | store, scheduler, runner; one asyncio loop |
| Runner (`runtime/runner.py`, `options.py`, `checkpoints.py`) | one coroutine per attempt | prechecks, budgets, retries with backoff, join, verification gate, verdict | executor, store, subtasks, approvals |
| Approvals (`store.py` 1283-1596, `application/automation.py`) | `approval_requests` | request or consume, decide, expire, invalidate | runner, users |
| Schedules (`runtime/scheduler.py`, `store.py` 1934-2496) | `schedules`, `trigger_history`, snapshots | create, enable, upgrade, due, fire, retry | worker tick, job store, library |
| Plan steps and evidence (`store.py` 908-1193, 1598-1630) | `job_steps`, `change_events`, `command_events` | write plan, update step, record change / command, verification gate | tools, runner |
| Automations and skills (`store.py` 2498-2913, `workflows/library`) | versioned rows, pins | create, revise, import a bundle, snapshot into a schedule | schedules, jobs |
| Operations (`storage/operations.py`, `interfaces/cli/operations.py`) | `runtime_settings`, `worker_state`, `notifications` | configure, heartbeat, cleanup, present and acknowledge notices | admission trigger, worker, consoles |
| Skill proposals (`storage/skill_proposals.py`) | `skill_draft_proposals`, its event log | detect, propose, approve, reject, delete, redact | jobs, skills, cleanup |
| Upgrades (`migrations.py`, `locking.py`) | schema, `user_version`, backups, two lock files | back up, migrate, refuse | every process that opens the store |
| Agent runs (`storage/runs.py`, `interfaces/api/server.py`, `agent/subagents.py`) | `agent_runs`, in-memory sessions and tasks | create, cancel, delegate, finish, recover | HTTP clients, other servers |
| Event stream (`interfaces/api/server.py` 301-333) | `run_events`, an `asyncio.Event` | list, write, wait, reconnect | agent runs |
| Agent runtime (`agent/runtime.py`, `agent/state.py`, `ai/execution/loop.py`, `tools/executor.py`) | run state, messages, counters | model call, tool call, limits, report | providers, tools, permissions |
| Permissions (`permissions/*.py`) | pending interactive requests | ask, answer, expire, cancel | agent runtime, interfaces |
| Tool access (`ai/execution/request.py`, `mcp_integration/manager.py`, `agent/subagents.py`) | clients of MCP servers, a tool registry | start, list, offer, delegate, close | agent runtime, external servers |
| Reminders (`assistant/tasks/*`) | `reminders`, deliveries | create, reschedule, cancel, claim, deliver, retry | consoles, senders |
| Conversations (`assistant/conversations`, `sessions`, `context`) | `messages`, `session_summaries` | append, compact, prompt, clear | agent runs |
| Voice (`interfaces/voice/controller.py`) | one turn, the open question, the chosen skills | listen, run, speak, cancel, switch | agent runs, conversations |
| Knowledge index (`storage/knowledge.py`) | `knowledge_files`, `knowledge_chunks` | index, search, clear | the workspace's files |
| Identity, memory, workspace reading, sandbox, providers, planning, web, CLI | rows of one user, or stateless or external | | |

### What is hard here

* Two processes write the same rows with no coordination but a transaction:
  a user's cancel, resume or decision may fall between any two transactions of
  the worker.
* The reports of an attempt (`complete_job` ...) name the job and not the
  attempt, and are guarded by `status='running'` only.
* `reconcile_children` and `wait_for_children` + `complete_job` read in one
  transaction and write in another.
* Cancellation has three channels: the row, `task.cancel()`, and
  `budget_check`; one of them can be lost (`RequestProgress.stop`).
* A crash, or a pass that raises, leaves rows `running` that nobody executes.
* Attempt history is written by a trigger on some edges of the status graph.
* A tool call that needs an approval reads the clock and the file, consults the
  approvals, acts and records in four steps, with users, editors and crashes
  between them; the record may be lost after the act.
* Budgets are computed from counters that lag behind what is spent, and that
  some ends of an attempt overwrite.
* The services around the queue have races of their own: several servers on one
  table of runs, several senders on one reminder, a stream whose reader sleeps on
  an event that is replaced, answers that race their timeout, imports and
  revisions that interleave, upgrades that crash half-way.
* A tick of the scheduler reads the clock once and works through two lists, one
  transaction per item; users, jobs and other ticks step in between, and the
  tick may end anywhere.

### What makes each component correct

* Job store: the status graph; attempt rows that agree with the job; no attempt
  beyond the limits; history never rewritten.
* Worker and runner: a row that says "running" is being executed; one attempt
  reports for itself only; a queued job is started, if need be on a day that has
  tokens left, and a cancelled one stops.
* Subtasks: one level; a parent completes over completed children; joins end;
  orphans come to rest.
* Approvals: one action each, granted before its expiry, used once, and void
  once the job is cancelled; a job that waits has something to wait for.
* Evidence: recorded writes chain; a completed job verified what it left.
* Schedules: each occurrence settled once, with one job or none; no backlog; no
  overlap; retries one at a time within the limit; nothing due is forgotten.
* Budgets: a job and its subtasks together stay within the job's limits, but for
  the last answer of each and its corrections, and the day's quota counts every answer, but for those
  of a cancelled job or of a worker that dies over the corrections of one.
* Plans: one step under way, none reopened, none unfinished in a completed job.
* Library: what runs is what was pinned; links go forward only.
* Agent runs: one execution per session, in agreement with the table; runs are
  lawful: states, grants, limits, whole exchanges; a client of the stream is
  sent a prefix of the events in order, lacks after a close at most what was added
  during the last writes, and gets that by connecting again; a child has no tool
  its parent lacks.
* Reminders and notices: shown as often as the tables say, in order, none lost.
* Proposals: decided once, on evidence that spans days.
* Conversations: a message is in the summary or in the history of a prompt,
  unless ASCII escapes in calls make the history longer than the summary assumed.
* Upgrades: a version counts whole migrations, and a backup precedes the first.
* Voice: no answer and no open question is lost to the next turn.
* Knowledge: what a search returns is in the file it names.

`PROJECT.json` lists the hazards of this code, at the line where each bites.

## 2. Modules

| Module | Models |
|---|---|
| `JobLifecycle` | abstract: the status graph of a job, and that an attempt starts only from the queue and under the concurrency limit |
| `JobStore` | the tables `jobs` and `job_attempts`, one operator per method that changes a status |
| `AutomationWorker` | composes the store with the worker loop, the attempts, users, shutdown and crash; implements `JobLifecycle` |
| `ExactApproval` | abstract: a permit is for one action, granted by a user, used once, and the action takes effect once |
| `ApprovedWork` | one job's tool calls, approvals, evidence, checkpoint and verification gate; implements `ExactApproval` |
| `OccurrenceLog` | abstract: occurrences are settled once and in order, by a job of their own or none, and retried one attempt at a time |
| `Schedules` | schedules, their history and jobs, and the ticks of any number of processes; implements `OccurrenceLog` |
| `Budgets` | tokens, calls, the day's quota, the shares of subtasks, retries inside an attempt, corrections of the language, cancels |
| `PlanSteps` | the rows of a job's plan, and the gate that reads them |
| `Library` | skills, automations, pins of jobs and schedules, imports of bundles |
| `SkillProposals` | drafts, their evidence, decisions, log and redaction |
| `Notices` | the inbox of job notifications and the consoles that print it |
| `Reminders` | tasks, reminders, announcements and deliveries |
| `AgentRuns` | the runs of several API servers: table, reservations, tasks, children |
| `RunStream` | the readers of one run's events |
| `AgentRuntime` | one run: states, turns, tool calls, permissions, what is saved |
| `ToolAccess` | which tools a request and its child may use, and the MCP clients behind them |
| `Conversations` | messages, compaction, prompts |
| `VoiceTurns` | the voice controller |
| `Migrations` | opening and upgrading the database |
| `Knowledge` | the index of a workspace |
| `AutomationWorkerProofs`, `ApprovedWorkProofs`, `ScheduleProofs` | the theorems about the queue |
| `ServiceProofs` | the theorems about plans, the event stream, the index, upgrades and budgets |
| `LibraryProofs` | the library and draft skills |
| `DeliveryProofs` | what reaches the user: notices, reminders, conversations, voice |
| `AgentRunProofs` | runs on several servers, one run's loop, its tools |
| `CompositionProofs` | the services together: every invariant and property of the run of `MCServices` |
| `MCWorker`, `MCApproval`, `MCSchedule`, `MCServices` | the values TLC needs |

The three detailed specifications look at the same jobs from three sides.
`AutomationWorker` has approvals as one step into and out of
`waiting_approval`, and a tick as one step that queues a scheduled job.
`ApprovedWork` has one job whose attempts do not overlap, which is what
`SerialExecution` shows of the worker with its default concurrency of one.
`Schedules` has jobs that move along the edges of `JobLifecycle`
(`Successors`) as they like.

The services around the queue are each a module of their own. What they share
with others is a table another module also describes from its own side
(`agent_runs` in `AgentRuns` and `VoiceTurns`, jobs in `Notices`, `PlanSteps`
and `Budgets`), and each allows there every step the other may take.
`MCServices` puts them side by side: no two of them share a variable, so each
is explored alone, by a `focus` that is chosen in the initial state, with one
run and one set of bounds for all.

Operators marked "Mutant" are wrong versions of the definition that follows
them. No action uses them; they are there to show that the properties can fail.

### JobStore

`status[j]` is `jobs.status`, `parent[j]` is `jobs.parent_id`, and `rows[j]` is
the sequence of the statuses of `j`'s `job_attempts` rows by ordinal. Jobs are
numbers in `created_at` order because `claim_next_job` serves them in that
order. Every operator is one `with self._connect() as db:` block. `Commit`
performs the `UPDATE jobs SET status` and the `job_attempt_status` trigger that
follows from it. `overQuota` says whether the day's tokens have reached the
quota, which is all that `claim_next_job` asks of them; `UseTokens` of the worker
is an answer that reaches it, `DayEnds` the next `date('now')`. Abstracted:
prompts, results, errors, timestamps, amounts of tokens.
`MaxAttempts` bounds how often users and schedules requeue one job.

### AutomationWorker

`pc` is the position of `AutomationWorker.start`: `recover`, then passes of
`reconcile`, `orphans`, `poll`, `tick`, `claim` and `wait`, and `drain` for the
`finally` block; `down` when no process holds the lock. A pass awaits nothing,
so attempts step only in `wait` and `drain`; users step at any time. `tasks`
holds the asyncio tasks that are not finished (or failed), `dict` is `_tasks`:
filing a task under a job id that an earlier attempt still occupies overwrites
the entry, as the code does. A task is `new` until its first step, `exec`
inside the runner's `try`, `unwind` when it has asked for an approval, `joined`
between the child join and the verdict (no await between them, so it keeps the
loop: `Busy`), `error` when it raised, `dropped` when cancelled before its
first step, and `teardown` when the lock was released before it ended.

Every branch of `JobRunner.run` ends in one of `Complete`, `Fail`, `Block`,
`Join`, `Unwound`, `TimeoutInUnwind`, `Raise`, `DeliverCancel`, `NoticeCancel`;
which of them is taken is the executor's choice, made by nondeterminism.

The CLI and the HTTP service act through the database only (they construct
their services without a worker object), so `request_cancel`'s direct
`task.cancel()` has no caller; a cancel reaches a task by the worker's poll or
by `budget_check`.

Faults: `Stop` is a shutdown signal, `PassFails` a transaction that raises in
the pass, `Crash` the death of the process. `MaxFaults` bounds the last two.

### ApprovedWork

`requests[i]` is a row of `approval_requests`, `changes` and `commands` are the
rows of `change_events` and `command_events`, `file` is the one file the job
writes. The digest of an action is the action itself: a write with the hashes
before and after, a verification, or another command. `pc` and `call` are the
attempt: `begin` (the checkpoint), `think` (the model), `ask`
(`request_or_consume_approval`), `act` (`os.replace`, the command), `audit`
(the record). `call.stamp` is the clock as it was read before
`BEGIN IMMEDIATE`; `Tick` lets at most `Lag` (the ten seconds of the
connection's timeout) pass before the transaction has its lock or gives up.
`decisions` are users' processes that have read the clock and the request and
not yet written. The order of a command event and a change, which the code
tells by timestamps, is `seen`, the number of changes recorded before it.

The gate looks at the last `Window` command events, 100 in the code and 2 in
the runs, so that a verification does fall out of it. The three ghosts say what
the tables cannot: `effects` what was done under each request, `dirty` whether
the last write was verified, `strayed` whether somebody edited the file during
an attempt or a write went unrecorded.

### Schedules

`nextRun`, `enabled` and `rows` are the table `schedules`; a row of
`trigger_history` is a record, and its place in `history` its id; the
idempotency key is `<<schedule, time, attempt>>`. One unit of time is the second
by which an occurrence may be late and still not be missed. A tick is
`StartTick` (the clock and `list_retryable_triggers`), a `Retry` for each
trigger, `ListDue`, a `Fire` for each schedule, and `EndTick`. `Fire` is
`fire_schedule`: it passes over an occurrence that is not the schedule's any
more (`Stale`), skips one that is missed, denied or whose schedule is busy
(`GivenUp`), or creates its job, unless the quota trigger refuses the insert,
which ends the tick (`Refuse`), or the MCP policy does, which makes the tick
call `fire_schedule` again (`Deny`). `Following` is `next_run_at` as the tick
computes it from its own clock. A refusal by the submission rate is counted
among the faults (`LoseTick`). Cron is a grid of period `Period[s]`.

The worker lock admits one ticking process and `scheduler.tick` has no caller
but the worker, so the runs have one ticker. The specification allows several
`Tickers`, so that in the proofs the idempotency keys, and not the lock, carry
the argument.

### The services

* `Budgets`: `stage[j]` is the position of an attempt between the checks of
  `JobRunner.run`, `pass[j]` what the attempt keeps in locals and in the model
  loop, `counted`, `called`, `claimed`, `retried` and `limit` are columns.
  `spent` is what answers really took, `dropped` says whose counter was
  overwritten with less. `Count` is `update_job_usage` with the trigger behind it:
  it passes over a job that is `void`, that is cancelled, executing or not, and
  `late` keeps what answers took that no row counts. A final answer may be
  corrected up to `MaxCorrections` times with no look at the budget between
  (`AskCorrection`, `CorrectionCosts`); its tokens reach the row with the next
  emission only (`Unsaved`). A subtask is created inside a tool call of the parent,
  which will be counted itself. `Total`, the SUM of a column, counts a set of
  units rather than adding up, so that the prover can reason about it.
* `PlanSteps`: a row is its status and whether it has a result. The gate reads
  (`ReadPlan`) and writes its verdict (`WriteVerdict`) in two transactions.
* `Library`: texts are values, version numbers are places in a sequence. An
  import looks at each skill of its bundle, writes it if it is new or differs,
  and publishes the automation, each in a transaction of its own; others revise
  and import in between. `pinned[j].got` is what attempts of a job were given.
* `SkillProposals`: jobs complete in any order over some days. The triggers on
  the table of drafts are conjuncts of the operations (`Logged`, `UpdateDrafts`).
* `Notices`: a console is `poll`, `show` or `ack`; its cursor moves before the
  acknowledgement, which may fail and is tried again.
* `Reminders`: a claim is a reminder and the time it was claimed at. A sender
  claims, asks again whether the reminder is wanted, sends and reports; it may
  die after each. Reports name the reminder and not the claim. `doubts` counts
  the claims that were taken over or settled by somebody else, which the code
  accepts as the price of at-least-once delivery.
* `AgentRuns`: `runRows` is the table, `active` and `beginning` are a server's
  memory, `runTasks` its asyncio tasks. A new process has a new `epoch`, which
  stands for the pid and start time in the row. `begin_agent_run` is two
  transactions; storage calls may raise.
* `RunStream`: `signals` counts the replacements of the event; a reader holds
  the count it last saw. A reader suspends at each write, and looks at the status
  after the last one without listing rows again: it may close before it has sent
  what was added meanwhile, the terminal event included. A client whose stream
  was closed may connect again with its Last-Event-ID (`Connect`).
* `AgentRuntime`: `trail` keeps the states of one step, so that a step that
  goes through several is judged by each transition. `thread` is the list of
  messages, `saved` the session's rows. `MayAsk` is the constant
  `CLARIFICATIONS_ENABLED` of `application/modes.py:8`, which this release sets
  to False; the branch it guards is modelled and checked with it.
* `ToolAccess`: one native tool stands for each group the code grants as a
  whole; the servers start one after the other, fail, answer any list and are
  closed in reverse; delegation narrows by request, role, policy and skill.
* `Conversations`: a message is its id, role and two sizes: `size` as its row is
  stored, `shown` with the ASCII escapes `ContextManager.history` counts in its
  metadata. The summary's cutoff and `conversation_history` cut by the first,
  `history` cuts the result by the second (`Fitting`). `folded` is every id the
  summary was given; the rows it has are a prefix of the conversation, so a batch
  is a `SubSeq`. A prompt is a set of rows, since their ids order them.
* `VoiceTurns`: `phase` is where `run_once` awaits. The control task cancels,
  answers, switches sessions and skills; another process may hold the session.
* `Migrations`: two markers stand for what a migration's script creates, four
  kinds for how `initialize_database` guards them. A process ends anywhere and
  SQLite undoes its transaction.
* `Knowledge`: `files` is the workspace, `walk` the transaction of one indexing
  and `search` a search that opens each file again; users edit all the time.

## 3. Runs

| Run | Bounds | Shows |
|---|---|---|
| `MCSerial` | 2 jobs, one scheduled; concurrency 1; 2 attempts; 2 faults | one attempt at a time, none reports for another, a clean release |
| `MCOverlap` | 2 jobs, 1 delegates; concurrency 2, one workspace; 2 attempts; 1 fault | executed running jobs, the ledger, completed parents and the refinement to `JobLifecycle`, also when attempts of one job overlap |
| `MCLive` | 2 jobs, 1 delegates; 2 attempts; no crash, but stops and restarts | nothing queued starves, joins end, orphans settle, and a cancelled job's execution ends by polling |
| `MCPermits` | 3 requests, 2 users deciding, clock to 2, TTL and Lag 1, 3 attempts, 1 fault | the refinement to `ExactApproval`; waiting jobs have a request; cancels revoke; nothing is used late |
| `MCChain` | 3 requests, 1 user, 4 attempts, 1 edit by somebody else, 1 fault | recorded writes chain; completed jobs are verified |
| `MCOccurrences` | 2 interval schedules of period 2, one created; late occurrences run or are skipped; 1 retry; a queue of 2 shared with 1 other job, clock to 4, 1 lost tick | the refinement to `OccurrenceLog`; no overlap but by a resume; no backlog; a schedule never waits for an occurrence it has settled |
| `MCDue` | a one-time and a cron schedule, 1 retry after a delay, a queue of 2, clock to 2, 1 lost tick | what is due is settled, what failed is retried |
| `MCServices` | see below | one property for each service, and the types |
| `MCWorkspace`, `MCResumable`, `MCUnverified`, `MCTokens` | as small as the case allows | four sentences of `docs/operations.md` the code does not keep (section 6) |

Two jobs are enough for a parent and a child, a holder of a slot and a waiter,
and an oldest and a younger job; that delegation stays one level deep is a theorem. Two
attempts let a late attempt meet its successor. Two faults let a second crash
hit the recovery from the first. Three requests are a write, its verification
and one that the third sweeps; the clock passes an expiry and a lag.
A clock of 4 gives a schedule of period 2 an occurrence, a tick that comes two
seconds late for it, so that it is missed, and the occurrence after. `MaxRows`
is how many schedules are created in a behaviour, `MaxForeign` how many jobs no
schedule created may be queued: in `MCOccurrences` the one schedule may be of
either kind, and its jobs share the queue with a stranger.

What a run does not reach: `MCOverlap` counts the rows that run, and executions
are counted by `SerialExecution` only, with concurrency 1; `MCLive` has
concurrency 1 too, so no entry of `_tasks` is overwritten in it; `MCDue` has no
strangers in the queue and its liveness excuses a full one; in `MCServices` each
server starts once and one importer works. A second epoch of a server and two
importers at once are covered by the theorems `RunsExclude` and `LibraryPinned`.

Bounds of `MCServices`, by service (`MCServices.cfg` names each constant):

| Service | Bounds | Property |
|---|---|---|
| tasks, reminders | 2 reminders, 1 with a target, 2 senders, 1 console, 1 task, clock to 2, 1 reschedule, 1 failed send | `RemindersReach` |
| runs | 3 runs, 1 session, 2 servers that start once, 1 write that raises | `RunsAreExclusive` |
| stream | 3 events, 2 clients, 1 broken connection | `StreamIsTrue` |
| runtime | 2 tools, one of which needs approval, 3 turns, 3 calls, 2 in one answer; the third of the same call is refused | `RunIsLawful` |
| budgets | a job of 3 tokens and 3 calls, 1 subtask of 1 and 1, a day of 3, answers of 1 or 2, 1 correction, 1 retry, 3 attempts together | `BudgetsHold` |
| plans | 3 steps, 2 plans, 2 resumes | `PlanIsTrue` |
| library | 1 skill, 2 texts, 2 versions, 1 importer, 1 job, 1 schedule, 2 policies | `LibraryIsPinned` |
| proposals | 2 workflows, 4 completions over 2 days, 2 drafts | `ProposalsHold` |
| notices | 2 consoles, 2 notices, batches of 2, 2 failures, so that an acknowledgement fails twice | `NoticesReach` |
| conversations | 5 messages, 2 kept, batches of 2, escapes in calls and their ids, 1 clear or stop | `NothingForgotten` |
| migrations | 4 migrations, one of each kind, a host of release 2 and one of release 4, 2 backups | `SafeUpgrades` |
| voice | 2 turns, 2 sessions, 1 skill, 2 switches | `TurnsAreKept` |
| tools | 2 servers, 4 answers, 2 roles, 2 skills, 2 cancels | `AccessHolds` |
| knowledge | 2 files of 2 texts, a quota of 3 chunks, 1 edit | `IndexIsTrue` |

Each has the second actor, and the fault, that its hazards need: a second sender
takes over a stale claim, a second server recovers the first one's runs, a
second answer crosses the limit a first one reached, a quota fails after one
file was written, and a crash falls between every two transactions of an upgrade.
A property of a service is the conjunction of the named parts above it in its
module. `MCServices` sets `CHECK_DEADLOCK FALSE` because every service but one
stands still and most come to an end.

`ApprovedWork`'s runs set `CHECK_DEADLOCK FALSE`: its job completes, or is out
of attempts or requests, and nothing is left to do.

### Fairness

`LoopFairness`: the worker loop is weakly fair (the poll timeout wakes it every
second at the latest), including the start of a worker when there is none,
which is what a service manager does; a task's own prompt steps are strongly
fair, because asyncio runs a ready task whenever the loop is idle, and the loop
is idle again and again rather than continuously. `LimitFairness`, used only
where a property needs executors to end, is the `asyncio.wait_for` around the
executor with the job's remaining time. It assumes nothing of the executor of a
cancelled job while the worker polls: there the cancel itself has to arrive.
`WF(DayEnds)`: every day ends, so that a quota that is used up holds the queue
back for the rest of a day. Users, schedules and faults are never fair.

`Schedules` has the same fairness of the worker in its own terms: the steps of
a tick are weakly fair because every pass of the worker calls `tick` and a tick
awaits nothing, and time passes. Jobs, users and the rest of the queue are not
fair, so the liveness properties excuse a paused schedule, a busy one (for a
retry) and a full queue.

The services are checked for safety only. Where a service must not be left
behind, the property says so of every state: `NoneIsOrphaned` (an active run of
a living process is somebody's), `NoLostWakeup` (a reader that waits for what is
there already has been signalled).

## 4. Proofs

`tlapm` proves the following for all values of the constants that the `ASSUME`
of each module admits, hence any number of jobs, requests, users, schedules,
ticking processes, attempts and faults.

**The worker over the store** (`AutomationWorkerProofs`)

* `TypeCorrect` and `LedgerTrue`: `TypeOK /\ AttemptLedger` is inductive. The
  ledger is what makes the trigger's `CloseRow` well defined (the last row
  exists whenever a running or waiting job leaves its status), so type
  correctness and the ledger are proved together: once, that every change of
  status along an allowed edge keeps both (`ChangeKeeps`), and one lemma per
  kind of operator that it is such a change.
* `HistoryKeptForGood`: the action property, from the same invariant.
* `OneLevel`: `NoNestedDelegation`, with the strengthening that a parent is a
  created job and that a job which is not created has no children.
* `JoinSound`: `CompletedParent`. It is not inductive: the verdict comes in a
  later transaction than the join. `JoinInv` says in addition that while a task
  is `joined` its job is either no longer running or has no unfinished child,
  that only one task is `joined`, and that the loop is then in `wait` or
  `drain`, where no pass can touch the children; that users cannot move a
  completed child is what remains.
* `LimitsHold`: `Admission`, since only a claim adds a running row and it counts
  first. That this holds of rows and not of executions is the first finding.
* `Implements`: `Spec => LifecycleSpec`; every step maps to `Start`, `Move` or a
  stutter.

**The attempts it executes** (`AutomationWorkerProofs`)

* `Executed`: `RunningIsExecuted`, although `_tasks` forgets a task when a later
  attempt of the job is filed over it. `ExecInv` says of a running job that its
  latest task is the one filed, that no task is for an attempt the job has not
  had, and that a task which unwinds for an approval is not the latest of a
  running job.
* `ReleasesCleanly`: `CleanRelease`, from `Executed`, since the lock is released
  only when every task has settled.
* `Serial`: `SerialExecution`. With one slot every task the worker owns is filed,
  for its job's latest attempt (`SerialInv`), and the worker claims only while
  `_tasks` has room; that is why it holds although a cancel frees the row at once.

**Approvals and evidence** (`ApprovedWorkProofs`)

* `WaitsForSomething`, `CancelIsFinal` and `Fresh` need what the code relies on
  without saying it: at most one request is active, and an active request
  belongs to a job that waits, is queued or runs.
* `ApprovalIsExact`: `Spec => PermitSpec`. A call in `act` names a consumed
  request for the call's own action under which nothing was done yet.
* `Chains` and `Verifies`: unless an edit or a lost record has `strayed`, during
  an attempt the file holds what the last change recorded left, which is what
  the checkpoint establishes at its start.

**Schedules** (`ScheduleProofs`)

* The invariant `IInv` adds to the properties: what a tick still has to settle
  is due by its own clock (`TickInv`, or else the schedule might advance
  backwards); history is of existing schedules; a row and its job agree on the
  schedule; every job has a row, so the overlap guards overlook none; blocked
  jobs are remembered (`StoreInv`).
* `AlwaysAdvances`: `NeverStuck`, since `Following` is after the occurrence for
  every kind and policy (`FollowingAfter`).
* `NoOverlap`: `OverlapOnlyByResume`.
* `LeavesNoBacklog`: `NoBacklog`. `BacklogInv` adds that the occurrence a schedule
  waits for is after the clock of every tick that settled one of its occurrences,
  unless that tick was in time (`Ahead`).
* `Implements`: `Spec => LogSpec`. `NeverStuck` makes each occurrence later than
  all before it; a new job has a number no row has; a retry is the attempt
  after the last because the check for a newer one and the insert are one
  transaction.

**The services.** Each theorem states the type invariant of its module with the
property. `Spec => []Inv` is proved from the invariant named here; what makes it
stronger than the property is what the code relies on without saying it.

*Runs, their loop, their tools* (`AgentRunProofs`)

* `RunsExclude`: `RunsAreExclusive`. The inductive invariant `RunsInv` says which
  process a row can belong to: whoever is between the two transactions of
  `begin_agent_run` lives and holds no task of the session yet (`BeginsAlive`);
  what executes has an active row of a living process (`TaskRows`,
  `ExecutedRows`); a session has one active top-level row (`OneActiveRow`), which
  is what recovery and the unique index leave; a child's row is in its parent's
  process and session (`Families`), and is active only while that parent
  delegates (`ChildrenClosed`); a reservation is for a row of the same session
  (`HeldRows`).
* `RunsAreLawful`: `RunIsLawful`. `RuntimeInv` ties the point a run is suspended
  at to the states it may be in (`StatesAt`); a call that is about to be
  requested is of a known tool, has been granted, and has its place among the
  calls and among the repeats of its kind (`CallInOrder`), so that the counters
  bound what was executed (`CallsCounted`); between an answer and the last of its
  observations exactly the calls that are left are unobserved, and they belong to
  the last message that made calls (`Underway`). A run that ends between them, by a
  refusal, a failure or a cancel, asks no model again and saves nothing of that
  exchange: `append_exchange` is called when all its observations are there.
* `AccessIsRight`: `AccessHolds`. While the servers are started one after the
  other, a client that exists is of a server the walk has reached (`Reached`) and
  only the last of them is connecting (`Settled`); what is open is on the list
  that `close()` works through (`OpenIsKept`); what was found has an open client
  (`FoundIsOpen`).

*What reaches the user* (`DeliveryProofs`)

* `NoticesAreSeen`: `NoticesReach`. What is left of a console's batch is beyond
  its cursor and what it has printed is not; what awaits its acknowledgement was
  printed or asks for an approval nobody waits for (`ConsoleInv`).
* `RemindersArrive`: `RemindersReach`. The property alone says nothing of what
  is on its way. `Accounted` does: the times a reminder was shown, the claims for
  its present time that may still show it, and one if nobody has claimed it yet,
  are together at most one more than the doubts. A claim turns the waiting one
  into a live one, a send a live one into one shown, a stale claim adds a doubt
  with the claim, and the report of another's claim adds the doubt with the retry
  it causes. `TitleOf`, times and retries are arbitrary.
* `ConversationsAreWhole`: `NothingForgotten`. Live rows have consecutive ids
  ending with the last one given out (`ConversationInv`), so the cursor cuts them
  in two and the rows a summary has are the first `Passed` of them; each
  observation stands after its call (`Answering`). A prompt is built when nothing
  below the cutoff is left to fold, so a row it lacks is one that `history` cut
  off and `conversation_history` did not (`CutFits`, `CostsShrink`), or an
  observation whose call is such a row or folded.
* `TurnsKept`: `TurnsAreKept`. `TurnHasRun`: only the phase that thinks has a
  run that is running, it is the last, and its words are the last of the session.
  The rest is that the conversation of every other run is left alone.

*Skills* (`LibraryProofs`)

* `LibraryPinned`: `LibraryIsPinned`. Rows of versions are only added, so what a
  job or a schedule was given is still what its version says (`PinsTrue`); an
  import between its transactions has seen only versions that exist
  (`ImportsTrue`), and whatever others did meanwhile has only added to them.
* `ProposalsAreKept`: `ProposalsHold`. A log is one of six (`Logs`) and its last
  entry the status of the row; the evidence of a detected draft was three runs on
  two days when it was chosen, and completed jobs stay as they are. The lemma
  `EvidenceSpans` shows it of the choice: the latest run, the latest of another
  day and the latest of the rest exist and differ.

*Budgets, plans, stream, index, upgrades* (`ServiceProofs`)

* `FamiliesStayWithin`: `BudgetsHold`. `LimitKept` says of every position of
  an attempt what room is left when it gets there: a call under way has its place
  besides what is reserved for subtasks, a model that was asked has one token, and
  a final answer the corrections it has left (`Rest`, `Room`). `AnswersKept` says
  how much of what is under way a cancel or a death may still leave uncounted
  (`Risk`), so that each claim pays for one. `MostKept` relates what subtasks may
  take at most to what the parent has reserved, `QuotaKept` the day's usage to the
  answers that are awaited.
* `PlansAreTrue`: `PlanIsTrue`. A verdict that completes the job has read a done
  plan, and nothing writes the plan between that and the verdict.
* `StreamsAreTrue`: `StreamIsTrue`. What was added after a reader took
  its signal has moved the signal on (`ReaderInv`), whether it is about to wait
  or to close. That everything is sent is no part of it and does not hold.
* `IndexesAreTrue`: `IndexIsTrue`. The tables are whole in every state of a walk,
  and what it stored is among what the files held meanwhile.
* `UpgradesAreSafe`: `SafeUpgrades`. Whoever prepares or applies holds the
  migration lock, so it is alone (`Locked`), and what it read of the version and
  the tables is true until it writes (`SeenIsTrue`); a store without tables is at
  version 0 (`EmptyFirst`).

*Together* (`CompositionProofs`)

* `EachIsItself`: a behaviour of `MCServices` is one of each service, because no
  two of these models share a variable and each step is a step of one.
* `TypesHold` and `ServicesKeepFaith`: hence `ServicesTypeOK` and every other
  invariant and property that run checks, for all values of the constants.

With that every safety property a passing run checks is a theorem. `Admission`,
`NoNestedDelegation` and `HistoryImmutable` are checked by no run: the theorems
carry them.

The theorems rest on the `ASSUME` of each module and nothing else. Those of the
services say that bounds are numbers, that sets that are counted are finite, and
what the configuration guarantees (`MaxAnswer` at least 1, no MCP server called
as the native tools are, releases no newer than the latest schema).

Only model-checked: every liveness property, which the prover cannot treat, and
the four findings, which are counterexamples of TLC.

## 5. What is not modelled

* The settings are constants: an operator who lowers `concurrency` while jobs
  run breaks `Admission` until they end, by design.
* Heartbeat, metrics and log rows, and the retention cleanup of jobs: they change
  no live job. Cleanup deletes the events, changes and commands of jobs that have
  completed, failed or been cancelled a day ago or more, none of which can run
  again. What cleanup does to notices and drafts is modelled.
* In `AutomationWorker` the tokens of a day are a flag that any answer may set;
  amounts are in `Budgets`, where attempts of one job do not overlap and the day
  does not end.
* Elapsed seconds, the third budget of a job, and the submission rate: clocks,
  whose refusals are outcomes an attempt or a tick may have at any time.
* Cron expressions, time zones and daylight saving time are arithmetic on one
  row. What a schedule does with the version it pins is in `Library`; of that,
  `Schedules` has the refusal (`Deny`).
* `ApprovedWork` has one file; the change record and the checkpoint treat
  paths independently.
* A second SQLite writer holding the database for ten seconds is `PassFails`,
  `GiveUp` or `LoseTick`.
* In `RunStream`, a reader that connects to a server which does not hold the run
  waits on an event of its own that nobody sets (`own`) and learns of new rows
  by the keepalive of 15 seconds only; `NoLostWakeup` is not said of it.
* `StreamIsTrue` does not say that a stream ends with the terminal event: a run
  that ends while a reader writes closes it without (`server.py:324`), although
  `test_api.py` reads that event from it. Nor does `NothingForgotten` say that
  nothing is: messages that fit as stored and not with their escapes are in
  neither the summary nor the history (`HeldBack`; `builder.py:33`, against
  `sessions/store.py:55`). There are none while calls are written in ASCII.
* An old release that has the store open may go on using it while a newer one
  upgrades it: `Migrations` keeps only workers out, as the code does.
* `close()` of an MCP manager that is itself cancelled, and the voice
  controller's handling of providers that raise while it closes.
* Identity and memory (`assistant/identity`, `assistant/memory`): rows of one
  user. `resolve_channel_identity` looks a channel up and creates its user in
  separate transactions, so that of two first contacts at once one fails.
* The command line, web and configuration front ends, which parse and call the
  services; providers, speech and MCP servers, which are external; planning and
  prompts, which are functions of text; path checks, the sandbox and the
  allowlist of commands, which guard single calls.

## 6. Where documentation and code differ

See `findings` in `PROJECT.json`: the workspace limit counts rows and not
executions; a crash can turn an interrupted subtask into a cancelled one with no
user involved; a write whose audit record is lost is unknown to the verification
gate; and a job's counter of tokens is overwritten with less by the ends of an
attempt that report none, so that it is not cumulative.

## 7. Plan

1. (done) `JobStore`, `AutomationWorker`, `JobLifecycle` and their theorems.
2. (done) `ApprovedWork` over `ExactApproval`: approvals, evidence, checkpoint,
   verification gate.
3. (done) `Schedules` over `OccurrenceLog`.
4. (done) `Budgets`, `PlanSteps`, `Library`: the limits of jobs, the clauses of
   the completion gate, the versions that are pinned.
5. (done) `AgentRuns`, `RunStream`, `AgentRuntime`, `ToolAccess`: runs, their
   stream, their loop and their tools.
6. (done) `Reminders`, `Notices`, `SkillProposals`, `Conversations`,
   `VoiceTurns`, `Knowledge`, `Migrations`.
7. (done) Theorems about the attempts, the backlog, agent runs, upgrades, plans,
   the stream and the index.
8. (done) Theorems about every other service and about all of them together.
9. Next: the composition of `Budgets` with `AutomationWorker`, so that the
   overlap of attempts and the overwriting of counters are seen together, and an
   abstract specification of at-least-once delivery that `Reminders` implements.
