-------------------------- MODULE AutomationWorker --------------------------
(***************************************************************************)
(* The worker process over the job store: AutomationWorker.start as a      *)
(* program counter, one asyncio task per claimed attempt (JobRunner.run),  *)
(* the users' processes that write the same database, shutdown and crash.  *)
(*                                                                         *)
(* The event loop runs one thing at a time.  A pass of start() has no      *)
(* await, so attempts advance only while the pass waits for its wake event *)
(* (pc = "wait") or for the tasks it cancelled (pc = "drain").  Users are  *)
(* other processes: they step between any two transactions.                *)
(***************************************************************************)
EXTENDS JobStore

CONSTANT MaxFaults   \* bound: crashes and failed passes in one behaviour

VARIABLES
  pc,       \* where the worker process is; "down": nobody holds the lock
  work,     \* the jobs the current loop over orphans or over _tasks still visits
  tasks,    \* the asyncio tasks that are not finished, and those that failed
  dict,     \* _tasks: dict[j] = the attempt whose task is filed under j, or 0
  faults    \* how many faults have happened

procVars == <<pc, work, tasks, dict, faults>>
vars     == <<status, rows, parent, overQuota, pc, work, tasks, dict, faults>>

\* "new": created, not begun; "exec": inside the runner's try; "unwind": the
\* approval was requested and the executor's finally blocks still await;
\* "joined": past the child join, deciding the outcome; "error": finished with
\* an exception; "dropped": cancelled before its first step; "teardown": left
\* behind by a worker that released the lock, until asyncio.run cancels it.
Phases == {"new", "exec", "unwind", "joined", "error", "dropped", "teardown"}

Pass    == {"reconcile", "orphans", "poll", "tick", "claim"}
Control == Pass \cup {"down", "recover", "wait", "drain"}

Task(j, a) == [job |-> j, attempt |-> a, phase |-> "new", cancel |-> FALSE]

Filed     == {j \in Jobs : dict[j] # 0}
InDict(t) == dict[t.job] = t.attempt
Mine(j)   == {t \in tasks : t.job = j /\ InDict(t)}

\* The set with t moved to phase p.
Moved(t, p) == (tasks \ {t}) \cup {[t EXCEPT !.phase = p]}

\* task.cancel() on each of the tasks in S: delivered at its next await.
Cancelling(S) ==
  (tasks \ S) \cup {[t EXCEPT !.cancel = TRUE] : t \in S}

Init == /\ StoreInit
        /\ pc = "down"
        /\ work = {}
        /\ tasks = {}
        /\ dict = [j \in Jobs |-> 0]
        /\ faults = 0

-----------------------------------------------------------------------------
(* Starting: take the lock, then interrupt what the previous owner left.   *)

StartWorker ==
  /\ pc = "down"
  /\ pc' = "recover"
  /\ UNCHANGED <<storeVars, work, tasks, dict, faults>>

Recover ==
  /\ pc = "recover"
  /\ RecoverInterruptedJobs
  /\ pc' = "reconcile"
  /\ UNCHANGED <<work, tasks, dict, faults>>

-----------------------------------------------------------------------------
(* One pass of the loop.                                                   *)

\* One transaction settles the joins and lists the orphans ...
Reconcile ==
  /\ pc = "reconcile"
  /\ ReconcileParents
  /\ work' = OrphansOf(status')
  /\ pc' = "orphans"
  /\ UNCHANGED <<tasks, dict, faults>>

\* ... and each orphan is cancelled in a later transaction of its own.
CancelOrphan(j) ==
  /\ pc = "orphans"
  /\ j \in work
  /\ CancelJob(j)
  /\ work' = work \ {j}
  /\ UNCHANGED <<pc, tasks, dict, faults>>

OrphansDone ==
  /\ pc = "orphans"
  /\ work = {}
  /\ pc' = "poll"
  /\ work' = Filed
  /\ UNCHANGED <<storeVars, tasks, dict, faults>>

\* Mutant: the poll only looks for finished tasks.
PollLiveIgnored(j) ==
  /\ pc = "poll"
  /\ j \in work
  /\ \E t \in Mine(j) : t.phase # "error"
  /\ work' = work \ {j}
  /\ UNCHANGED <<storeVars, pc, tasks, dict, faults>>

\* The task filed under j still runs; it is cancelled if its job was.
PollLive(j) ==
  /\ pc = "poll"
  /\ j \in work
  /\ \E t \in Mine(j) :
       /\ t.phase # "error"
       /\ tasks' = IF status[j] = "cancelled" THEN Cancelling({t}) ELSE tasks
  /\ work' = work \ {j}
  /\ UNCHANGED <<storeVars, pc, dict, faults>>

\* It returned, or was cancelled: it is dropped from _tasks.
PollDone(j) ==
  /\ pc = "poll"
  /\ j \in work
  /\ Mine(j) = {}
  /\ dict' = [dict EXCEPT ![j] = 0]
  /\ work' = work \ {j}
  /\ UNCHANGED <<storeVars, pc, tasks, faults>>

\* It raised: the job fails, whatever attempt it is at by now.
PollFailed(j) ==
  /\ pc = "poll"
  /\ j \in work
  /\ \E t \in Mine(j) : t.phase = "error" /\ tasks' = tasks \ {t}
  /\ FailJob(j)
  /\ dict' = [dict EXCEPT ![j] = 0]
  /\ work' = work \ {j}
  /\ UNCHANGED <<pc, faults>>

PollsDone ==
  /\ pc = "poll"
  /\ work = {}
  /\ pc' = "tick"
  /\ UNCHANGED <<storeVars, work, tasks, dict, faults>>

\* The scheduler requeues a failed occurrence or fires a new one.
RetrySchedule(j) ==
  /\ pc = "tick"
  /\ RetryTrigger(j)
  /\ UNCHANGED procVars

FireSchedule(j) ==
  /\ pc = "tick"
  /\ j \in Scheduled
  /\ CreateJob(j)
  /\ UNCHANGED procVars

TickDone ==
  /\ pc = "tick"
  /\ pc' = "claim"
  /\ UNCHANGED <<storeVars, work, tasks, dict, faults>>

\* Mutant: the worker counts running jobs instead of its tasks.
HasIdleSlot == Cardinality(Running) < Concurrency

HasCapacity == Cardinality(Filed) < Concurrency

\* A claimed job gets a task, filed under the job's id: a task of an earlier
\* attempt that still unwinds loses its place.
Claim(j) ==
  /\ pc = "claim"
  /\ HasCapacity
  /\ ClaimNextJob(j)
  /\ tasks' = tasks \cup {Task(j, Len(rows[j]) + 1)}
  /\ dict' = [dict EXCEPT ![j] = Len(rows[j]) + 1]
  /\ UNCHANGED <<pc, work, faults>>

ClaimDone ==
  /\ pc = "claim"
  /\ ~HasCapacity \/ NothingToClaim
  /\ pc' = "wait"
  /\ UNCHANGED <<storeVars, work, tasks, dict, faults>>

\* An attempt between its last await and its return keeps the event loop, and
\* a new task takes its first step before the waiting pass can go on.
Busy     == \E t \in tasks : t.phase = "joined"
Unbegun  == \E t \in tasks : t.phase = "new"

Wake ==
  /\ pc = "wait"
  /\ ~Busy /\ ~Unbegun
  /\ pc' = "reconcile"
  /\ UNCHANGED <<storeVars, work, tasks, dict, faults>>

-----------------------------------------------------------------------------
(* One attempt: JobRunner.run over its executor.                           *)

Stepping == pc \in {"wait", "drain"}

\* t may take a step: the loop is idle, or t is the one that holds it.
MayStep(t, phases) ==
  /\ Stepping
  /\ t.phase \in phases
  /\ Busy => t.phase = "joined"

Finish(t) == tasks' = tasks \ {t}

\* The first step of a task that nobody cancelled; a job cancelled since its
\* claim is not executed.
Begin(t) ==
  /\ MayStep(t, {"new"})
  /\ ~t.cancel
  /\ IF status[t.job] = "cancelled" THEN Finish(t)
     ELSE tasks' = Moved(t, "exec")
  /\ UNCHANGED <<storeVars, pc, work, dict, faults>>

\* A task cancelled before its first step never enters run(), so no handler
\* of the runner sees the cancellation.
DropUnstarted(t) ==
  /\ MayStep(t, {"new"})
  /\ t.cancel
  /\ tasks' = Moved(t, "dropped")
  /\ UNCHANGED <<storeVars, pc, work, dict, faults>>

\* An answer's tokens are saved while the executor works, and they are the last
\* the day allows; the executor's own check may end it or not.
UseTokens(t) ==
  /\ MayStep(t, {"exec"})
  /\ ReachQuota(t.job)
  /\ UNCHANGED procVars

CreateSubtask(t, j) ==
  /\ MayStep(t, {"exec"})
  /\ ~t.cancel
  /\ j \notin Scheduled
  /\ CreateSubtaskRow(t.job, j)
  /\ UNCHANGED procVars

\* The job waits for its user at once, while the executor still unwinds.
RequestApproval(t) ==
  /\ MayStep(t, {"exec"})
  /\ ~t.cancel
  /\ AwaitApproval(t.job)
  /\ tasks' = Moved(t, "unwind")
  /\ UNCHANGED <<pc, work, dict, faults>>

Unwound(t) ==
  /\ MayStep(t, {"unwind"})
  /\ Finish(t)
  /\ UNCHANGED <<storeVars, pc, work, dict, faults>>

\* The elapsed-time limit runs out inside the unwinding executor: the waiting
\* result is replaced by a blocked one.
TimeoutInUnwind(t) ==
  /\ MayStep(t, {"unwind"})
  /\ BlockJob(t.job)
  /\ Finish(t)
  /\ UNCHANGED <<pc, work, dict, faults>>

\* The executor completed.  A job with unfinished children waits for them ...
Join(t) ==
  /\ MayStep(t, {"exec"})
  /\ WaitForChildren(t.job)
  /\ Finish(t)
  /\ UNCHANGED <<pc, work, dict, faults>>

\* ... any other goes on to its verdict, in a later transaction.
PassJoin(t) ==
  /\ MayStep(t, {"exec"})
  /\ status[t.job] # "running" \/ ~HasUnfinishedChild(t.job)
  /\ tasks' = Moved(t, "joined")
  /\ UNCHANGED <<storeVars, pc, work, dict, faults>>

Complete(t) ==
  /\ MayStep(t, {"joined"})
  /\ CompleteJob(t.job)
  /\ Finish(t)
  /\ UNCHANGED <<pc, work, dict, faults>>

\* A precheck, a limit, a timeout or missing verification.
Block(t) ==
  /\ MayStep(t, {"exec", "joined"})
  /\ BlockJob(t.job)
  /\ Finish(t)
  /\ UNCHANGED <<pc, work, dict, faults>>

\* A failed result, an exception of the runner or an incomplete plan.
Fail(t) ==
  /\ MayStep(t, {"exec", "joined"})
  /\ FailJob(t.job)
  /\ Finish(t)
  /\ UNCHANGED <<pc, work, dict, faults>>

\* An exception the runner does not turn into an outcome of the job.
Raise(t) ==
  /\ MayStep(t, {"exec", "joined"})
  /\ tasks' = IF InDict(t) THEN Moved(t, "error") ELSE tasks \ {t}
  /\ UNCHANGED <<storeVars, pc, work, dict, faults>>

\* Mutant: the runner lets CancelledError pass without a word to the store.
DeliverCancelSilently(t) ==
  /\ MayStep(t, {"exec", "unwind"})
  /\ t.cancel
  /\ Finish(t)
  /\ UNCHANGED <<storeVars, pc, work, dict, faults>>

\* CancelledError reaches the runner, which interrupts its job if it runs.
DeliverCancel(t) ==
  /\ MayStep(t, {"exec", "unwind"})
  /\ t.cancel
  /\ InterruptJob(t.job)
  /\ Finish(t)
  /\ UNCHANGED <<pc, work, dict, faults>>

\* budget_check, before every model call and tool call, finds the job cancelled.
NoticeCancel(t) ==
  /\ MayStep(t, {"exec"})
  /\ status[t.job] = "cancelled"
  /\ Finish(t)
  /\ UNCHANGED <<storeVars, pc, work, dict, faults>>

\* The cancellation arrives while progress.stop awaits its own heartbeat and
\* is lost there; a transient result then goes round the retry loop again.
LoseCancel(t) ==
  /\ MayStep(t, {"exec"})
  /\ t.cancel
  /\ status[t.job] # "cancelled"
  /\ tasks' = (tasks \ {t}) \cup {[t EXCEPT !.cancel = FALSE]}
  /\ UNCHANGED <<storeVars, pc, work, dict, faults>>

-----------------------------------------------------------------------------
(* Stopping, failing and crashing.                                         *)

\* The finally block of start(): cancel every task filed in _tasks.
BeginDrain ==
  /\ pc' = "drain"
  /\ work' = {}
  /\ tasks' = Cancelling({t \in tasks : InDict(t) /\ t.phase # "error"})
  /\ UNCHANGED <<storeVars, dict>>

Stop ==
  /\ pc = "wait"
  /\ ~Busy /\ ~Unbegun
  /\ BeginDrain
  /\ UNCHANGED faults

\* A transaction of the pass raises, for instance because the database stays
\* locked for ten seconds.  (A recovery that raises has no task to cancel: it
\* releases the lock at once, which is the Crash of a worker in "recover".)
PassFails ==
  /\ pc \in Pass
  /\ faults < MaxFaults
  /\ BeginDrain
  /\ faults' = faults + 1

Settled(t) == t.phase \in {"error", "dropped"}

\* Mutant: the tasks are cancelled but nobody waits for them.
GatheredAtOnce == TRUE

\* gather has returned for every filed task.
Gathered == \A t \in tasks : InDict(t) => Settled(t)

\* The lock is released once gather has returned; tasks that lost their place in
\* _tasks are nobody's and stay behind.
Release ==
  /\ pc = "drain"
  /\ ~Busy
  /\ Gathered
  /\ pc' = "down"
  /\ tasks' = {[t EXCEPT !.phase = "teardown"] : t \in {u \in tasks : ~Settled(u)}}
  /\ dict' = [j \in Jobs |-> 0]
  /\ UNCHANGED <<storeVars, work, faults>>

\* asyncio.run cancels what is left, after the lock is free.
Teardown(t) ==
  /\ t.phase = "teardown"
  /\ InterruptJob(t.job)
  /\ Finish(t)
  /\ UNCHANGED <<pc, work, dict, faults>>

\* The process dies; the kernel frees its lock.
Crash ==
  /\ pc # "down"
  /\ faults < MaxFaults
  /\ pc' = "down"
  /\ work' = {}
  /\ tasks' = {t \in tasks : t.phase = "teardown"}
  /\ dict' = [j \in Jobs |-> 0]
  /\ faults' = faults + 1
  /\ UNCHANGED storeVars

-----------------------------------------------------------------------------
(* The users: CLI and API processes, at any time.                          *)

Submit(j) == j \notin Scheduled /\ CreateJob(j) /\ UNCHANGED procVars

Cancel(j) ==
  /\ status[j] \in Cancellable
  /\ CancelJob(j)
  /\ UNCHANGED procVars

Resume(j)  == ResumeJob(j) /\ UNCHANGED procVars
Approve(j) == GrantApproval(j) /\ UNCHANGED procVars
Reject(j)  == RejectApproval(j) /\ UNCHANGED procVars

-----------------------------------------------------------------------------
WorkerStep ==
  \/ StartWorker \/ Recover
  \/ Reconcile \/ OrphansDone \/ PollsDone \/ TickDone \/ ClaimDone
  \/ Wake \/ Release
  \/ \E j \in Jobs : \/ CancelOrphan(j) \/ PollLive(j) \/ PollDone(j)
                     \/ PollFailed(j) \/ Claim(j)

Tick == \E j \in Jobs : RetrySchedule(j) \/ FireSchedule(j)

\* The steps of t that wait for nothing outside the event loop.
Prompt(t) ==
  \/ Begin(t) \/ DropUnstarted(t) \/ Unwound(t) \/ Complete(t)
  \/ DeliverCancel(t) \/ Teardown(t)

\* The ends of an executor: an answer, a limit, an error, a cancelled job.
ExecutorEnds(t) ==
  Join(t) \/ PassJoin(t) \/ Block(t) \/ Fail(t) \/ NoticeCancel(t)

TaskStep(t) ==
  \/ Prompt(t) \/ ExecutorEnds(t)
  \/ \E j \in Jobs : CreateSubtask(t, j)
  \/ UseTokens(t) \/ RequestApproval(t) \/ TimeoutInUnwind(t) \/ Raise(t)
  \/ LoseCancel(t)

Fault == Stop \/ PassFails \/ Crash

UserStep == \E j \in Jobs :
  Submit(j) \/ Cancel(j) \/ Resume(j) \/ Approve(j) \/ Reject(j)

DayEnds == NewDay /\ UNCHANGED procVars

Next == \/ WorkerStep \/ Tick \/ Fault \/ UserStep \/ DayEnds
        \/ \E t \in tasks : TaskStep(t)

Spec == Init /\ [][Next]_vars

\* The loop is weakly fair, and so is the service that starts a worker when
\* there is none.  A task is strongly fair: it steps only while the pass waits,
\* but whenever the loop is idle a ready task is next in its queue.
LoopFairness ==
  /\ WF_vars(WorkerStep)
  /\ \A j \in Jobs : SF_vars(\E t \in tasks : t.job = j /\ Prompt(t))

\* The elapsed-time limit ends an executor that would not end by itself.  While the
\* worker polls, nothing is assumed of the executor of a cancelled job.
LimitFairness ==
  \A j \in Jobs :
    SF_vars(\E t \in tasks : /\ t.job = j
                             /\ status[j] # "cancelled" \/ pc = "drain"
                             /\ ExecutorEnds(t))

\* Every day ends.  Users and the schedule are never fair.
FairSpec == Spec /\ LoopFairness /\ LimitFairness /\ WF_vars(DayEnds)

-----------------------------------------------------------------------------
(* Invariants.                                                             *)

Tasks == [job : Jobs, attempt : Nat, phase : Phases, cancel : BOOLEAN]

\* Every variable stays in its domain.
TypeOK ==
  /\ StoreTypeOK
  /\ pc \in Control
  /\ work \subseteq Jobs
  /\ tasks \subseteq Tasks
  /\ dict \in [Jobs -> Nat]
  /\ faults \in Nat

\* No job is stuck in "running": while a worker is past its recovery, every
\* running job has a task of this process for its latest attempt, which will
\* settle it or hand it to the poll; this is what lets the worker release its
\* lock, and what recovery repairs after a crash.
RunningIsExecuted ==
  pc \notin {"down", "recover"} =>
    \A j \in Jobs : status[j] = "running" =>
      \E t \in tasks : /\ t.job = j
                      /\ t.attempt = Len(rows[j])
                      /\ t.phase # "teardown"

\* With the default concurrency of one, at most one attempt executes, it is
\* the latest of its job, and so every outcome it reports is its own: the
\* reports carry no attempt id, the size of _tasks is what protects them.
SerialExecution ==
  LET live == {t \in tasks : t.phase \in {"new", "exec", "unwind", "joined"}}
  IN  Concurrency = 1 =>
        /\ Cardinality(live) <= 1
        /\ \A t \in live : t.attempt = Len(rows[t.job])

-----------------------------------------------------------------------------
(* What a step may never do.                                               *)

\* A worker that stops releases its lock with no job left running, except one
\* whose task raised or was dropped before its first step: those wait for the
\* next recovery (docs/operations.md:397-399).
CleanRelease ==
  [][Release => \A j \in Jobs : status[j] = "running" =>
                  \E t \in tasks : t.job = j /\ Settled(t)]_vars

-----------------------------------------------------------------------------
(* What must eventually happen (under FairSpec).                           *)

\* A queued job is started or cancelled: the oldest-first claim starves nobody,
\* and a day whose tokens are used up holds the queue back until the next day
\* and no longer (docs/operations.md:603).
QueueMoves ==
  \A j \in Jobs : status[j] = "queued" ~> status[j] # "queued"

\* A join whose children cannot move by themselves does not last: the parent
\* leaves it, or a user resumes a child before the worker has looked.
JoinEnds ==
  \A j \in Jobs :
    LET stuck == /\ status[j] = "waiting_children"
                 /\ \A k \in Children(j) :
                      status[k] \in {"completed", "failed", "blocked",
                                    "cancelled", "interrupted"}
    IN  stuck ~> ~stuck

\* The attempt of a cancelled job ends even if its executor would go on for ever:
\* the worker learns of the cancel only by polling the database, and keeps
\* polling unless it is already cancelling everything.
CancelEndsExecution ==
  \A j \in Jobs :
    status[j] = "cancelled"
      ~> pc = "drain" \/ \A t \in tasks : t.job = j => Settled(t)

\* A job under a cancelled parent stops for good, even one that a user resumed
\* after the cascade.
OrphansSettle ==
  \A j \in Jobs :
    (parent[j] # NoJob /\ status[parent[j]] = "cancelled")
      ~> status[j] \in {"cancelled", "completed", "failed", "blocked"}

-----------------------------------------------------------------------------
(* What the documentation says and the code does not do.                   *)

\* docs/operations.md:598 "Defaults: one running job, one running job per
\* canonical workspace": no more than that many attempts execute in a
\* workspace, not counting those already told to stop.  Cancelling a job frees
\* its workspace at once; its execution goes on until a poll notices.
WorkspaceExclusive ==
  LET executing == {t \in tasks : t.phase = "exec" /\ ~t.cancel}
  IN  \A t \in executing :
        Cardinality({u \in executing : WorkspaceOf(u.job) = WorkspaceOf(t.job)})
          <= WorkspaceConcurrency

\* docs/operations.md:401-403 "marks abandoned running jobs interrupted ... Use
\* /resume <job_id> to explicitly resume interrupted work": an interrupted job
\* stays resumable until a user cancels it (a user's step leaves the worker's
\* own state alone).
InterruptedStaysResumable ==
  [][\A j \in Jobs : status[j] = "interrupted" /\ status'[j] = "cancelled"
                       => UNCHANGED procVars]_vars
=============================================================================
