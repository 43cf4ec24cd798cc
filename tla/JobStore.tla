------------------------------ MODULE JobStore ------------------------------
(***************************************************************************)
(* The durable part of the job queue: the jobs and job_attempts tables,    *)
(* whether the day's tokens are used up, and one operator per method of    *)
(* JobStore that changes a job's status or reads the day's usage.          *)
(* Every method is a single SQLite transaction, so every operator here is  *)
(* one atomic step; whoever composes them decides what may happen between. *)
(*                                                                         *)
(* Jobs are numbered in the order of their created_at, the order in which  *)
(* claim_next_job serves them.                                             *)
(***************************************************************************)
EXTENDS Naturals, Sequences, FiniteSets

CONSTANTS
  MaxJobs,               \* bound: how many jobs are ever created
  Workspace,             \* Workspace[j]: canonical workspace of a top-level job
  Delegators,            \* the jobs submitted with options.subtasks
  Scheduled,             \* the jobs whose source is a schedule
  MaxChildren,           \* how many subtasks a job may have (8 in the code)
  Concurrency,           \* runtime setting "concurrency"
  WorkspaceConcurrency,  \* runtime setting "workspace_concurrency"
  MaxAttempts            \* bound: users and schedules stop requeueing a job here

Jobs  == 1..MaxJobs
NoJob == 0

ASSUME StoreAssumption ==
  /\ MaxJobs \in Nat
  /\ MaxChildren \in Nat
  /\ Concurrency \in Nat
  /\ WorkspaceConcurrency \in Nat
  /\ MaxAttempts \in Nat
  /\ Delegators \subseteq Jobs
  /\ Scheduled \subseteq Jobs

VARIABLES
  status,   \* jobs.status, "absent" before the row exists
  rows,     \* rows[j]: the statuses of j's job_attempts rows, by ordinal
  parent,   \* jobs.parent_id, NoJob for a top-level job
  overQuota \* today's row of daily_usage has reached daily_token_quota

storeVars == <<status, rows, parent, overQuota>>

JobStatus == {"absent", "queued", "running", "waiting_approval",
              "waiting_children", "completed", "failed", "blocked",
              "interrupted", "cancelled"}

RowStatus == JobStatus \ {"absent", "queued"}

StoreInit == /\ status = [j \in Jobs |-> "absent"]
             /\ rows   = [j \in Jobs |-> <<>>]
             /\ parent = [j \in Jobs |-> NoJob]
             /\ overQuota = FALSE

-----------------------------------------------------------------------------
(* The job_attempt_status trigger.                                         *)

\* The statuses of a job whose attempt the trigger still closes.
Attempting == {"running", "waiting_approval", "waiting_children"}

\* The latest attempt of r, closed with status s.
CloseRow(r, s) == [r EXCEPT ![Len(r)] = s]

\* Mutant: the trigger lets every new status through to the row.
CommitEveryStatus(new) ==
  /\ status' = new
  /\ rows' = [j \in Jobs |-> IF status[j] \in Attempting /\ new[j] # status[j]
                            THEN CloseRow(rows[j], new[j])
                            ELSE rows[j]]

\* One transaction updates the status column to new, and the trigger follows.
\* An approval or a finished join requeues the job without closing its row.
Commit(new) ==
  /\ status' = new
  /\ rows' = [j \in Jobs |->
                IF /\ status[j] \in Attempting
                   /\ new[j] # status[j]
                   /\ new[j] \notin {"queued", "running"}
                THEN CloseRow(rows[j], new[j])
                ELSE rows[j]]

\* UPDATE jobs SET status = to WHERE id = j AND status IN (from).
Update(j, from, to) ==
  Commit([status EXCEPT ![j] = IF @ \in from THEN to ELSE @])

-----------------------------------------------------------------------------
(* Creating jobs.                                                          *)

Created     == {j \in Jobs : status[j] # "absent"}
Children(j) == {k \in Jobs : parent[k] = j}

\* j is the next job of the table: later than every job created so far.
IsNext(j) == status[j] = "absent" /\ \A k \in Jobs : k < j => k \in Created

Insert(j, p) ==
  /\ IsNext(j)
  /\ Commit([status EXCEPT ![j] = "queued"])
  /\ parent' = [parent EXCEPT ![j] = p]
  /\ UNCHANGED overQuota

CreateJob(j) == Insert(j, NoJob)

\* The parent's own attempt asks for a subtask; a child gets none of its own.
CreateSubtaskRow(p, j) ==
  /\ status[p] = "running"
  /\ parent[p] = NoJob
  /\ p \in Delegators
  /\ Cardinality(Children(p)) < MaxChildren
  /\ Insert(j, p)

-----------------------------------------------------------------------------
(* Claiming.                                                               *)

\* A subtask is stored with its parent's workspace.
WorkspaceOf(j) == Workspace[IF parent[j] = NoJob THEN j ELSE parent[j]]

\* Mutant: a parent waiting for its children keeps its place among the running.
RunningOrJoining == {j \in Jobs : status[j] \in {"running", "waiting_children"}}

Running == {j \in Jobs : status[j] = "running"}

RunningBeside(j) == {k \in Running : WorkspaceOf(k) = WorkspaceOf(j)}

Eligible(j) ==
  /\ status[j] = "queued"
  /\ Cardinality(Running) < Concurrency
  /\ Cardinality(RunningBeside(j)) < WorkspaceConcurrency
  /\ ~overQuota

\* The oldest eligible job starts a new attempt with a row of its own.
ClaimNextJob(j) ==
  /\ Eligible(j)
  /\ \A k \in Jobs : k < j => ~Eligible(k)
  /\ status' = [status EXCEPT ![j] = "running"]
  /\ rows' = [rows EXCEPT ![j] = Append(@, "running")]
  /\ UNCHANGED <<parent, overQuota>>

NothingToClaim == \A j \in Jobs : ~Eligible(j)

-----------------------------------------------------------------------------
(* The day's tokens.                                                       *)

\* update_job_usage of a job that is not over, with the tokens that bring the
\* day to its quota.
ReachQuota(j) ==
  /\ status[j] \in Attempting \cup {"queued"}
  /\ ~overQuota
  /\ overQuota' = TRUE
  /\ UNCHANGED <<status, rows, parent>>

\* date('now') names a day that has no row of usage yet.
NewDay == /\ overQuota
          /\ overQuota' = FALSE
          /\ UNCHANGED <<status, rows, parent>>

-----------------------------------------------------------------------------
(* What an attempt reports.  Each is WHERE status='running': for a job that *)
(* is no longer running it changes nothing, and nothing says which attempt *)
(* the report is for.                                                      *)

\* Mutant: UPDATE ... WHERE id = ? alone.
CompleteAnyJob(j) == Update(j, JobStatus, "completed") /\ UNCHANGED <<parent, overQuota>>

CompleteJob(j)  == Update(j, {"running"}, "completed")   /\ UNCHANGED <<parent, overQuota>>
FailJob(j)      == Update(j, {"running"}, "failed")      /\ UNCHANGED <<parent, overQuota>>
BlockJob(j)     == Update(j, {"running"}, "blocked")     /\ UNCHANGED <<parent, overQuota>>
InterruptJob(j) == Update(j, {"running"}, "interrupted") /\ UNCHANGED <<parent, overQuota>>

\* request_or_consume_approval without a matching approved request.
AwaitApproval(j) ==
  /\ status[j] = "running"
  /\ Update(j, {"running"}, "waiting_approval")
  /\ UNCHANGED <<parent, overQuota>>

\* Mutant: a child that waits for approval does not hold its parent back.
HasBusyChild(j) == \E k \in Children(j) : status[k] \in {"queued", "running"}

HasUnfinishedChild(j) == \E k \in Children(j) : status[k] # "completed"

WaitForChildren(j) ==
  /\ status[j] = "running"
  /\ HasUnfinishedChild(j)
  /\ Update(j, {"running"}, "waiting_children")
  /\ UNCHANGED <<parent, overQuota>>

-----------------------------------------------------------------------------
(* What users and the scheduler ask for.                                   *)

MayRequeue(j) == Len(rows[j]) < MaxAttempts

ResumeJob(j) ==
  /\ status[j] \in {"interrupted", "blocked"}
  /\ MayRequeue(j)
  /\ Update(j, {"interrupted", "blocked"}, "queued")
  /\ UNCHANGED <<parent, overQuota>>

\* decide_approval: an approval and a decision that came too late both requeue.
GrantApproval(j) ==
  /\ status[j] = "waiting_approval"
  /\ MayRequeue(j)
  /\ Update(j, {"waiting_approval"}, "queued")
  /\ UNCHANGED <<parent, overQuota>>

RejectApproval(j) ==
  /\ status[j] = "waiting_approval"
  /\ Update(j, {"waiting_approval"}, "blocked")
  /\ UNCHANGED <<parent, overQuota>>

RetryTrigger(j) ==
  /\ j \in Scheduled
  /\ status[j] = "failed"
  /\ MayRequeue(j)
  /\ Update(j, {"failed"}, "queued")
  /\ UNCHANGED <<parent, overQuota>>

\* "blocked" is missing on purpose: a blocked job cannot be cancelled.
Cancellable == {"queued", "running", "waiting_approval", "waiting_children",
                "interrupted"}

\* The job and, if the job itself could be cancelled, all its descendants.
\* Delegation has one level (NoNestedDelegation): the descendants are children.
CancelJob(j) ==
  /\ Commit([k \in Jobs |->
               IF /\ status[j] \in Cancellable
                  /\ k = j \/ parent[k] = j
                  /\ status[k] \in Cancellable
               THEN "cancelled"
               ELSE status[k]])
  /\ UNCHANGED <<parent, overQuota>>

-----------------------------------------------------------------------------
(* What a worker does to jobs it does not run.                             *)

\* Mutant: recovery writes jobs but the attempt rows are not touched.
RecoverJobsOnly ==
  /\ status' = [j \in Jobs |->
                  IF status[j] = "running" THEN "interrupted" ELSE status[j]]
  /\ UNCHANGED <<rows, parent, overQuota>>

RecoverInterruptedJobs ==
  /\ Commit([j \in Jobs |->
               IF status[j] = "running" THEN "interrupted" ELSE status[j]])
  /\ UNCHANGED <<parent, overQuota>>

\* Mutant: an interrupted child is expected to come back by itself.
ChildTroubleFinal == {"failed", "blocked", "cancelled"}

ChildTrouble == {"failed", "blocked", "cancelled", "interrupted"}

\* The first half of reconcile_children: parents leave their join.
Reconciled ==
  [j \in Jobs |->
     IF status[j] # "waiting_children" THEN status[j]
     ELSE IF \E k \in Children(j) : status[k] \in ChildTrouble THEN "blocked"
     ELSE IF Children(j) # {} /\ ~HasUnfinishedChild(j) THEN "queued"
     ELSE status[j]]

\* Mutant: the cascade of cancel_job is trusted to have reached every child.
OrphansOfTrouble(st) ==
  {j \in Jobs : /\ parent[j] # NoJob
                /\ st[parent[j]] \in {"failed", "blocked"}
                /\ st[j] \in {"queued", "running", "waiting_approval",
                              "interrupted"}}

\* The second half reads, in the same transaction, whose parents have died.
OrphansOf(st) ==
  {j \in Jobs : /\ parent[j] # NoJob
                /\ st[parent[j]] \in {"failed", "blocked", "cancelled"}
                /\ st[j] \in {"queued", "running", "waiting_approval",
                              "interrupted"}}

ReconcileParents == Commit(Reconciled) /\ UNCHANGED <<parent, overQuota>>

-----------------------------------------------------------------------------
(* What the tables promise their readers.                                  *)

\* The columns keep their types.
StoreTypeOK ==
  /\ status \in [Jobs -> JobStatus]
  /\ rows \in [Jobs -> Seq(RowStatus)]
  /\ parent \in [Jobs -> Jobs \cup {NoJob}]
  /\ overQuota \in BOOLEAN

\* The attempt history tells the truth: an attempt row says "running" exactly
\* while its job runs and it is the job's last attempt, and the last row says
\* what became of a job that an attempt brought to a stop or to a wait
\* (docs/operations.md:406-411, kept by a trigger, a claim and nobody else).
AttemptLedger ==
  \A j \in Jobs :
    /\ \A i \in DOMAIN rows[j] :
         rows[j][i] = "running" <=> status[j] = "running" /\ i = Len(rows[j])
    /\ status[j] \in {"running", "waiting_approval", "waiting_children",
                      "completed", "failed", "blocked", "interrupted"}
         => rows[j] # <<>> /\ rows[j][Len(rows[j])] = status[j]

\* A parent is completed only over completed children: the join is read in one
\* transaction and the verdict written in another (runner.py:391-441).
CompletedParent ==
  \A j \in Jobs : status[j] = "completed" =>
    \A k \in Children(j) : status[k] = "completed"

\* Delegation is one level deep (subtasks.py:39): a child has no children.
NoNestedDelegation ==
  \A j \in Jobs : parent[j] # NoJob => parent[parent[j]] = NoJob

\* Admission holds in every state, not only when a job is claimed.
Admission ==
  /\ Cardinality(Running) <= Concurrency
  /\ \A j \in Running : Cardinality(RunningBeside(j)) <= WorkspaceConcurrency

\* Attempt rows are history: none disappears, and only the last one changes,
\* and only while its attempt is not over; no late report, recovery or cancel
\* rewrites how an attempt ended (migrations.py:348-356).
HistoryImmutable ==
  [][\A j \in Jobs :
       /\ Len(rows'[j]) >= Len(rows[j])
       /\ \A i \in DOMAIN rows[j] :
            rows'[j][i] # rows[j][i] => i = Len(rows'[j]) /\ rows[j][i] \in Attempting
    ]_storeVars

\* The store and the worker implement the promise of JobLifecycle.
Lifecycle == INSTANCE JobLifecycle
               WITH MaxRunning <- Concurrency,
                    state <- status,
                    starts <- [j \in Jobs |-> Len(rows[j])]
LifecycleSpec == Lifecycle!Spec
=============================================================================
