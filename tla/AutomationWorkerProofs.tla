----------------------- MODULE AutomationWorkerProofs -----------------------
(***************************************************************************)
(* Theorems about AutomationWorker for every number of jobs and attempts,  *)
(* every pair of concurrency settings, and any number of crashes and       *)
(* shutdowns.                                                              *)
(* Each method of JobStore is either a claim or one committed change along *)
(* the edges of JobLifecycle; what holds of those two holds of them all.   *)
(***************************************************************************)
EXTENDS AutomationWorker, SequenceTheorems, FiniteSetTheorems, TLAPS

-----------------------------------------------------------------------------
(* The store.                                                              *)

\* new is a status column that JobLifecycle allows to follow the present one.
Moves(new) ==
  /\ new \in [Jobs -> JobStatus]
  /\ \A j \in Jobs : new[j] # status[j] => new[j] \in Lifecycle!After(status[j])

Change == \E new : Moves(new) /\ Commit(new)

ClaimStep == \E j \in Jobs : ClaimNextJob(j)

\* A step that claims nothing.
QuietStep == Change \/ UNCHANGED <<status, rows>>

StoreStep == QuietStep \/ ClaimStep

StoreInv == StoreTypeOK /\ AttemptLedger

-----------------------------------------------------------------------------
(* The trigger and the attempt rows.                                       *)

\* Closing the last row of a non-empty history changes that row only.
LEMMA CloseRowFacts ==
  ASSUME NEW r \in Seq(RowStatus), r # <<>>, NEW s \in RowStatus
  PROVE  /\ CloseRow(r, s) \in Seq(RowStatus)
         /\ Len(CloseRow(r, s)) = Len(r)
         /\ CloseRow(r, s) # <<>>
         /\ CloseRow(r, s)[Len(r)] = s
         /\ \A i \in DOMAIN r : i # Len(r) => CloseRow(r, s)[i] = r[i]
<1>1. Len(r) \in 1..Len(r) /\ DOMAIN r = 1..Len(r)
  BY EmptySeq, LenProperties
<1>2. /\ CloseRow(r, s) \in Seq(RowStatus)
      /\ Len(CloseRow(r, s)) = Len(r)
      /\ \A i \in 1..Len(r) : CloseRow(r, s)[i] = IF i = Len(r) THEN s ELSE r[i]
  BY <1>1, ExceptSeq DEF CloseRow
<1>3. CloseRow(r, s) # <<>>
  BY <1>1, <1>2, EmptySeq
<1> QED
  BY <1>1, <1>2, <1>3

\* What a committed change does to the history of one job.
LEMMA CommitRows ==
  ASSUME StoreInv, NEW new, Moves(new), Commit(new), NEW j \in Jobs
  PROVE  /\ rows'[j] \in Seq(RowStatus)
         /\ Len(rows'[j]) = Len(rows[j])
         /\ \A i \in DOMAIN rows[j] : i # Len(rows[j]) => rows'[j][i] = rows[j][i]
         /\ status[j] \in Attempting /\ new[j] # status[j]
            /\ new[j] \notin {"queued", "running"}
              => rows'[j] # <<>> /\ rows'[j][Len(rows[j])] = new[j]
         /\ ~(status[j] \in Attempting /\ new[j] # status[j]
              /\ new[j] \notin {"queued", "running"})
              => rows'[j] = rows[j]
<1>1. rows[j] \in Seq(RowStatus) /\ status[j] \in JobStatus /\ new[j] \in JobStatus
  BY DEF StoreInv, StoreTypeOK, Moves
<1>2. CASE status[j] \in Attempting /\ new[j] # status[j]
           /\ new[j] \notin {"queued", "running"}
  <2>1. rows[j] # <<>>
    BY <1>2 DEF StoreInv, AttemptLedger, Attempting
  <2>2. new[j] \in RowStatus
    BY <1>1, <1>2 DEF Attempting, RowStatus, JobStatus, Moves, Lifecycle!After
  <2>3. rows'[j] = CloseRow(rows[j], new[j])
    BY <1>2 DEF Commit
  <2>4. /\ CloseRow(rows[j], new[j]) \in Seq(RowStatus)
        /\ Len(CloseRow(rows[j], new[j])) = Len(rows[j])
        /\ CloseRow(rows[j], new[j]) # <<>>
        /\ CloseRow(rows[j], new[j])[Len(rows[j])] = new[j]
        /\ \A i \in DOMAIN rows[j] :
             i # Len(rows[j]) => CloseRow(rows[j], new[j])[i] = rows[j][i]
    BY <1>1, <2>1, <2>2, CloseRowFacts
  <2> QED
    BY <1>2, <2>3, <2>4
<1>3. CASE ~(status[j] \in Attempting /\ new[j] # status[j]
             /\ new[j] \notin {"queued", "running"})
  <2>1. rows'[j] = rows[j]
    BY <1>3 DEF Commit
  <2> QED
    BY <1>1, <1>3, <2>1
<1> QED
  BY <1>2, <1>3

-----------------------------------------------------------------------------
(* A change, and a claim, keep the ledger and the history.                 *)

\* The statuses and histories keep their types and the ledger stays true.
LedgerKept == /\ status' \in [Jobs -> JobStatus]
              /\ rows' \in [Jobs -> Seq(RowStatus)]
              /\ AttemptLedger'

\* One step of HistoryImmutable.
HistoryKept ==
  \A j \in Jobs :
    /\ Len(rows'[j]) >= Len(rows[j])
    /\ \A i \in DOMAIN rows[j] :
         rows'[j][i] # rows[j][i] => i = Len(rows'[j]) /\ rows[j][i] \in Attempting

LEMMA ChangeKeeps ==
  ASSUME StoreInv, Change
  PROVE  LedgerKept /\ HistoryKept
<1> PICK new : Moves(new) /\ Commit(new)
  BY DEF Change
<1>1. status' \in [Jobs -> JobStatus] /\ status' = new
  BY DEF Moves, Commit
<1>2. rows' \in [Jobs -> Seq(RowStatus)]
  BY CommitRows DEF Commit
<1>3. ASSUME NEW j \in Jobs
      PROVE  /\ \A i \in DOMAIN rows'[j] :
                  rows'[j][i] = "running" <=> status'[j] = "running" /\ i = Len(rows'[j])
             /\ status'[j] \in {"running", "waiting_approval", "waiting_children",
                                "completed", "failed", "blocked", "interrupted"}
                  => rows'[j] # <<>> /\ rows'[j][Len(rows'[j])] = status'[j]
             /\ Len(rows'[j]) >= Len(rows[j])
             /\ \A i \in DOMAIN rows[j] :
                  rows'[j][i] # rows[j][i]
                    => i = Len(rows'[j]) /\ rows[j][i] \in Attempting
  <2> DEFINE closes == /\ status[j] \in Attempting /\ new[j] # status[j]
                       /\ new[j] \notin {"queued", "running"}
  <2>1. /\ rows[j] \in Seq(RowStatus) /\ status[j] \in JobStatus
        /\ new[j] \in JobStatus
        /\ new[j] # status[j] => new[j] \in Lifecycle!After(status[j])
    BY DEF StoreInv, StoreTypeOK, Moves
  <2>2. /\ rows'[j] \in Seq(RowStatus)
        /\ Len(rows'[j]) = Len(rows[j])
        /\ \A i \in DOMAIN rows[j] : i # Len(rows[j]) => rows'[j][i] = rows[j][i]
        /\ closes => rows'[j] # <<>> /\ rows'[j][Len(rows[j])] = new[j]
        /\ ~closes => rows'[j] = rows[j]
    BY CommitRows
  <2>3. /\ DOMAIN rows[j] = 1..Len(rows[j]) /\ Len(rows[j]) \in Nat
        /\ DOMAIN rows'[j] = 1..Len(rows[j])
    BY <2>1, <2>2, LenProperties
  <2>4. /\ \A i \in DOMAIN rows[j] :
             rows[j][i] = "running" <=> status[j] = "running" /\ i = Len(rows[j])
        /\ status[j] \in {"running", "waiting_approval", "waiting_children",
                          "completed", "failed", "blocked", "interrupted"}
             => rows[j] # <<>> /\ rows[j][Len(rows[j])] = status[j]
    BY DEF StoreInv, AttemptLedger
  <2>5. CASE closes
    <3>1. /\ rows[j][Len(rows[j])] = status[j] /\ new[j] # "running"
          /\ status'[j] = new[j]
      BY <1>1, <2>4, <2>5 DEF Attempting
    <3>2. \A i \in DOMAIN rows'[j] :
             rows'[j][i] = "running" <=> status'[j] = "running" /\ i = Len(rows'[j])
      BY <2>2, <2>3, <2>4, <2>5, <3>1
    <3> QED
      BY <2>2, <2>3, <2>5, <3>1, <3>2
  <2>6. CASE ~closes
    <3>1. rows'[j] = rows[j] /\ status'[j] = new[j]
      BY <1>1, <2>2, <2>6
    <3>2. new[j] = "running" <=> status[j] = "running"
      BY <2>1, <2>6 DEF Attempting, JobStatus, Lifecycle!After
    <3>3. new[j] \in {"running", "waiting_approval", "waiting_children",
                     "completed", "failed", "blocked", "interrupted"}
            => new[j] = status[j]
      BY <2>1, <2>6 DEF Attempting, JobStatus, Lifecycle!After
    <3> QED
      BY <2>3, <2>4, <3>1, <3>2, <3>3
  <2> QED
    BY <2>5, <2>6
<1> QED
  BY <1>1, <1>2, <1>3 DEF LedgerKept, HistoryKept, AttemptLedger

LEMMA ClaimKeeps ==
  ASSUME StoreInv, ClaimStep
  PROVE  LedgerKept /\ HistoryKept
<1> PICK j \in Jobs : ClaimNextJob(j)
  BY DEF ClaimStep
<1>1. /\ status \in [Jobs -> JobStatus] /\ rows \in [Jobs -> Seq(RowStatus)]
      /\ status[j] = "queued"
      /\ status' = [status EXCEPT ![j] = "running"]
      /\ rows' = [rows EXCEPT ![j] = Append(@, "running")]
  BY DEF StoreInv, StoreTypeOK, ClaimNextJob, Eligible
<1>2. "running" \in RowStatus /\ "running" \in JobStatus
  BY DEF RowStatus, JobStatus
<1>3. /\ rows'[j] \in Seq(RowStatus) /\ rows'[j] # <<>>
      /\ Len(rows'[j]) = Len(rows[j]) + 1
      /\ \A i \in 1..Len(rows[j]) : rows'[j][i] = rows[j][i]
      /\ rows'[j][Len(rows[j]) + 1] = "running"
  BY <1>1, <1>2, AppendProperties
<1>4. ASSUME NEW k \in Jobs
      PROVE  /\ \A i \in DOMAIN rows'[k] :
                  rows'[k][i] = "running" <=> status'[k] = "running" /\ i = Len(rows'[k])
             /\ status'[k] \in {"running", "waiting_approval", "waiting_children",
                                "completed", "failed", "blocked", "interrupted"}
                  => rows'[k] # <<>> /\ rows'[k][Len(rows'[k])] = status'[k]
             /\ Len(rows'[k]) >= Len(rows[k])
             /\ \A i \in DOMAIN rows[k] :
                  rows'[k][i] # rows[k][i]
                    => i = Len(rows'[k]) /\ rows[k][i] \in Attempting
  <2>1. /\ \A i \in DOMAIN rows[k] :
             rows[k][i] = "running" <=> status[k] = "running" /\ i = Len(rows[k])
        /\ status[k] \in {"running", "waiting_approval", "waiting_children",
                          "completed", "failed", "blocked", "interrupted"}
             => rows[k] # <<>> /\ rows[k][Len(rows[k])] = status[k]
    BY DEF StoreInv, AttemptLedger
  <2>2. /\ DOMAIN rows[k] = 1..Len(rows[k]) /\ Len(rows[k]) \in Nat
    BY <1>1, LenProperties
  <2>3. CASE k = j
    <3>1. DOMAIN rows'[k] = 1..(Len(rows[k]) + 1) /\ status'[k] = "running"
      BY <1>1, <1>3, <2>3, LenProperties
    <3>2. \A i \in 1..Len(rows[k]) : rows[k][i] # "running"
      BY <1>1, <2>1, <2>2, <2>3
    <3> QED
      BY <1>3, <2>2, <2>3, <3>1, <3>2, SMTT(20)
  <2>4. CASE k # j
    <3>1. rows'[k] = rows[k] /\ status'[k] = status[k]
      BY <1>1, <2>4
    <3> QED
      BY <2>1, <2>2, <3>1
  <2> QED
    BY <2>3, <2>4
<1>5. status' \in [Jobs -> JobStatus]
  BY <1>1, <1>2
<1>6. rows' \in [Jobs -> Seq(RowStatus)]
  BY <1>1, <1>3
<1> QED
  BY <1>4, <1>5, <1>6 DEF LedgerKept, HistoryKept, AttemptLedger

\* Every step of the store keeps the ledger and the history.
LEMMA StoreStepKeeps ==
  ASSUME StoreInv, StoreStep
  PROVE  LedgerKept /\ HistoryKept
<1>1. CASE Change    BY <1>1, ChangeKeeps
<1>2. CASE ClaimStep BY <1>2, ClaimKeeps
<1>3. CASE UNCHANGED <<status, rows>>
  <2>1. \A j \in Jobs : Len(rows[j]) \in Nat
    BY LenProperties DEF StoreInv, StoreTypeOK
  <2> QED
    BY <1>3, <2>1 DEF LedgerKept, HistoryKept, StoreInv, StoreTypeOK, AttemptLedger
<1> QED
  BY <1>1, <1>2, <1>3 DEF StoreStep, QuietStep

-----------------------------------------------------------------------------
(* Every method is a change or a claim.                                    *)

LEMMA UpdateChanges ==
  ASSUME StoreTypeOK, NEW j \in Jobs, NEW from, NEW to \in JobStatus,
         status[j] \in from => to \in Lifecycle!After(status[j]),
         Update(j, from, to)
  PROVE  Change
<1> DEFINE new == [status EXCEPT ![j] = IF @ \in from THEN to ELSE @]
<1>1. Moves(new)
  BY DEF Moves, StoreTypeOK
<1>2. Commit(new)
  BY DEF Update
<1> QED
  BY <1>1, <1>2 DEF Change

\* The reports of an attempt.
LEMMA ReportChanges ==
  ASSUME StoreTypeOK, NEW j \in Jobs,
         CompleteJob(j) \/ FailJob(j) \/ BlockJob(j) \/ InterruptJob(j)
           \/ AwaitApproval(j) \/ WaitForChildren(j)
  PROVE  Change /\ parent' = parent
<1>1. {"completed", "failed", "blocked", "interrupted", "waiting_approval",
       "waiting_children"} \subseteq Lifecycle!After("running") \cap JobStatus
  BY DEF Lifecycle!After, JobStatus
<1>2. PICK to \in {"completed", "failed", "blocked", "interrupted",
                  "waiting_approval", "waiting_children"} :
        Update(j, {"running"}, to)
  BY DEF CompleteJob, FailJob, BlockJob, InterruptJob, AwaitApproval, WaitForChildren
<1>3. Change
  BY <1>1, <1>2, UpdateChanges
<1> QED
  BY <1>3 DEF CompleteJob, FailJob, BlockJob, InterruptJob, AwaitApproval,
              WaitForChildren

\* The requests of users and of the scheduler.
LEMMA RequestChanges ==
  ASSUME StoreTypeOK, NEW j \in Jobs,
         ResumeJob(j) \/ GrantApproval(j) \/ RejectApproval(j) \/ RetryTrigger(j)
  PROVE  Change /\ parent' = parent
<1>1. \A s \in {"interrupted", "blocked", "waiting_approval", "failed"} :
        "queued" \in Lifecycle!After(s)
  BY DEF Lifecycle!After
<1>2. "blocked" \in Lifecycle!After("waiting_approval")
  BY DEF Lifecycle!After
<1>3. "queued" \in JobStatus /\ "blocked" \in JobStatus
  BY DEF JobStatus
<1>4. CASE ResumeJob(j)
  BY <1>1, <1>3, <1>4, UpdateChanges DEF ResumeJob
<1>5. CASE GrantApproval(j)
  BY <1>1, <1>3, <1>5, UpdateChanges DEF GrantApproval
<1>6. CASE RejectApproval(j)
  BY <1>2, <1>3, <1>6, UpdateChanges DEF RejectApproval
<1>7. CASE RetryTrigger(j)
  BY <1>1, <1>3, <1>7, UpdateChanges DEF RetryTrigger
<1> QED
  BY <1>4, <1>5, <1>6, <1>7

LEMMA InsertChanges ==
  ASSUME StoreTypeOK, NEW j \in Jobs, NEW p, Insert(j, p)
  PROVE  Change /\ parent' = [parent EXCEPT ![j] = p]
<1> DEFINE new == [status EXCEPT ![j] = "queued"]
<1>1. "queued" \in Lifecycle!After("absent") /\ "queued" \in JobStatus
  BY DEF Lifecycle!After, JobStatus
<1>2. Moves(new)
  BY <1>1 DEF Moves, StoreTypeOK, Insert, IsNext
<1> QED
  BY <1>2 DEF Insert, Change

LEMMA CancelChanges ==
  ASSUME StoreTypeOK, NEW j \in Jobs, CancelJob(j)
  PROVE  Change /\ parent' = parent
<1> DEFINE new == [k \in Jobs |->
                     IF /\ status[j] \in Cancellable
                        /\ k = j \/ parent[k] = j
                        /\ status[k] \in Cancellable
                     THEN "cancelled"
                     ELSE status[k]]
<1>1. "cancelled" \in JobStatus
      /\ \A s \in Cancellable : "cancelled" \in Lifecycle!After(s)
  BY DEF Lifecycle!After, JobStatus, Cancellable
<1>2. Moves(new)
  BY <1>1 DEF Moves, StoreTypeOK
<1> QED
  BY <1>2 DEF CancelJob, Change

LEMMA RecoverChanges ==
  ASSUME StoreTypeOK, RecoverInterruptedJobs
  PROVE  Change /\ parent' = parent
<1> DEFINE new == [j \in Jobs |->
                     IF status[j] = "running" THEN "interrupted" ELSE status[j]]
<1>1. "interrupted" \in JobStatus /\ "interrupted" \in Lifecycle!After("running")
  BY DEF Lifecycle!After, JobStatus
<1>2. Moves(new)
  BY <1>1 DEF Moves, StoreTypeOK
<1> QED
  BY <1>2 DEF RecoverInterruptedJobs, Change

LEMMA ReconcileChanges ==
  ASSUME StoreTypeOK, ReconcileParents
  PROVE  Change /\ parent' = parent
<1>1. /\ "blocked" \in JobStatus /\ "queued" \in JobStatus
      /\ {"blocked", "queued"} \subseteq Lifecycle!After("waiting_children")
  BY DEF Lifecycle!After, JobStatus
<1>2. \A j \in Jobs :
        \/ Reconciled[j] = status[j]
        \/ status[j] = "waiting_children" /\ Reconciled[j] \in {"blocked", "queued"}
  BY DEF Reconciled
<1>3. Reconciled \in [Jobs -> JobStatus]
  BY <1>1, <1>2 DEF Reconciled, StoreTypeOK
<1>4. Moves(Reconciled)
  BY <1>1, <1>2, <1>3 DEF Moves
<1> QED
  BY <1>4 DEF ReconcileParents, Change

-----------------------------------------------------------------------------
(* The worker over it.                                                     *)

\* What a step may do to the jobs' parents: nothing, or file one new job.
ParentStep ==
  \/ parent' = parent
  \/ \E j \in Jobs : CreateJob(j)
  \/ \E j, p \in Jobs : CreateSubtaskRow(p, j)

-----------------------------------------------------------------------------
(* Every step of the system is a step of the store.                        *)

\* The steps of the worker's own loop.
LEMMA WorkerStepStore ==
  ASSUME StoreTypeOK, WorkerStep
  PROVE  (QuietStep \/ \E j \in Jobs : Claim(j)) /\ parent' = parent
<1>1. CASE StartWorker \/ OrphansDone \/ PollsDone \/ TickDone \/ ClaimDone
           \/ Wake \/ Release
  BY <1>1 DEF StartWorker, OrphansDone, PollsDone, TickDone, ClaimDone, Wake,
              Release, storeVars, QuietStep
<1>2. CASE Recover
  BY <1>2, RecoverChanges DEF Recover, QuietStep
<1>3. CASE Reconcile
  BY <1>3, ReconcileChanges DEF Reconcile, QuietStep
<1>4. ASSUME NEW j \in Jobs, CancelOrphan(j)
      PROVE  QuietStep /\ parent' = parent
  BY <1>4, CancelChanges DEF CancelOrphan, QuietStep
<1>5. ASSUME NEW j \in Jobs, PollLive(j) \/ PollDone(j)
      PROVE  QuietStep /\ parent' = parent
  BY <1>5 DEF PollLive, PollDone, storeVars, QuietStep
<1>6. ASSUME NEW j \in Jobs, PollFailed(j)
      PROVE  QuietStep /\ parent' = parent
  BY <1>6, ReportChanges DEF PollFailed, QuietStep
<1>7. ASSUME NEW j \in Jobs, Claim(j)
      PROVE  parent' = parent
  BY <1>7 DEF Claim, ClaimNextJob
<1> QED
  BY <1>1, <1>2, <1>3, <1>4, <1>5, <1>6, <1>7 DEF WorkerStep

\* The steps of an attempt.
LEMMA TaskStepStore ==
  ASSUME StoreTypeOK, NEW t \in tasks, t.job \in Jobs, TaskStep(t)
  PROVE  QuietStep /\ ParentStep
<1>1. CASE Begin(t) \/ DropUnstarted(t) \/ Unwound(t) \/ PassJoin(t) \/ Raise(t)
           \/ NoticeCancel(t) \/ LoseCancel(t) \/ UseTokens(t)
  BY <1>1 DEF Begin, DropUnstarted, Unwound, PassJoin, Raise, NoticeCancel,
              LoseCancel, UseTokens, ReachQuota, storeVars, QuietStep, ParentStep
<1>2. CASE Join(t) \/ Complete(t) \/ Block(t) \/ Fail(t) \/ DeliverCancel(t)
           \/ Teardown(t) \/ RequestApproval(t) \/ TimeoutInUnwind(t)
  BY <1>2, ReportChanges
     DEF Join, Complete, Block, Fail, DeliverCancel, Teardown, RequestApproval,
         TimeoutInUnwind, QuietStep, ParentStep
<1>3. ASSUME NEW j \in Jobs, CreateSubtask(t, j)
      PROVE  QuietStep /\ ParentStep
  BY <1>3, InsertChanges
     DEF CreateSubtask, CreateSubtaskRow, QuietStep, ParentStep
<1> QED
  BY <1>1, <1>2, <1>3 DEF TaskStep, Prompt, ExecutorEnds

\* The steps of users, of the scheduler, the faults and the end of a day.
LEMMA OtherStepStore ==
  ASSUME StoreTypeOK, Tick \/ Fault \/ UserStep \/ DayEnds
  PROVE  QuietStep /\ ParentStep
<1>1. ASSUME NEW j \in Jobs, RetrySchedule(j) \/ Resume(j) \/ Approve(j) \/ Reject(j)
      PROVE  QuietStep /\ ParentStep
  BY <1>1, RequestChanges
     DEF RetrySchedule, Resume, Approve, Reject, QuietStep, ParentStep
<1>2. ASSUME NEW j \in Jobs, FireSchedule(j) \/ Submit(j)
      PROVE  QuietStep /\ ParentStep
  BY <1>2, InsertChanges DEF FireSchedule, Submit, CreateJob, QuietStep, ParentStep
<1>3. ASSUME NEW j \in Jobs, Cancel(j)
      PROVE  QuietStep /\ ParentStep
  BY <1>3, CancelChanges DEF Cancel, QuietStep, ParentStep
<1>4. CASE Fault
  BY <1>4 DEF Fault, Stop, PassFails, Crash, BeginDrain, storeVars, QuietStep,
              ParentStep
<1>5. CASE DayEnds
  BY <1>5 DEF DayEnds, NewDay, QuietStep, ParentStep
<1> QED
  BY <1>1, <1>2, <1>3, <1>4, <1>5 DEF Tick, UserStep

\* Every step is a claim or starts no attempt.
LEMMA NextQuiet ==
  ASSUME TypeOK, [Next]_vars
  PROVE  (QuietStep \/ \E j \in Jobs : Claim(j)) /\ ParentStep
<1>1. StoreTypeOK /\ \A t \in tasks : t.job \in Jobs
  BY DEF TypeOK, Tasks
<1>2. CASE WorkerStep
  BY <1>1, <1>2, WorkerStepStore DEF ParentStep
<1>3. ASSUME NEW t \in tasks, TaskStep(t)
      PROVE  QuietStep /\ ParentStep
  BY <1>1, <1>3, TaskStepStore
<1>4. CASE Tick \/ Fault \/ UserStep \/ DayEnds
  BY <1>1, <1>4, OtherStepStore
<1>5. CASE UNCHANGED vars
  BY <1>5 DEF vars, QuietStep, ParentStep
<1> QED
  BY <1>2, <1>3, <1>4, <1>5 DEF Next

LEMMA NextStore ==
  ASSUME TypeOK, [Next]_vars
  PROVE  StoreStep /\ ParentStep
BY NextQuiet DEF StoreStep, ClaimStep, Claim

-----------------------------------------------------------------------------
(* Type correctness and the attempt ledger.                                *)

ProcTypeOK ==
  /\ pc \in Control
  /\ work \subseteq Jobs
  /\ tasks \subseteq Tasks
  /\ dict \in [Jobs -> Nat]
  /\ faults \in Nat

\* Moving, cancelling or removing tasks leaves tasks.
LEMMA TaskSets ==
  ASSUME tasks \subseteq Tasks
  PROVE  /\ \A t \in tasks, p \in Phases : Moved(t, p) \subseteq Tasks
         /\ \A S \in SUBSET tasks : Cancelling(S) \subseteq Tasks
         /\ \A t \in tasks, b \in BOOLEAN : [t EXCEPT !.cancel = b] \in Tasks
         /\ \A t \in tasks, p \in Phases : [t EXCEPT !.phase = p] \in Tasks
<1>1. \A t \in Tasks, p \in Phases : [t EXCEPT !.phase = p] \in Tasks
  BY DEF Tasks
<1>2. \A t \in Tasks, b \in BOOLEAN : [t EXCEPT !.cancel = b] \in Tasks
  BY DEF Tasks
<1> QED
  BY <1>1, <1>2 DEF Moved, Cancelling

LEMMA ProcTypes ==
  ASSUME TypeOK, [Next]_vars
  PROVE  ProcTypeOK'
<1>1. /\ pc \in Control /\ work \subseteq Jobs /\ tasks \subseteq Tasks
      /\ dict \in [Jobs -> Nat] /\ faults \in Nat
      /\ \A j \in Jobs : Len(rows[j]) \in Nat
  BY LenProperties DEF TypeOK, StoreTypeOK
<1> USE DEF ProcTypeOK
<1>2. CASE StartWorker \/ Recover \/ Reconcile \/ OrphansDone \/ PollsDone
           \/ TickDone \/ ClaimDone \/ Wake
  BY <1>1, <1>2 DEF StartWorker, Recover, Reconcile, OrphansDone, PollsDone,
     TickDone, ClaimDone, Wake, Control, Pass, OrphansOf, Filed
<1>3. CASE Release
  <2>1. tasks' \subseteq Tasks
    BY <1>1, <1>3, TaskSets DEF Release, Phases
  <2> QED
    BY <1>1, <1>3, <2>1 DEF Release, Control
<1>4. ASSUME NEW j \in Jobs, CancelOrphan(j) \/ PollDone(j) \/ PollFailed(j)
      PROVE  ProcTypeOK'
  BY <1>1, <1>4 DEF CancelOrphan, PollDone, PollFailed
<1>5. ASSUME NEW j \in Jobs, PollLive(j)
      PROVE  ProcTypeOK'
  <2>1. PICK t \in Mine(j) :
          tasks' = IF status[j] = "cancelled" THEN Cancelling({t}) ELSE tasks
    BY <1>5 DEF PollLive
  <2>2. {t} \in SUBSET tasks
    BY DEF Mine
  <2>3. tasks' \subseteq Tasks
    BY <1>1, <2>1, <2>2, TaskSets
  <2> QED
    BY <1>1, <1>5, <2>3 DEF PollLive
<1>6. ASSUME NEW j \in Jobs, Claim(j)
      PROVE  ProcTypeOK'
  <2>1. Task(j, Len(rows[j]) + 1) \in Tasks
    BY <1>1 DEF Task, Tasks, Phases
  <2> QED
    BY <1>1, <1>6, <2>1 DEF Claim
<1>7. ASSUME NEW t \in tasks, TaskStep(t)
      PROVE  ProcTypeOK'
  <2>1. CASE Begin(t) \/ DropUnstarted(t) \/ PassJoin(t) \/ Raise(t)
             \/ RequestApproval(t)
    <3>1. tasks' \subseteq Tasks
      BY <1>1, <2>1, TaskSets
         DEF Begin, DropUnstarted, PassJoin, Raise, RequestApproval, Finish, Phases
    <3> QED
      BY <1>1, <2>1, <3>1
         DEF Begin, DropUnstarted, PassJoin, Raise, RequestApproval
  <2>2. CASE Unwound(t) \/ NoticeCancel(t) \/ Join(t) \/ Complete(t) \/ Block(t)
             \/ Fail(t) \/ DeliverCancel(t) \/ Teardown(t) \/ TimeoutInUnwind(t)
    BY <1>1, <2>2
       DEF Unwound, NoticeCancel, Join, Complete, Block, Fail, DeliverCancel,
           Teardown, TimeoutInUnwind, Finish
  <2>3. CASE LoseCancel(t) \/ UseTokens(t)
    BY <1>1, <2>3, TaskSets DEF LoseCancel, UseTokens, procVars
  <2>4. ASSUME NEW j \in Jobs, CreateSubtask(t, j)
        PROVE  ProcTypeOK'
    BY <1>1, <2>4 DEF CreateSubtask, procVars
  <2> QED
    BY <1>7, <2>1, <2>2, <2>3, <2>4 DEF TaskStep, Prompt, ExecutorEnds
<1>8. CASE Stop \/ PassFails
  <2>1. tasks' \subseteq Tasks
    BY <1>1, <1>8, TaskSets DEF Stop, PassFails, BeginDrain
  <2> QED
    BY <1>1, <1>8, <2>1 DEF Stop, PassFails, BeginDrain, Control
<1>9. CASE Crash
  BY <1>1, <1>9 DEF Crash, Control
<1>10. CASE Tick \/ UserStep \/ DayEnds
  BY <1>1, <1>10 DEF Tick, UserStep, DayEnds, RetrySchedule, FireSchedule, Submit,
     Cancel, Resume, Approve, Reject, procVars
<1>11. CASE UNCHANGED vars
  BY <1>1, <1>11 DEF vars
<1> QED
  BY <1>2, <1>3, <1>4, <1>5, <1>6, <1>7, <1>8, <1>9, <1>10, <1>11
     DEF Next, WorkerStep, Fault

\* Only an answer's tokens and a new day say anything of the quota.
LEMMA QuotaTypes ==
  ASSUME TypeOK, [Next]_vars
  PROVE  overQuota' \in BOOLEAN
<1> USE DEF storeVars
<1>1. overQuota \in BOOLEAN
  BY DEF TypeOK, StoreTypeOK
<1>2. CASE WorkerStep
  BY <1>1, <1>2 DEF WorkerStep, StartWorker, Recover, RecoverInterruptedJobs, Reconcile,
     ReconcileParents, OrphansDone, PollsDone, TickDone, ClaimDone, Wake, Release,
     CancelOrphan, CancelJob, PollLive, PollDone, PollFailed, FailJob, Claim, ClaimNextJob
<1>3. ASSUME NEW t \in tasks, TaskStep(t)
      PROVE  overQuota' \in BOOLEAN
  BY <1>1, <1>3 DEF TaskStep, Prompt, ExecutorEnds, Begin, DropUnstarted, Unwound,
     Complete, CompleteJob, DeliverCancel, Teardown, InterruptJob, Join, WaitForChildren,
     PassJoin, Block, BlockJob, Fail, FailJob, NoticeCancel, CreateSubtask,
     CreateSubtaskRow, Insert, UseTokens, ReachQuota, RequestApproval, AwaitApproval,
     TimeoutInUnwind, Raise, LoseCancel
<1>4. CASE Tick \/ UserStep \/ DayEnds
  BY <1>1, <1>4 DEF Tick, UserStep, DayEnds, NewDay, RetrySchedule, RetryTrigger,
     FireSchedule, Submit, CreateJob, Insert, Cancel, CancelJob, Resume, ResumeJob,
     Approve, GrantApproval, Reject, RejectApproval
<1>5. CASE Fault \/ UNCHANGED vars
  BY <1>1, <1>5 DEF Fault, Stop, PassFails, BeginDrain, Crash, vars
<1> QED
  BY <1>2, <1>3, <1>4, <1>5 DEF Next

\* A new job's parent is a job, or none.
LEMMA ParentTypes ==
  ASSUME StoreTypeOK, ParentStep
  PROVE  parent' \in [Jobs -> Jobs \cup {NoJob}]
BY DEF ParentStep, CreateJob, CreateSubtaskRow, Insert, StoreTypeOK

LEMMA InitInv == Init => TypeOK /\ AttemptLedger
<1> SUFFICES ASSUME Init PROVE TypeOK /\ AttemptLedger
  OBVIOUS
<1>1. StoreTypeOK
  BY EmptySeq DEF Init, StoreInit, StoreTypeOK, JobStatus
<1>2. TypeOK
  BY <1>1 DEF Init, TypeOK, Control, Pass
<1>3. AttemptLedger
  BY EmptySeq DEF Init, StoreInit, AttemptLedger
<1> QED
  BY <1>2, <1>3

LEMMA NextInv == TypeOK /\ AttemptLedger /\ [Next]_vars => (TypeOK /\ AttemptLedger)'
<1> SUFFICES ASSUME TypeOK, AttemptLedger, [Next]_vars
             PROVE  (TypeOK /\ AttemptLedger)'
  OBVIOUS
<1>1. StoreStep /\ ParentStep
  BY NextStore
<1>2. StoreInv
  BY DEF StoreInv, TypeOK
<1>3. LedgerKept
  BY <1>1, <1>2, StoreStepKeeps
<1>4. parent' \in [Jobs -> Jobs \cup {NoJob}]
  BY <1>1, <1>2, ParentTypes DEF StoreInv
<1>5. ProcTypeOK' /\ overQuota' \in BOOLEAN
  BY ProcTypes, QuotaTypes
<1> QED
  BY <1>3, <1>4, <1>5 DEF LedgerKept, TypeOK, StoreTypeOK, ProcTypeOK

\* Every variable of the worker and of its store stays in its domain.
THEOREM TypeCorrect == Spec => []TypeOK
BY InitInv, NextInv, PTL DEF Spec

\* The attempt rows tell the truth about the jobs, for any number of jobs,
\* attempts and crashes, and even when a stale task reports for a later attempt.
THEOREM LedgerTrue == Spec => []AttemptLedger
BY InitInv, NextInv, PTL DEF Spec

\* No step rewrites how an earlier attempt of a job ended.
THEOREM HistoryKeptForGood == Spec => HistoryImmutable
<1>1. TypeOK /\ AttemptLedger /\ [Next]_vars => [HistoryKept]_storeVars
  <2> SUFFICES ASSUME TypeOK, AttemptLedger, [Next]_vars PROVE HistoryKept
    OBVIOUS
  <2> QED
    BY NextStore, StoreStepKeeps DEF StoreInv, TypeOK
<1> QED
  BY <1>1, InitInv, NextInv, PTL DEF Spec, HistoryImmutable, HistoryKept

-----------------------------------------------------------------------------
(* Delegation is one level deep.                                           *)

\* NoNestedDelegation with what makes it inductive: a parent exists already
\* when its child is stored, so a job that is new has no children yet.
DelegationInv ==
  /\ NoNestedDelegation
  /\ \A j \in Jobs : parent[j] # NoJob => status[parent[j]] # "absent"

\* A job that exists goes on existing.
LEMMA NobodyVanishes ==
  ASSUME StoreTypeOK, StoreStep, NEW j \in Jobs, status[j] # "absent"
  PROVE  status'[j] # "absent"
<1>1. CASE Change
  <2>1. PICK new : Moves(new) /\ Commit(new)
    BY <1>1 DEF Change
  <2>2. status'[j] = new[j]
       /\ (new[j] # status[j] => new[j] \in Lifecycle!After(status[j]))
    BY <2>1 DEF Moves, Commit
  <2> QED
    BY <2>2 DEF Lifecycle!After
<1>2. CASE ClaimStep
  BY <1>2 DEF ClaimStep, ClaimNextJob, StoreTypeOK
<1>3. CASE UNCHANGED <<status, rows>>
  BY <1>3
<1> QED
  BY <1>1, <1>2, <1>3 DEF StoreStep, QuietStep

LEMMA DelegationKept ==
  ASSUME StoreTypeOK, DelegationInv, StoreStep, ParentStep
  PROVE  DelegationInv'
<1>1. \A j \in Jobs : status[j] # "absent" => status'[j] # "absent"
  BY NobodyVanishes
<1>2. \A j \in Jobs : j # NoJob
  BY DEF Jobs, NoJob
<1>3. parent \in [Jobs -> Jobs \cup {NoJob}]
  BY DEF StoreTypeOK
<1>4. CASE parent' = parent
  BY <1>1, <1>3, <1>4 DEF DelegationInv, NoNestedDelegation
<1>5. ASSUME NEW j \in Jobs, CreateJob(j)
      PROVE  DelegationInv'
  <2>1. parent' = [parent EXCEPT ![j] = NoJob]
    BY <1>5 DEF CreateJob, Insert
  <2> QED
    BY <1>1, <1>2, <1>3, <2>1 DEF DelegationInv, NoNestedDelegation
<1>6. ASSUME NEW j \in Jobs, NEW p \in Jobs, CreateSubtaskRow(p, j)
      PROVE  DelegationInv'
  <2>1. /\ parent' = [parent EXCEPT ![j] = p]
        /\ status[p] # "absent" /\ status[j] = "absent" /\ parent[p] = NoJob
    BY <1>6 DEF CreateSubtaskRow, Insert, IsNext
  <2>2. \A k \in Jobs : parent[k] # j
    BY <1>2, <2>1 DEF DelegationInv
  <2> QED
    BY <1>1, <1>2, <1>3, <2>1, <2>2 DEF DelegationInv, NoNestedDelegation
<1> QED
  BY <1>4, <1>5, <1>6 DEF ParentStep

\* A subtask never has subtasks, so a cancel that reaches the children reaches
\* every descendant.
THEOREM OneLevel == Spec => []NoNestedDelegation
<1>1. Init => DelegationInv
  BY DEF Init, StoreInit, DelegationInv, NoNestedDelegation
<1>2. TypeOK /\ DelegationInv /\ [Next]_vars => DelegationInv'
  <2> SUFFICES ASSUME TypeOK, DelegationInv, [Next]_vars PROVE DelegationInv'
    OBVIOUS
  <2> QED
    BY NextStore, DelegationKept DEF TypeOK
<1>3. DelegationInv => NoNestedDelegation
  BY DEF DelegationInv
<1> QED
  BY <1>1, <1>2, <1>3, TypeCorrect, PTL DEF Spec

-----------------------------------------------------------------------------
(* The worker implements JobLifecycle.                                     *)

LEMMA LifecycleInit == Init => Lifecycle!Init
BY EmptySeq DEF Init, StoreInit, Lifecycle!Init

\* A claim starts an attempt; every other step moves jobs along the edges.
LEMMA LifecycleStep ==
  ASSUME StoreInv, StoreStep
  PROVE  [Lifecycle!Next]_(Lifecycle!vars)
<1>1. CASE Change
  <2>1. PICK new : Moves(new) /\ Commit(new)
    BY <1>1 DEF Change
  <2>2. status' = new /\ \A j \in Jobs : Len(rows'[j]) = Len(rows[j])
    BY <2>1, CommitRows DEF Commit
  <2>3. status' \in [Jobs -> Lifecycle!States]
    BY <2>1, <2>2 DEF Moves, JobStatus, Lifecycle!States
  <2>4. Lifecycle!Move
    BY <2>1, <2>2, <2>3 DEF Moves, Lifecycle!Move
  <2> QED
    BY <2>4 DEF Lifecycle!Next
<1>2. CASE ClaimStep
  <2>1. PICK j \in Jobs : ClaimNextJob(j)
    BY <1>2 DEF ClaimStep
  <2>2. /\ rows \in [Jobs -> Seq(RowStatus)] /\ "running" \in RowStatus
        /\ rows' = [rows EXCEPT ![j] = Append(@, "running")]
    BY <2>1 DEF StoreInv, StoreTypeOK, ClaimNextJob, RowStatus, JobStatus
  <2>3. \A k \in Jobs :
          Len(rows'[k]) = IF k = j THEN Len(rows[k]) + 1 ELSE Len(rows[k])
    BY <2>2, AppendProperties
  <2>4. [k \in Jobs |-> Len(rows'[k])]
          = [[k \in Jobs |-> Len(rows[k])] EXCEPT ![j] = @ + 1]
    BY <2>3
  <2>5. Lifecycle!Start(j)
    <3>1. Lifecycle!Cardinality(Running) = Cardinality(Running)
      BY DEF Cardinality, Lifecycle!Cardinality
    <3> QED
      BY <2>1, <2>4, <3>1
         DEF ClaimNextJob, Eligible, Running, Lifecycle!Start, Lifecycle!Running
  <2> QED
    BY <2>5 DEF Lifecycle!Next
<1>3. CASE UNCHANGED <<status, rows>>
  BY <1>3 DEF Lifecycle!vars
<1> QED
  BY <1>1, <1>2, <1>3 DEF StoreStep, QuietStep

\* Whatever the worker, its attempts, its users and its crashes do, a job only
\* ever lives through the states JobLifecycle promises, and an attempt starts
\* only from the queue and within the running limit.
THEOREM Implements == Spec => LifecycleSpec
<1>1. TypeOK /\ AttemptLedger /\ [Next]_vars => [Lifecycle!Next]_(Lifecycle!vars)
  <2> SUFFICES ASSUME TypeOK, AttemptLedger, [Next]_vars
               PROVE  [Lifecycle!Next]_(Lifecycle!vars)
    OBVIOUS
  <2> QED
    BY NextStore, LifecycleStep DEF StoreInv, TypeOK
<1> QED
  BY <1>1, LifecycleInit, InitInv, NextInv, PTL
     DEF Spec, LifecycleSpec, Lifecycle!Spec

-----------------------------------------------------------------------------
(* A parent is completed only over completed children.                     *)

ChildrenDone(j) == \A k \in Children(j) : status[k] = "completed"

\* CompletedParent with what makes it inductive: an attempt past its join holds
\* the event loop, and while it does its job either has completed children only
\* or is not running any more, so that its verdict is refused.
JoinInv ==
  /\ CompletedParent
  /\ \A t \in tasks : t.phase = "joined" =>
       /\ Stepping
       /\ status[t.job] = "running" => ChildrenDone(t.job)

\* No job becomes completed in this step.
NoCompletion == \A j \in Jobs : status'[j] = "completed" => status[j] = "completed"

\* No job becomes running in this step.
NoStart == \A j \in Jobs : status'[j] = "running" => status[j] = "running"

\* No task passes its join in this step, and those that had still step.
NoJoin == \A t \in tasks' : t.phase = "joined" =>
            /\ Stepping'
            /\ \E u \in tasks : u.phase = "joined" /\ u.job = t.job

\* Completed jobs stay completed, and without a claim nothing starts to run.
LEMMA CompletedStays ==
  ASSUME StoreTypeOK, StoreStep, NEW j \in Jobs, status[j] = "completed"
  PROVE  status'[j] = "completed"
<1>1. CASE Change
  <2>1. PICK new : Moves(new) /\ Commit(new)
    BY <1>1 DEF Change
  <2>2. /\ status'[j] = new[j]
        /\ new[j] # status[j] => new[j] \in Lifecycle!After(status[j])
    BY <2>1 DEF Moves, Commit
  <2> QED
    BY <2>2 DEF Lifecycle!After
<1>2. CASE ClaimStep
  BY <1>2 DEF ClaimStep, ClaimNextJob, Eligible, StoreTypeOK
<1>3. CASE UNCHANGED <<status, rows>>
  BY <1>3
<1> QED
  BY <1>1, <1>2, <1>3 DEF StoreStep, QuietStep

LEMMA ChangeStartsNothing ==
  ASSUME Change \/ UNCHANGED status
  PROVE  NoStart
<1>1. CASE Change
  <2>1. PICK new : Moves(new) /\ Commit(new)
    BY <1>1 DEF Change
  <2>2. \A j \in Jobs :
          /\ status'[j] = new[j]
          /\ new[j] # status[j] => new[j] \in Lifecycle!After(status[j])
    BY <2>1 DEF Moves, Commit
  <2>3. \A s : "running" \notin Lifecycle!After(s)
    BY DEF Lifecycle!After
  <2> QED
    BY <2>2, <2>3 DEF NoStart
<1>2. CASE UNCHANGED status
  BY <1>2 DEF NoStart
<1> QED
  BY <1>1, <1>2

\* What keeps the invariant: children are only added to jobs that run, and
\* only while no attempt is past its join.
LEMMA JoinKept ==
  ASSUME StoreTypeOK, tasks \subseteq Tasks, JoinInv, StoreStep, NoCompletion,
         \/ NoStart /\ NoJoin
         \/ \A t \in tasks' : t.phase # "joined",
         \/ parent' = parent
         \/ \E j \in Jobs : CreateJob(j)
         \/ /\ \E j, p \in Jobs : CreateSubtaskRow(p, j)
            /\ \A t \in tasks' : t.phase # "joined"
  PROVE  JoinInv'
<1>1. \A j \in Jobs : status[j] = "completed" => status'[j] = "completed"
  BY CompletedStays
<1>2. \A t \in tasks : t.job \in Jobs
  BY DEF Tasks
<1>3. parent \in [Jobs -> Jobs \cup {NoJob}] /\ \A j \in Jobs : j # NoJob
  BY DEF StoreTypeOK, Jobs, NoJob
<1>4. CASE \/ parent' = parent
           \/ \E j \in Jobs : CreateJob(j)
  <2>1. \A j \in Jobs : Children(j)' \subseteq Children(j)
    BY <1>3, <1>4 DEF Children, CreateJob, Insert
  <2>2. \A j \in Jobs : ChildrenDone(j) => ChildrenDone(j)'
    BY <1>1, <2>1 DEF ChildrenDone, Children
  <2>3. CompletedParent'
    BY <2>2 DEF JoinInv, CompletedParent, ChildrenDone, NoCompletion
  <2>4. ASSUME NEW t \in tasks', t.phase = "joined"
        PROVE  Stepping' /\ (status'[t.job] = "running" => ChildrenDone(t.job)')
    <3>1. NoStart /\ NoJoin
      BY <2>4
    <3>2. PICK u \in tasks : u.phase = "joined" /\ u.job = t.job
      BY <2>4, <3>1 DEF NoJoin
    <3> QED
      BY <1>2, <2>2, <2>4, <3>1, <3>2 DEF JoinInv, NoStart, NoJoin
  <2> QED
    BY <2>3, <2>4 DEF JoinInv
<1>5. ASSUME NEW j \in Jobs, NEW p \in Jobs, CreateSubtaskRow(p, j),
             \A t \in tasks' : t.phase # "joined"
      PROVE  JoinInv'
  <2>1. parent' = [parent EXCEPT ![j] = p] /\ status[p] = "running"
    BY <1>5 DEF CreateSubtaskRow, Insert
  <2>2. \A k \in Jobs : k # p => Children(k)' \subseteq Children(k)
    BY <1>3, <2>1 DEF Children
  <2>3. CompletedParent'
    BY <1>1, <2>1, <2>2 DEF JoinInv, CompletedParent, NoCompletion, Children
  <2> QED
    BY <1>5, <2>3 DEF JoinInv
<1> QED
  BY <1>4, <1>5

\* Of all methods only complete_job completes and only a claim starts.
LEMMA Uncompleting ==
  ASSUME StoreTypeOK, NEW j \in Jobs,
         \/ FailJob(j) \/ BlockJob(j) \/ InterruptJob(j)
         \/ AwaitApproval(j) \/ WaitForChildren(j)
         \/ ResumeJob(j) \/ GrantApproval(j) \/ RejectApproval(j) \/ RetryTrigger(j)
         \/ CreateJob(j) \/ (\E p \in Jobs : CreateSubtaskRow(p, j))
         \/ CancelJob(j) \/ RecoverInterruptedJobs \/ ReconcileParents
  PROVE  NoCompletion /\ NoStart
<1> USE DEF StoreTypeOK, Commit, NoCompletion, NoStart
<1>1. ASSUME NEW from, NEW to \in JobStatus \ {"completed", "running"},
             Update(j, from, to)
      PROVE  NoCompletion /\ NoStart
  BY <1>1 DEF Update
<1>2. {"failed", "blocked", "interrupted", "waiting_approval", "waiting_children",
       "queued"} \subseteq JobStatus \ {"completed", "running"}
  BY DEF JobStatus
<1>3. CASE FailJob(j) \/ BlockJob(j) \/ InterruptJob(j) \/ AwaitApproval(j)
           \/ WaitForChildren(j)
  BY <1>1, <1>2, <1>3
     DEF FailJob, BlockJob, InterruptJob, AwaitApproval, WaitForChildren
<1>4. CASE ResumeJob(j) \/ GrantApproval(j) \/ RejectApproval(j) \/ RetryTrigger(j)
  BY <1>1, <1>2, <1>4 DEF ResumeJob, GrantApproval, RejectApproval, RetryTrigger
<1>5. CASE CreateJob(j) \/ \E p \in Jobs : CreateSubtaskRow(p, j)
  <2>1. PICK p : Insert(j, p)
    BY <1>5 DEF CreateJob, CreateSubtaskRow
  <2> QED
    BY <2>1 DEF Insert
<1>6. CASE CancelJob(j)
  BY <1>6 DEF CancelJob
<1>7. CASE RecoverInterruptedJobs
  BY <1>7 DEF RecoverInterruptedJobs
<1>8. CASE ReconcileParents
  BY <1>8 DEF ReconcileParents, Reconciled
<1> QED
  BY <1>3, <1>4, <1>5, <1>6, <1>7, <1>8

LEMMA JoinNext == TypeOK /\ JoinInv /\ [Next]_vars => JoinInv'
<1> SUFFICES ASSUME TypeOK, JoinInv, [Next]_vars PROVE JoinInv'
  OBVIOUS
<1>1. /\ StoreTypeOK /\ tasks \subseteq Tasks /\ \A t \in tasks : t.job \in Jobs
      /\ StoreStep
  BY NextStore DEF TypeOK, Tasks
<1>2. ~Stepping \/ ~Busy => \A t \in tasks : t.phase # "joined"
  BY DEF JoinInv, Busy
<1>3. CASE StartWorker \/ OrphansDone \/ PollsDone \/ TickDone \/ ClaimDone \/ Wake
  <2>1. \A t \in tasks' : t.phase # "joined"
    BY <1>2, <1>3 DEF StartWorker, OrphansDone, PollsDone, TickDone, ClaimDone,
                      Wake, Stepping
  <2>2. NoCompletion /\ parent' = parent
    BY <1>3 DEF StartWorker, OrphansDone, PollsDone, TickDone, ClaimDone, Wake,
                storeVars, NoCompletion
  <2> QED
    BY <1>1, <2>1, <2>2, JoinKept
<1>4. CASE Release
  <2>1. \A t \in tasks' : t.phase # "joined"
    BY <1>1, <1>4 DEF Release, Tasks
  <2>2. NoCompletion /\ parent' = parent
    BY <1>4 DEF Release, storeVars, NoCompletion
  <2> QED
    BY <1>1, <2>1, <2>2, JoinKept
<1>5. CASE Recover \/ Reconcile
  <2>1. \A t \in tasks' : t.phase # "joined"
    BY <1>2, <1>5 DEF Recover, Reconcile, Stepping
  <2>2. NoCompletion /\ parent' = parent
    <3>1. CASE Recover
      BY <1>1, <3>1, Uncompleting, RecoverChanges DEF Recover, RecoverInterruptedJobs,
         Commit, NoCompletion
    <3>2. CASE Reconcile
      BY <1>1, <3>2 DEF Reconcile, ReconcileParents, Reconciled, Commit, NoCompletion
    <3> QED
      BY <1>5, <3>1, <3>2
  <2> QED
    BY <1>1, <2>1, <2>2, JoinKept
<1>6. ASSUME NEW j \in Jobs, CancelOrphan(j) \/ PollLive(j) \/ PollDone(j)
                             \/ PollFailed(j) \/ Claim(j)
      PROVE  JoinInv'
  <2>1. \A t \in tasks : t.phase # "joined"
    BY <1>2, <1>6 DEF CancelOrphan, PollLive, PollDone, PollFailed, Claim, Stepping
  <2>2. \A t \in tasks' : t.phase # "joined"
    <3>1. CASE PollLive(j)
      BY <1>1, <2>1, <3>1 DEF PollLive, Cancelling, Mine, Tasks
    <3>2. CASE Claim(j)
      BY <2>1, <3>2 DEF Claim, Task
    <3> QED
      BY <1>6, <2>1, <3>1, <3>2 DEF CancelOrphan, PollDone, PollFailed
  <2>3. parent' = parent
    BY <1>6 DEF CancelOrphan, PollLive, PollDone, PollFailed, Claim, CancelJob,
                FailJob, ClaimNextJob, storeVars
  <2>4. NoCompletion
    <3>1. CASE CancelOrphan(j)
      BY <1>1, <3>1, Uncompleting DEF CancelOrphan
    <3>2. CASE PollFailed(j)
      BY <1>1, <3>2, Uncompleting DEF PollFailed
    <3>3. CASE PollLive(j) \/ PollDone(j)
      BY <3>3 DEF PollLive, PollDone, storeVars, NoCompletion
    <3>4. CASE Claim(j)
      BY <1>1, <3>4 DEF Claim, ClaimNextJob, StoreTypeOK, NoCompletion
    <3> QED
      BY <1>6, <3>1, <3>2, <3>3, <3>4
  <2> QED
    BY <1>1, <2>2, <2>3, <2>4, JoinKept
<1>7. ASSUME NEW t \in tasks, TaskStep(t)
      PROVE  JoinInv'
  <2>1. CASE Begin(t) \/ DropUnstarted(t) \/ Unwound(t) \/ Raise(t)
             \/ NoticeCancel(t) \/ LoseCancel(t) \/ UseTokens(t)
    <3>1. NoJoin
      BY <1>1, <2>1 DEF Begin, DropUnstarted, Unwound, Raise, NoticeCancel,
         LoseCancel, UseTokens, procVars, Finish, Moved, MayStep, JoinInv, NoJoin, Stepping, Tasks
    <3>2. NoCompletion /\ NoStart /\ parent' = parent
      BY <2>1 DEF Begin, DropUnstarted, Unwound, Raise, NoticeCancel, LoseCancel,
                  UseTokens, ReachQuota, storeVars, NoCompletion, NoStart
    <3> QED
      BY <1>1, <3>1, <3>2, JoinKept
  <2>2. CASE Join(t) \/ Block(t) \/ Fail(t) \/ DeliverCancel(t) \/ Teardown(t)
             \/ RequestApproval(t) \/ TimeoutInUnwind(t)
    <3>1. NoJoin
      BY <1>1, <2>2 DEF Join, Block, Fail, DeliverCancel, Teardown, RequestApproval,
         TimeoutInUnwind, Finish, Moved, JoinInv, NoJoin, Stepping, Tasks
    <3>2. NoCompletion /\ NoStart /\ parent' = parent
      BY <1>1, <2>2, Uncompleting, ReportChanges DEF Join, Block, Fail, DeliverCancel,
         Teardown, RequestApproval, TimeoutInUnwind
    <3> QED
      BY <1>1, <3>1, <3>2, JoinKept
  <2>3. ASSUME NEW j \in Jobs, CreateSubtask(t, j)
        PROVE  JoinInv'
    <3>1. \A u \in tasks' : u.phase # "joined"
      BY <1>2, <2>3 DEF CreateSubtask, MayStep, procVars
    <3>2. CreateSubtaskRow(t.job, j) /\ t.job \in Jobs
      BY <1>1, <2>3 DEF CreateSubtask
    <3>3. NoCompletion
      BY <1>1, <3>2, Uncompleting
    <3> QED
      BY <1>1, <3>1, <3>2, <3>3, JoinKept
  <2>4. CASE PassJoin(t)
    <3>1. \A u \in tasks : u.phase # "joined"
      BY <1>2, <2>4 DEF PassJoin, MayStep
    <3>2. /\ UNCHANGED <<status, rows, parent, pc>> /\ Stepping
          /\ status[t.job] # "running" \/ ~HasUnfinishedChild(t.job)
          /\ tasks' = Moved(t, "joined")
      BY <2>4 DEF PassJoin, storeVars, MayStep
    <3>3. \A u \in tasks' : u.phase = "joined" => u.job = t.job
      BY <1>1, <3>1, <3>2 DEF Moved, Tasks
    <3>4. status[t.job] = "running" => ChildrenDone(t.job)
      BY <3>2 DEF HasUnfinishedChild, ChildrenDone
    <3>5. CompletedParent'
      BY <3>2 DEF JoinInv, CompletedParent, Children
    <3>6. Stepping' /\ status' = status
          /\ (ChildrenDone(t.job)' <=> ChildrenDone(t.job))
      BY <3>2 DEF Stepping, ChildrenDone, Children
    <3> QED
      BY <3>3, <3>4, <3>5, <3>6 DEF JoinInv
  <2>5. CASE Complete(t)
    <3>1. /\ t.phase = "joined" /\ tasks' = tasks \ {t} /\ pc' = pc
          /\ Update(t.job, {"running"}, "completed") /\ parent' = parent
      BY <2>5 DEF Complete, MayStep, Finish, CompleteJob
    <3>2. /\ status' = [status EXCEPT ![t.job] =
                          IF @ = "running" THEN "completed" ELSE @]
          /\ \A j \in Jobs : Children(j)' = Children(j)
      BY <3>1 DEF Update, Commit, Children
    <3>3. \A j \in Jobs : /\ ChildrenDone(j) => ChildrenDone(j)'
                          /\ status'[j] = "running" => status[j] = "running"
      BY <1>1, <3>2 DEF ChildrenDone, StoreTypeOK, Children
    <3>4. CompletedParent'
      BY <1>1, <3>1, <3>2, <3>3 DEF JoinInv, CompletedParent, ChildrenDone, StoreTypeOK
    <3> QED
      BY <1>1, <3>1, <3>3, <3>4 DEF JoinInv, Stepping
  <2> QED
    BY <1>7, <2>1, <2>2, <2>3, <2>4, <2>5 DEF TaskStep, Prompt, ExecutorEnds
<1>8. ASSUME NEW j \in Jobs,
             \/ RetrySchedule(j) \/ FireSchedule(j) \/ Submit(j) \/ Cancel(j)
             \/ Resume(j) \/ Approve(j) \/ Reject(j)
      PROVE  JoinInv'
  <2>1. NoJoin
    BY <1>8 DEF RetrySchedule, FireSchedule, Submit, Cancel, Resume, Approve, Reject,
       procVars, NoJoin, JoinInv, Stepping
  <2>2. NoCompletion /\ NoStart
    BY <1>1, <1>8, Uncompleting
       DEF RetrySchedule, FireSchedule, Submit, Cancel, Resume, Approve, Reject
  <2>3. parent' = parent \/ CreateJob(j)
    BY <1>1, <1>8, RequestChanges, CancelChanges
       DEF RetrySchedule, FireSchedule, Submit, Cancel, Resume, Approve, Reject
  <2> QED
    BY <1>1, <2>1, <2>2, <2>3, JoinKept
<1>9. CASE Fault
  <2>1. \A t \in tasks' : t.phase # "joined"
    <3>1. CASE Stop \/ PassFails
      <4>1. \A t \in tasks : t.phase # "joined"
        BY <1>2, <3>1 DEF Stop, PassFails, Pass, Stepping
      <4> QED
        BY <1>1, <3>1, <4>1 DEF Stop, PassFails, BeginDrain, Cancelling, Tasks
    <3>2. CASE Crash
      BY <3>2 DEF Crash
    <3> QED
      BY <1>9, <3>1, <3>2 DEF Fault
  <2>2. NoCompletion /\ parent' = parent
    BY <1>9 DEF Fault, Stop, PassFails, Crash, BeginDrain, storeVars, NoCompletion
  <2> QED
    BY <1>1, <2>1, <2>2, JoinKept
<1>10. CASE DayEnds \/ UNCHANGED vars
  BY <1>10 DEF DayEnds, NewDay, procVars, vars, JoinInv, CompletedParent, Children,
               ChildrenDone, Stepping
<1> QED
  BY <1>3, <1>4, <1>5, <1>6, <1>7, <1>8, <1>9, <1>10
     DEF Next, WorkerStep, Tick, UserStep

\* A completed parent has completed children only: no cancel, no late report
\* and no new subtask can come between the join and the verdict.
THEOREM JoinSound == Spec => []CompletedParent
<1>1. Init => JoinInv
  BY DEF Init, StoreInit, JoinInv, CompletedParent
<1>2. JoinInv => CompletedParent
  BY DEF JoinInv
<1> QED
  BY <1>1, <1>2, JoinNext, TypeCorrect, PTL DEF Spec

-----------------------------------------------------------------------------
(* The concurrency limits hold of the running rows in every state.         *)

\* There are finitely many jobs, and so finitely many running ones.
LEMMA RunningFinite ==
  ASSUME NEW S \in SUBSET Jobs
  PROVE  IsFiniteSet(S) /\ Cardinality(S) \in Nat
<1>1. IsFiniteSet(Jobs)
  BY StoreAssumption, FS_Interval DEF Jobs
<1> QED
  BY <1>1, FS_Subset, FS_CardinalityType

\* A running job keeps its parent, since only a new job gets one.
LEMMA RunningKeepsParent ==
  ASSUME StoreTypeOK, ParentStep, NEW j \in Jobs, status[j] = "running"
  PROVE  parent'[j] = parent[j]
<1>1. \A k \in Jobs : IsNext(k) => k # j
  BY DEF IsNext
<1> QED
  BY <1>1 DEF ParentStep, CreateJob, CreateSubtaskRow, Insert, StoreTypeOK

\* Without a claim the running jobs, and those beside a job, only become fewer.
LEMMA AdmissionWithoutClaim ==
  ASSUME StoreTypeOK, Admission, NoStart, ParentStep
  PROVE  Admission'
<1>1. \A j \in Running' : j \in Running /\ parent'[j] = parent[j]
  BY RunningKeepsParent DEF Running, NoStart
<1>2. Running' \subseteq Running /\ Running \subseteq Jobs
  BY <1>1 DEF Running
<1>3. IsFiniteSet(Running) /\ Cardinality(Running) \in Nat /\ Cardinality(Running') \in Nat
  BY <1>2, RunningFinite
<1>4. Cardinality(Running') <= Cardinality(Running)
  BY <1>2, <1>3, FS_Subset
<1>5. ASSUME NEW j \in Running'
      PROVE  Cardinality(RunningBeside(j)') <= WorkspaceConcurrency
  <2>1. RunningBeside(j)' \subseteq RunningBeside(j) /\ RunningBeside(j) \subseteq Jobs
    BY <1>1, <1>2, <1>5 DEF RunningBeside, WorkspaceOf
  <2>2. /\ IsFiniteSet(RunningBeside(j))
        /\ Cardinality(RunningBeside(j)) \in Nat /\ Cardinality(RunningBeside(j)') \in Nat
    BY <2>1, RunningFinite
  <2>3. Cardinality(RunningBeside(j)') <= Cardinality(RunningBeside(j))
    BY <2>1, <2>2, FS_Subset
  <2>4. Cardinality(RunningBeside(j)) <= WorkspaceConcurrency
    BY <1>1, <1>5 DEF Admission
  <2> QED
    BY <2>2, <2>3, <2>4, StoreAssumption
<1>6. Cardinality(Running) <= Concurrency
  BY DEF Admission
<1>7. Cardinality(Running') <= Concurrency
  BY <1>3, <1>4, <1>6, StoreAssumption
<1> QED
  BY <1>5, <1>7 DEF Admission

\* A claim adds one job, and found room for it in both counts.
LEMMA AdmissionByClaim ==
  ASSUME StoreTypeOK, Admission, NEW j \in Jobs, ClaimNextJob(j)
  PROVE  Admission'
<1>1. /\ status[j] = "queued" /\ status' = [status EXCEPT ![j] = "running"]
      /\ parent' = parent
      /\ Cardinality(Running) < Concurrency
      /\ Cardinality(RunningBeside(j)) < WorkspaceConcurrency
  BY DEF ClaimNextJob, Eligible
<1>2. Running' = Running \cup {j} /\ j \notin Running /\ Running \subseteq Jobs
  BY <1>1 DEF Running, StoreTypeOK
<1>3. Cardinality(Running') = Cardinality(Running) + 1
  BY <1>2, RunningFinite, FS_AddElement
<1>4. \A k : WorkspaceOf(k)' = WorkspaceOf(k)
  BY <1>1 DEF WorkspaceOf
<1>5. ASSUME NEW k \in Running'
      PROVE  Cardinality(RunningBeside(k)') <= WorkspaceConcurrency
  <2>1. RunningBeside(k) \subseteq Jobs /\ RunningBeside(j) \subseteq Jobs
    BY <1>2 DEF RunningBeside
  <2>2. /\ IsFiniteSet(RunningBeside(k)) /\ IsFiniteSet(RunningBeside(j))
        /\ Cardinality(RunningBeside(k)) \in Nat /\ Cardinality(RunningBeside(j)) \in Nat
    BY <2>1, RunningFinite
  <2>3. CASE WorkspaceOf(k) = WorkspaceOf(j)
    <3>1. RunningBeside(k)' = RunningBeside(j) \cup {j} /\ j \notin RunningBeside(j)
      BY <1>2, <1>4, <2>3 DEF RunningBeside
    <3>2. Cardinality(RunningBeside(k)') = Cardinality(RunningBeside(j)) + 1
      BY <2>2, <3>1, FS_AddElement
    <3> QED
      BY <1>1, <2>2, <3>2, StoreAssumption
  <2>4. CASE WorkspaceOf(k) # WorkspaceOf(j)
    <3>1. RunningBeside(k)' = RunningBeside(k) /\ k \in Running
      BY <1>2, <1>4, <1>5, <2>4 DEF RunningBeside
    <3> QED
      BY <3>1 DEF Admission
  <2> QED
    BY <2>3, <2>4
<1>6. Cardinality(Running) \in Nat
  BY <1>2, RunningFinite
<1>7. Cardinality(Running') <= Concurrency
  BY <1>1, <1>3, <1>6, StoreAssumption
<1> QED
  BY <1>5, <1>7 DEF Admission

\* Never more running rows than the settings allow, overall or in a workspace:
\* nothing but a claim makes a job run, and a claim counts first.
THEOREM LimitsHold == Spec => []Admission
<1>1. Init => Admission
  <2> SUFFICES ASSUME Init PROVE Admission
    OBVIOUS
  <2>1. Running = {}
    BY DEF Init, StoreInit, Running
  <2> QED
    BY <2>1, FS_EmptySet, StoreAssumption DEF Admission
<1>2. TypeOK /\ Admission /\ [Next]_vars => Admission'
  <2> SUFFICES ASSUME TypeOK, Admission, [Next]_vars PROVE Admission'
    OBVIOUS
  <2>1. StoreTypeOK /\ StoreStep /\ ParentStep
    BY NextStore DEF TypeOK
  <2>2. CASE ClaimStep
    BY <2>1, <2>2, AdmissionByClaim DEF ClaimStep
  <2>3. CASE Change \/ UNCHANGED <<status, rows>>
    <3>1. NoStart
      BY <2>3, ChangeStartsNothing
    <3> QED
      BY <2>1, <3>1, AdmissionWithoutClaim
  <2> QED
    BY <2>1, <2>2, <2>3 DEF StoreStep, QuietStep
<1> QED
  BY <1>1, <1>2, TypeCorrect, PTL DEF Spec

-----------------------------------------------------------------------------
(* Who executes a running job: it has a task while a worker is past its    *)
(* recovery, a worker that stops leaves none behind but those it could not *)
(* settle, and a worker of one slot runs one attempt at a time.            *)

Latest(t) == t.attempt = Len(rows[t.job])

\* t is the task the worker knows of: filed, and not left over by another.
Known(t) == InDict(t) /\ t.phase # "teardown"

Recovered == pc \notin {"down", "recover"}

\* RunningIsExecuted with what makes it inductive: a running job's latest task
\* is the filed one, no task is from a later attempt than the job, and one that
\* only unwinds is not the latest of a running job.
ExecInv ==
  /\ \A t \in tasks : t.attempt <= Len(rows[t.job])
  /\ \A t \in tasks : t.phase = "unwind" /\ Latest(t) => status[t.job] # "running"
  /\ Recovered => \A j \in Jobs : status[j] = "running" =>
       \E t \in tasks : t.job = j /\ Latest(t) /\ Known(t)

-----------------------------------------------------------------------------
(* Steps that start no attempt.                                            *)

SameLengths == \A j \in Jobs : Len(rows'[j]) = Len(rows[j])

LEMMA QuietStore ==
  ASSUME StoreInv, QuietStep
  PROVE  NoStart /\ SameLengths
<1>1. NoStart
  BY ChangeStartsNothing DEF QuietStep
<1>2. CASE Change
  BY <1>1, <1>2, CommitRows DEF Change, SameLengths
<1>3. CASE UNCHANGED <<status, rows>>
  BY <1>1, <1>3 DEF SameLengths
<1> QED
  BY <1>2, <1>3 DEF QuietStep

\* Every task was one before, of the same attempt, and begins to unwind only
\* as its job leaves "running".
Descends ==
  \A u \in tasks' : \E t \in tasks :
    /\ u.job = t.job /\ u.attempt = t.attempt
    /\ u.phase = "unwind" => t.phase = "unwind" \/ status'[t.job] # "running"

\* A known task of a job that goes on running goes on being known.
Covers ==
  \A t \in tasks :
    status'[t.job] = "running" /\ status[t.job] = "running" /\ Latest(t) /\ Known(t) =>
      \E u \in tasks' : u.job = t.job /\ u.attempt = t.attempt /\ Known(u)'

LEMMA ExecKept ==
  ASSUME TypeOK, ExecInv, NoStart, SameLengths, Descends,
         Recovered' => \/ Recovered /\ Covers
                       \/ \A j \in Jobs : status'[j] # "running"
  PROVE  ExecInv'
<1>1. \A t \in tasks : t.job \in Jobs
  BY DEF TypeOK, Tasks
<1>2. \A u \in tasks' : u.attempt <= Len(rows'[u.job])
  BY <1>1 DEF Descends, ExecInv, SameLengths
<1>3. \A u \in tasks' : u.phase = "unwind" /\ Latest(u)' => status'[u.job] # "running"
  BY <1>1 DEF Descends, ExecInv, SameLengths, NoStart, Latest
<1>4. ASSUME Recovered', NEW j \in Jobs, status'[j] = "running"
      PROVE  \E u \in tasks' : u.job = j /\ Latest(u)' /\ Known(u)'
  <2>1. Recovered /\ Covers /\ status[j] = "running"
    BY <1>4 DEF NoStart
  <2>2. PICK t \in tasks : t.job = j /\ Latest(t) /\ Known(t)
    BY <2>1 DEF ExecInv
  <2>3. PICK u \in tasks' : u.job = t.job /\ u.attempt = t.attempt /\ Known(u)'
    BY <1>4, <2>1, <2>2 DEF Covers
  <2>4. Latest(u)'
    BY <2>2, <2>3 DEF Latest, SameLengths
  <2> QED
    BY <2>2, <2>3, <2>4
<1> QED
  BY <1>2, <1>3, <1>4 DEF ExecInv

\* The three ways a step treats the tasks: it leaves them, moves one on, or
\* ends one, whose job then does not run, or which was not the latest known.
LEMMA TasksStay ==
  ASSUME UNCHANGED <<tasks, dict>>
  PROVE  Descends /\ Covers
BY DEF Descends, Covers, Known, InDict

LEMMA TaskMoves ==
  ASSUME TypeOK, NEW t \in tasks, NEW p \in Phases, p # "teardown",
         t.phase # "teardown",
         p = "unwind" => status'[t.job] # "running",
         tasks' = Moved(t, p), dict' = dict
  PROVE  Descends /\ Covers
<1> DEFINE u == [t EXCEPT !.phase = p]
<1>1. u.job = t.job /\ u.attempt = t.attempt /\ u.phase = p
  BY DEF TypeOK, Tasks
<1>2. tasks' = (tasks \ {t}) \cup {u}
  BY DEF Moved
<1> HIDE DEF u
<1>3. Descends
  BY <1>1, <1>2 DEF Descends
<1>4. Covers
  BY <1>1, <1>2 DEF Covers, Known, InDict
<1> QED
  BY <1>3, <1>4

LEMMA TaskEnds ==
  ASSUME NEW t \in tasks,
         \/ status[t.job] # "running" \/ status'[t.job] # "running"
         \/ ~Latest(t) \/ ~Known(t),
         Finish(t), dict' = dict
  PROVE  Descends /\ Covers
BY DEF Finish, Descends, Covers, Known, InDict

LEMMA TasksCancelled ==
  ASSUME TypeOK, NEW S \in SUBSET tasks, tasks' = Cancelling(S), dict' = dict
  PROVE  Descends /\ Covers
<1> DEFINE c(t) == [t EXCEPT !.cancel = TRUE]
<1>1. \A t \in tasks : c(t).job = t.job /\ c(t).attempt = t.attempt /\ c(t).phase = t.phase
  BY DEF TypeOK, Tasks
<1>2. tasks' = (tasks \ S) \cup {c(t) : t \in S}
  BY DEF Cancelling
<1> HIDE DEF c
<1>3. Descends
  BY <1>1, <1>2 DEF Descends
<1>4. Covers
  BY <1>1, <1>2 DEF Covers, Known, InDict
<1> QED
  BY <1>3, <1>4

\* A report of an attempt leaves its job not running.
LEMMA ReportStops ==
  ASSUME StoreTypeOK, NEW j \in Jobs,
         CompleteJob(j) \/ FailJob(j) \/ BlockJob(j) \/ InterruptJob(j)
           \/ AwaitApproval(j) \/ WaitForChildren(j)
  PROVE  status'[j] # "running"
BY DEF CompleteJob, FailJob, BlockJob, InterruptJob, AwaitApproval, WaitForChildren,
       Update, Commit, StoreTypeOK

-----------------------------------------------------------------------------
(* The steps of a task.                                                    *)

LEMMA TaskStepCovers ==
  ASSUME TypeOK, ExecInv, NEW t \in tasks, TaskStep(t)
  PROVE  Descends /\ Covers
<1>1. t.job \in Jobs /\ StoreTypeOK /\ dict' = dict
  <2>1. t.job \in Jobs /\ StoreTypeOK
    BY DEF TypeOK, Tasks
  <2> QED
    BY <2>1 DEF TaskStep, Prompt, ExecutorEnds, Begin, DropUnstarted, Unwound, Complete,
       DeliverCancel, Teardown, Join, PassJoin, Block, Fail, NoticeCancel, CreateSubtask,
       RequestApproval, TimeoutInUnwind, Raise, LoseCancel, UseTokens, procVars
<1>2. CASE Begin(t)
  <2>1. CASE status[t.job] = "cancelled"
    <3>1. Finish(t) /\ status[t.job] # "running"
      BY <1>2, <2>1 DEF Begin
    <3> QED
      BY <1>1, <3>1, TaskEnds
  <2>2. CASE status[t.job] # "cancelled"
    <3>1. tasks' = Moved(t, "exec") /\ t.phase = "new"
      BY <1>2, <2>2 DEF Begin, MayStep
    <3> QED
      BY <1>1, <3>1, TaskMoves DEF Phases
  <2> QED
    BY <2>1, <2>2
<1>3. CASE DropUnstarted(t)
  <2>1. tasks' = Moved(t, "dropped") /\ t.phase = "new"
    BY <1>3 DEF DropUnstarted, MayStep
  <2> QED
    BY <1>1, <2>1, TaskMoves DEF Phases
<1>4. CASE PassJoin(t)
  <2>1. tasks' = Moved(t, "joined") /\ t.phase = "exec"
    BY <1>4 DEF PassJoin, MayStep
  <2> QED
    BY <1>1, <2>1, TaskMoves DEF Phases
<1>5. CASE RequestApproval(t)
  <2>1. tasks' = Moved(t, "unwind") /\ t.phase = "exec" /\ AwaitApproval(t.job)
    BY <1>5 DEF RequestApproval, MayStep
  <2>2. status'[t.job] # "running"
    BY <1>1, <2>1, ReportStops
  <2> QED
    BY <1>1, <2>1, <2>2, TaskMoves DEF Phases
<1>6. CASE Raise(t)
  <2>1. CASE InDict(t)
    <3>1. tasks' = Moved(t, "error") /\ t.phase # "teardown"
      BY <1>6, <2>1 DEF Raise, MayStep
    <3> QED
      BY <1>1, <3>1, TaskMoves DEF Phases
  <2>2. CASE ~InDict(t)
    <3>1. Finish(t) /\ ~Known(t)
      BY <1>6, <2>2 DEF Raise, Finish, Known
    <3> QED
      BY <1>1, <3>1, TaskEnds
  <2> QED
    BY <2>1, <2>2
<1>7. CASE Unwound(t)
  <2>1. Finish(t) /\ t.phase = "unwind"
    BY <1>7 DEF Unwound, MayStep
  <2>2. status[t.job] # "running" \/ ~Latest(t)
    BY <2>1 DEF ExecInv
  <2> QED
    BY <1>1, <2>1, <2>2, TaskEnds
<1>8. CASE NoticeCancel(t)
  <2>1. Finish(t) /\ status[t.job] # "running"
    BY <1>8 DEF NoticeCancel
  <2> QED
    BY <1>1, <2>1, TaskEnds
<1>9. CASE Join(t) \/ Complete(t) \/ Block(t) \/ Fail(t) \/ DeliverCancel(t)
           \/ Teardown(t) \/ TimeoutInUnwind(t)
  <2>1. Finish(t) /\ status'[t.job] # "running"
    BY <1>1, <1>9, ReportStops DEF Join, Complete, Block, Fail, DeliverCancel, Teardown,
       TimeoutInUnwind
  <2> QED
    BY <1>1, <2>1, TaskEnds
<1>10. CASE LoseCancel(t)
  <2> DEFINE u == [t EXCEPT !.cancel = FALSE]
  <2>1. u.job = t.job /\ u.attempt = t.attempt /\ u.phase = t.phase
    BY DEF TypeOK, Tasks
  <2>2. tasks' = (tasks \ {t}) \cup {u}
    BY <1>10 DEF LoseCancel
  <2> HIDE DEF u
  <2> QED
    BY <1>1, <2>1, <2>2 DEF Descends, Covers, Known, InDict
<1>11. CASE UseTokens(t) \/ \E j \in Jobs : CreateSubtask(t, j)
  BY <1>11, TasksStay DEF UseTokens, CreateSubtask, procVars
<1> QED
  BY <1>2, <1>3, <1>4, <1>5, <1>6, <1>7, <1>8, <1>9, <1>10, <1>11
     DEF TaskStep, Prompt, ExecutorEnds

-----------------------------------------------------------------------------
(* The steps of the worker.                                                *)

\* A claim files a task for the attempt it starts.
LEMMA ClaimExecutes ==
  ASSUME TypeOK, ExecInv, NEW j \in Jobs, Claim(j)
  PROVE  ExecInv'
<1> DEFINE new == Task(j, Len(rows[j]) + 1)
<1>1. /\ status' = [status EXCEPT ![j] = "running"] /\ status[j] = "queued"
      /\ rows' = [rows EXCEPT ![j] = Append(@, "running")]
      /\ tasks' = tasks \cup {new} /\ dict' = [dict EXCEPT ![j] = Len(rows[j]) + 1]
      /\ pc = "claim" /\ pc' = "claim"
  BY DEF Claim, ClaimNextJob, Eligible
<1>2. /\ status \in [Jobs -> JobStatus] /\ dict \in [Jobs -> Nat]
      /\ rows \in [Jobs -> Seq(RowStatus)]
      /\ \A t \in tasks : t.job \in Jobs /\ t.attempt \in Nat
      /\ \A k \in Jobs : Len(rows[k]) \in Nat
  BY LenProperties DEF TypeOK, StoreTypeOK, Tasks
<1>3. /\ new.job = j /\ new.attempt = Len(rows[j]) + 1 /\ new.phase = "new"
  BY DEF Task
<1> HIDE DEF new
<1>4. Len(rows'[j]) = Len(rows[j]) + 1
  <2>1. "running" \in RowStatus
    BY DEF RowStatus, JobStatus
  <2> QED
    BY <1>1, <1>2, <2>1, AppendProperties
<1>5. \A k \in Jobs : k # j => rows'[k] = rows[k] /\ status'[k] = status[k] /\ dict'[k] = dict[k]
  BY <1>1, <1>2
<1>6. \A t \in tasks : t.attempt <= Len(rows[t.job])
  BY DEF ExecInv
<1>7. \A t \in tasks' : t.attempt <= Len(rows'[t.job])
  BY <1>1, <1>2, <1>3, <1>4, <1>5, <1>6
<1>8. \A t \in tasks' : t.phase = "unwind" /\ Latest(t)' => status'[t.job] # "running"
  <2> SUFFICES ASSUME NEW t \in tasks', t.phase = "unwind", Latest(t)'
               PROVE  status'[t.job] # "running"
    OBVIOUS
  <2>1. t \in tasks
    BY <1>1, <1>3
  <2>2. t.job # j
    BY <1>2, <1>4, <1>6, <2>1 DEF Latest
  <2> QED
    BY <1>2, <1>5, <2>1, <2>2 DEF ExecInv, Latest
<1>9. ASSUME NEW k \in Jobs, status'[k] = "running"
      PROVE  \E t \in tasks' : t.job = k /\ Latest(t)' /\ Known(t)'
  <2>1. CASE k = j
    BY <1>1, <1>2, <1>3, <1>4, <2>1 DEF Latest, Known, InDict
  <2>2. CASE k # j
    <3>1. PICK t \in tasks : t.job = k /\ Latest(t) /\ Known(t)
      BY <1>1, <1>5, <1>9, <2>2 DEF ExecInv, Recovered
    <3> QED
      BY <1>1, <1>5, <2>2, <3>1 DEF Latest, Known, InDict
  <2> QED
    BY <2>1, <2>2
<1> QED
  BY <1>7, <1>8, <1>9 DEF ExecInv

LEMMA PollCovers ==
  ASSUME TypeOK, ExecInv, NEW j \in Jobs, PollLive(j) \/ PollDone(j) \/ PollFailed(j)
  PROVE  Descends /\ Covers
<1>1. CASE PollLive(j)
  <2>1. PICK t \in Mine(j) :
          tasks' = IF status[j] = "cancelled" THEN Cancelling({t}) ELSE tasks
    BY <1>1 DEF PollLive
  <2>2. dict' = dict /\ {t} \in SUBSET tasks
    BY <1>1 DEF PollLive, Mine
  <2> QED
    BY <2>1, <2>2, TasksCancelled, TasksStay
<1>2. CASE PollDone(j)
  <2>1. Mine(j) = {} /\ tasks' = tasks /\ \A k \in Jobs : k # j => dict'[k] = dict[k]
    BY <1>2 DEF PollDone, TypeOK
  <2>2. \A t \in tasks : t.job \in Jobs /\ (InDict(t) => t.job # j)
    BY <2>1 DEF Mine, TypeOK, Tasks
  <2> QED
    BY <2>1, <2>2 DEF Descends, Covers, Known, InDict
<1>3. CASE PollFailed(j)
  <2>1. PICK t \in Mine(j) : tasks' = tasks \ {t}
    BY <1>3 DEF PollFailed
  <2>2. t.job = j /\ \A k \in Jobs : k # j => dict'[k] = dict[k]
    BY <1>3, <2>1 DEF Mine, PollFailed, TypeOK
  <2>3. status'[j] # "running"
    BY <1>3, ReportStops DEF PollFailed, TypeOK
  <2>4. \A u \in tasks : u.job \in Jobs
    BY DEF TypeOK, Tasks
  <2> QED
    BY <2>1, <2>2, <2>3, <2>4 DEF Descends, Covers, Known, InDict
<1> QED
  BY <1>1, <1>2, <1>3

\* The steps that start no attempt.
LEMMA WorkerCovers ==
  ASSUME TypeOK, ExecInv, WorkerStep, \A j \in Jobs : ~Claim(j)
  PROVE  /\ Descends
         /\ Recovered' => (Recovered /\ Covers) \/ \A j \in Jobs : status'[j] # "running"
<1>1. CASE StartWorker \/ Reconcile \/ OrphansDone \/ PollsDone \/ TickDone \/ ClaimDone \/ Wake
  <2>1. UNCHANGED <<tasks, dict>> /\ (Recovered' => Recovered)
    BY <1>1 DEF StartWorker, Reconcile, OrphansDone, PollsDone, TickDone, ClaimDone, Wake,
       Recovered
  <2> QED
    BY <2>1, TasksStay
<1>2. CASE Recover
  <2>1. UNCHANGED <<tasks, dict>> /\ \A j \in Jobs : status'[j] # "running"
    BY <1>2 DEF Recover, RecoverInterruptedJobs, Commit
  <2> QED
    BY <2>1, TasksStay
<1>3. CASE Release
  <2>1. ~Recovered' /\ tasks' = {[t EXCEPT !.phase = "teardown"] : t \in {u \in tasks : ~Settled(u)}}
    BY <1>3 DEF Release, Recovered
  <2>2. \A t \in tasks : LET u == [t EXCEPT !.phase = "teardown"] IN
          u.job = t.job /\ u.attempt = t.attempt /\ u.phase = "teardown"
    BY DEF TypeOK, Tasks
  <2> QED
    BY <2>1, <2>2 DEF Descends
<1>4. ASSUME NEW j \in Jobs, CancelOrphan(j)
      PROVE  Recovered /\ Descends /\ Covers
  BY <1>4, TasksStay DEF CancelOrphan, Recovered
<1>5. ASSUME NEW j \in Jobs, PollLive(j) \/ PollDone(j) \/ PollFailed(j)
      PROVE  Recovered /\ Descends /\ Covers
  BY <1>5, PollCovers DEF PollLive, PollDone, PollFailed, Recovered
<1> QED
  BY <1>1, <1>2, <1>3, <1>4, <1>5 DEF WorkerStep

LEMMA FaultCovers ==
  ASSUME TypeOK, Fault
  PROVE  Descends /\ (Recovered' => Recovered /\ Covers)
<1>1. CASE Stop \/ PassFails
  <2> DEFINE S == {t \in tasks : InDict(t) /\ t.phase # "error"}
  <2>1. tasks' = Cancelling(S) /\ dict' = dict /\ S \in SUBSET tasks
    BY <1>1 DEF Stop, PassFails, BeginDrain
  <2>2. Recovered
    BY <1>1 DEF Stop, PassFails, Pass, Recovered
  <2> HIDE DEF S
  <2> QED
    BY <2>1, <2>2, TasksCancelled
<1>2. CASE Crash
  BY <1>2 DEF Crash, Recovered, Descends
<1> QED
  BY <1>1, <1>2 DEF Fault

LEMMA ExecNext == TypeOK /\ AttemptLedger /\ ExecInv /\ [Next]_vars => ExecInv'
<1> SUFFICES ASSUME TypeOK, AttemptLedger, ExecInv, [Next]_vars
             PROVE  ExecInv'
  OBVIOUS
<1>1. CASE \E j \in Jobs : Claim(j)
  BY <1>1, ClaimExecutes
<1>2. CASE \A j \in Jobs : ~Claim(j)
  <2>1. /\ Descends
        /\ Recovered' => (Recovered /\ Covers) \/ \A j \in Jobs : status'[j] # "running"
    <3>1. CASE WorkerStep
      BY <1>2, <3>1, WorkerCovers
    <3>2. CASE \E t \in tasks : TaskStep(t)
      <4>1. pc' = pc
        BY <3>2 DEF TaskStep, Prompt, ExecutorEnds, Begin, DropUnstarted, Unwound, Complete,
           DeliverCancel, Teardown, Join, PassJoin, Block, Fail, NoticeCancel, CreateSubtask,
           RequestApproval, TimeoutInUnwind, Raise, LoseCancel, UseTokens, procVars
      <4> QED
        BY <3>2, <4>1, TaskStepCovers DEF Recovered
    <3>3. CASE Fault
      BY <3>3, FaultCovers
    <3>4. CASE Tick \/ UserStep \/ DayEnds \/ UNCHANGED vars
      <4>1. UNCHANGED <<tasks, dict, pc>>
        BY <3>4 DEF Tick, UserStep, DayEnds, RetrySchedule, FireSchedule, Submit, Cancel, Resume,
           Approve, Reject, procVars, vars
      <4> QED
        BY <4>1, TasksStay DEF Recovered
    <3> QED
      BY <3>1, <3>2, <3>3, <3>4 DEF Next
  <2>2. NoStart /\ SameLengths
    BY <1>2, NextQuiet, QuietStore DEF StoreInv, TypeOK
  <2> QED
    BY <2>1, <2>2, ExecKept
<1> QED
  BY <1>1, <1>2

LEMMA ExecInit == Init => ExecInv
BY DEF Init, StoreInit, ExecInv, Recovered

LEMMA AlwaysExec == Spec => [](TypeOK /\ ExecInv)
<1>1. TypeOK /\ AttemptLedger /\ ExecInv /\ [Next]_vars => ExecInv'
  BY ExecNext
<1> QED
  BY <1>1, ExecInit, TypeCorrect, LedgerTrue, PTL DEF Spec

\* While a worker is past its recovery every running job is executed by the
\* latest of its tasks, whatever lost its place in _tasks, failed or was
\* cancelled in between.
THEOREM Executed == Spec => []RunningIsExecuted
<1>1. ExecInv => RunningIsExecuted
  BY DEF ExecInv, RunningIsExecuted, Recovered, Latest, Known
<1> QED
  BY <1>1, AlwaysExec, PTL

\* A worker that releases its lock leaves no job running but those whose task
\* raised or was dropped before its first step.
THEOREM ReleasesCleanly == Spec => CleanRelease
<1> DEFINE Clean == Release => \A j \in Jobs : status[j] = "running" =>
                      \E t \in tasks : t.job = j /\ Settled(t)
<1>1. TypeOK /\ ExecInv => Clean
  <2> SUFFICES ASSUME ExecInv, Release, NEW j \in Jobs, status[j] = "running"
               PROVE  \E t \in tasks : t.job = j /\ Settled(t)
    OBVIOUS
  <2>1. Recovered /\ Gathered
    BY DEF Release, Recovered
  <2>2. PICK t \in tasks : t.job = j /\ Known(t)
    BY <2>1 DEF ExecInv
  <2> QED
    BY <2>1, <2>2 DEF Known, Gathered
<1>2. TypeOK /\ ExecInv => [Clean]_vars
  BY <1>1
<1>3. [](TypeOK /\ ExecInv) => [][Clean]_vars
  BY <1>2, PTL
<1> QED
  BY <1>3, AlwaysExec DEF CleanRelease

-----------------------------------------------------------------------------
(* One slot, one attempt.                                                  *)

Owned(t) == t.phase # "teardown"

\* With one slot, whoever is in _tasks is alone there, and every task the worker
\* started and has not forgotten is the one filed, for its job's latest attempt.
SerialInv ==
  /\ \A t \in tasks : Owned(t) => InDict(t) /\ Latest(t) /\ t.attempt # 0
  /\ \A t, u \in tasks : Owned(t) /\ Owned(u) /\ t.job = u.job => t = u
  /\ \A j, k \in Filed : j = k

\* Every owned task was one before, of the same attempt.
Inherits ==
  \A u \in tasks' : Owned(u) =>
    \E t \in tasks : Owned(t) /\ u.job = t.job /\ u.attempt = t.attempt

Unique == \A t, u \in tasks : Owned(t) /\ Owned(u) /\ t.job = u.job => t = u

LEMMA SerialKept ==
  ASSUME TypeOK, SerialInv, SameLengths, Inherits, Unique', dict' = dict
  PROVE  SerialInv'
<1>1. \A t \in tasks : t.job \in Jobs
  BY DEF TypeOK, Tasks
<1> QED
  BY <1>1 DEF SerialInv, Inherits, Unique, SameLengths, InDict, Latest, Filed

\* What becomes of the tasks, when one moves on or ends or some are cancelled.
LEMMA OwnedMoves ==
  ASSUME TypeOK, Unique, NEW t \in tasks, NEW p \in Phases, Owned(t), tasks' = Moved(t, p)
  PROVE  Inherits /\ Unique'
<1> DEFINE u == [t EXCEPT !.phase = p]
<1>1. u.job = t.job /\ u.attempt = t.attempt
  BY DEF TypeOK, Tasks
<1>2. tasks' = (tasks \ {t}) \cup {u}
  BY DEF Moved
<1> HIDE DEF u
<1> QED
  BY <1>1, <1>2 DEF Inherits, Unique, Owned

LEMMA OwnedStay ==
  ASSUME Unique, tasks' \subseteq tasks
  PROVE  Inherits /\ Unique'
BY DEF Inherits, Unique, Owned

LEMMA OwnedCancelled ==
  ASSUME TypeOK, Unique, NEW S \in SUBSET tasks, tasks' = Cancelling(S)
  PROVE  Inherits /\ Unique'
<1> DEFINE c(t) == [t EXCEPT !.cancel = TRUE]
<1>1. \A t \in tasks : c(t).job = t.job /\ c(t).attempt = t.attempt /\ c(t).phase = t.phase
  BY DEF TypeOK, Tasks
<1>2. tasks' = (tasks \ S) \cup {c(t) : t \in S}
  BY DEF Cancelling
<1> HIDE DEF c
<1>3. Inherits
  BY <1>1, <1>2 DEF Inherits, Owned
<1>4. Unique'
  BY <1>1, <1>2 DEF Unique, Owned
<1> QED
  BY <1>3, <1>4

LEMMA OwnedTaskStep ==
  ASSUME TypeOK, Unique, NEW t \in tasks, TaskStep(t)
  PROVE  Inherits /\ Unique' /\ dict' = dict
<1>1. dict' = dict
  BY DEF TaskStep, Prompt, ExecutorEnds, Begin, DropUnstarted, Unwound, Complete,
     DeliverCancel, Teardown, Join, PassJoin, Block, Fail, NoticeCancel, CreateSubtask,
     RequestApproval, TimeoutInUnwind, Raise, LoseCancel, UseTokens, procVars
<1>2. CASE Begin(t) \/ DropUnstarted(t) \/ PassJoin(t) \/ RequestApproval(t) \/ Raise(t)
  <2>1. Owned(t) /\ (tasks' \subseteq tasks \/ \E p \in Phases : tasks' = Moved(t, p))
    BY <1>2 DEF Begin, DropUnstarted, PassJoin, RequestApproval, Raise, MayStep, Finish,
       Owned, Phases
  <2> QED
    BY <1>1, <2>1, OwnedMoves, OwnedStay
<1>3. CASE Unwound(t) \/ NoticeCancel(t) \/ Join(t) \/ Complete(t) \/ Block(t) \/ Fail(t)
           \/ DeliverCancel(t) \/ Teardown(t) \/ TimeoutInUnwind(t) \/ UseTokens(t)
           \/ \E j \in Jobs : CreateSubtask(t, j)
  <2>1. tasks' \subseteq tasks
    BY <1>3 DEF Unwound, NoticeCancel, Join, Complete, Block, Fail, DeliverCancel, Teardown,
       TimeoutInUnwind, UseTokens, Finish, CreateSubtask, procVars
  <2> QED
    BY <1>1, <2>1, OwnedStay
<1>4. CASE LoseCancel(t)
  <2> DEFINE u == [t EXCEPT !.cancel = FALSE]
  <2>1. u.job = t.job /\ u.attempt = t.attempt /\ u.phase = t.phase
    BY DEF TypeOK, Tasks
  <2>2. tasks' = (tasks \ {t}) \cup {u}
    BY <1>4 DEF LoseCancel
  <2> HIDE DEF u
  <2> QED
    BY <1>1, <2>1, <2>2 DEF Inherits, Unique, Owned
<1> QED
  BY <1>2, <1>3, <1>4 DEF TaskStep, Prompt, ExecutorEnds

\* A worker with one slot claims only when nothing is filed, and then no task
\* of its own is left.
LEMMA SerialClaim ==
  ASSUME TypeOK, SerialInv, Concurrency = 1, NEW j \in Jobs, Claim(j)
  PROVE  SerialInv'
<1> PICK new : new = Task(j, Len(rows[j]) + 1)
  OBVIOUS
<1>1. /\ rows' = [rows EXCEPT ![j] = Append(@, "running")]
      /\ tasks' = tasks \cup {new} /\ dict' = [dict EXCEPT ![j] = Len(rows[j]) + 1]
      /\ Cardinality(Filed) < 1
  BY DEF Claim, ClaimNextJob, HasCapacity
<1>2. /\ dict \in [Jobs -> Nat] /\ rows \in [Jobs -> Seq(RowStatus)]
      /\ \A t \in tasks : t.job \in Jobs /\ t.attempt \in Nat
      /\ Len(rows[j]) \in Nat
  BY LenProperties DEF TypeOK, StoreTypeOK, Tasks
<1>3. new.job = j /\ new.attempt = Len(rows[j]) + 1 /\ new.phase = "new"
  BY DEF Task
<1>4. Filed = {}
  <2>1. IsFiniteSet(Filed) /\ Cardinality(Filed) \in Nat
    BY RunningFinite DEF Filed
  <2>2. Cardinality(Filed) = 0
    BY <1>1, <2>1
  <2> QED
    BY <2>1, <2>2, FS_EmptySet
<1>5. \A t \in tasks : ~Owned(t)
  BY <1>2, <1>4 DEF SerialInv, InDict, Filed
<1>6. Len(rows'[j]) = Len(rows[j]) + 1
  <2>1. "running" \in RowStatus
    BY DEF RowStatus, JobStatus
  <2> QED
    BY <1>1, <1>2, <2>1, AppendProperties
<1>7. Filed' = {j}
  BY <1>1, <1>2, <1>4 DEF Filed
<1>8. \A t \in tasks' : Owned(t) => t = new
  BY <1>1, <1>5
<1>9. InDict(new)' /\ Latest(new)' /\ new.attempt # 0
  BY <1>1, <1>2, <1>3, <1>6 DEF InDict, Latest
<1> QED
  BY <1>7, <1>8, <1>9 DEF SerialInv, InDict, Latest

\* A poll forgets a job with its task, or one that has none left.
LEMMA SerialPoll ==
  ASSUME TypeOK, SerialInv, SameLengths, NEW j \in Jobs, PollDone(j) \/ PollFailed(j)
  PROVE  SerialInv'
<1>1. /\ tasks' \subseteq tasks
      /\ dict' = [dict EXCEPT ![j] = 0]
  BY DEF PollDone, PollFailed
<1>2. dict \in [Jobs -> Nat] /\ \A t \in tasks : t.job \in Jobs
  BY DEF TypeOK, Tasks
<1>3. \A t \in tasks' : Owned(t) => t.job # j
  <2>1. CASE PollDone(j)
    BY <2>1 DEF PollDone, Mine, SerialInv
  <2>2. CASE PollFailed(j)
    <3>1. PICK t \in Mine(j) : t.phase = "error" /\ tasks' = tasks \ {t}
      BY <2>2 DEF PollFailed
    <3> QED
      BY <3>1 DEF Mine, SerialInv, Owned
  <2> QED
    BY <2>1, <2>2
<1>4. Filed' \subseteq Filed
  BY <1>1, <1>2 DEF Filed
<1> QED
  BY <1>1, <1>2, <1>3, <1>4 DEF SerialInv, SameLengths, InDict, Latest, Owned

\* Nothing is owned, or filed, once the lock is free.
LEMMA SerialRelease ==
  ASSUME TypeOK, Release \/ Crash
  PROVE  SerialInv'
<1>1. \A t \in tasks' : ~Owned(t)
  <2>1. CASE Release
    <3>1. tasks' = {[t EXCEPT !.phase = "teardown"] : t \in {u \in tasks : ~Settled(u)}}
      BY <2>1 DEF Release
    <3>2. \A t \in tasks : [t EXCEPT !.phase = "teardown"].phase = "teardown"
      BY DEF TypeOK, Tasks
    <3> QED
      BY <3>1, <3>2 DEF Owned
  <2>2. CASE Crash
    BY <2>2 DEF Crash, Owned
  <2> QED
    BY <2>1, <2>2
<1>2. Filed' = {}
  BY DEF Release, Crash, Filed
<1> QED
  BY <1>1, <1>2 DEF SerialInv, Owned

LEMMA SerialNext ==
  Concurrency = 1 /\ TypeOK /\ AttemptLedger /\ SerialInv /\ [Next]_vars => SerialInv'
<1> SUFFICES ASSUME Concurrency = 1, TypeOK, AttemptLedger, SerialInv, [Next]_vars
             PROVE  SerialInv'
  OBVIOUS
<1>1. CASE \E j \in Jobs : Claim(j)
  BY <1>1, SerialClaim
<1>2. CASE \A j \in Jobs : ~Claim(j)
  <2>1. SameLengths
    BY <1>2, NextQuiet, QuietStore DEF StoreInv, TypeOK
  <2>2. Unique
    BY DEF SerialInv, Unique
  <2>3. CASE Release \/ Crash
    BY <2>3, SerialRelease
  <2>4. CASE \E j \in Jobs : PollDone(j) \/ PollFailed(j)
    BY <2>1, <2>4, SerialPoll
  <2>5. CASE \E j \in Jobs : PollLive(j)
    <3>1. PICK j \in Jobs : PollLive(j)
      BY <2>5
    <3>2. PICK t \in Mine(j) :
            tasks' = IF status[j] = "cancelled" THEN Cancelling({t}) ELSE tasks
      BY <3>1 DEF PollLive
    <3>3. dict' = dict /\ {t} \in SUBSET tasks
      BY <3>1 DEF PollLive, Mine
    <3> QED
      BY <2>1, <2>2, <3>2, <3>3, OwnedCancelled, OwnedStay, SerialKept
  <2>6. CASE Stop \/ PassFails
    <3> DEFINE S == {t \in tasks : InDict(t) /\ t.phase # "error"}
    <3>1. tasks' = Cancelling(S) /\ dict' = dict /\ S \in SUBSET tasks
      BY <2>6 DEF Stop, PassFails, BeginDrain
    <3> HIDE DEF S
    <3> QED
      BY <2>1, <2>2, <3>1, OwnedCancelled, SerialKept
  <2>7. CASE \E t \in tasks : TaskStep(t)
    BY <2>1, <2>2, <2>7, OwnedTaskStep, SerialKept
  <2>8. CASE UNCHANGED <<tasks, dict>>
    BY <2>1, <2>2, <2>8, OwnedStay, SerialKept
  <2>9. \/ Release \/ Crash \/ Stop \/ PassFails \/ UNCHANGED <<tasks, dict>>
        \/ \E j \in Jobs : PollDone(j) \/ PollFailed(j) \/ PollLive(j)
        \/ \E t \in tasks : TaskStep(t)
    BY <1>2 DEF Next, WorkerStep, Fault, Tick, UserStep, DayEnds, StartWorker, Recover, Reconcile,
       OrphansDone, PollsDone, TickDone, ClaimDone, Wake, CancelOrphan, RetrySchedule,
       FireSchedule, Submit, Cancel, Resume, Approve, Reject, procVars, vars
  <2> QED
    BY <2>3, <2>4, <2>5, <2>6, <2>7, <2>8, <2>9
<1> QED
  BY <1>1, <1>2

\* With the default concurrency of one, one attempt executes at a time, the
\* latest of its job: the guard of _tasks makes up for reports that name no
\* attempt.
THEOREM Serial == Spec => []SerialExecution
<1>1. CASE Concurrency = 1
  <2>1. Init => SerialInv
    BY DEF Init, StoreInit, SerialInv, Filed
  <2>2. TypeOK /\ AttemptLedger /\ SerialInv /\ [Next]_vars => SerialInv'
    BY <1>1, SerialNext
  <2>3. TypeOK /\ SerialInv => SerialExecution
    <3> SUFFICES ASSUME TypeOK, SerialInv PROVE SerialExecution
      OBVIOUS
    <3> DEFINE live == {t \in tasks : t.phase \in {"new", "exec", "unwind", "joined"}}
    <3>1. \A t \in live : t \in tasks /\ Owned(t) /\ InDict(t) /\ Latest(t) /\ t.attempt # 0
      BY DEF SerialInv, Owned
    <3>2. \A t, u \in live : t = u
      <4>1. \A t \in live : t.job \in Filed
        BY <3>1 DEF InDict, Filed, TypeOK, Tasks
      <4> QED
        BY <3>1, <4>1 DEF SerialInv
    <3>3. Cardinality(live) <= 1
      <4>1. CASE live = {}
        BY <4>1, FS_EmptySet
      <4>2. CASE \E t \in live : TRUE
        <5>1. PICK t \in live : TRUE
          BY <4>2
        <5>2. live = {t}
          BY <3>2, <5>1
        <5>3. Cardinality({t}) = 1
          BY FS_Singleton
        <5>4. Cardinality(live) = 1
          BY <5>2, <5>3
        <5> QED
          BY <5>4
      <4> QED
        BY <4>1, <4>2
    <3> QED
      BY <3>1, <3>3 DEF SerialExecution, Latest
  <2> QED
    BY <2>1, <2>2, <2>3, TypeCorrect, LedgerTrue, PTL DEF Spec
<1>2. CASE Concurrency # 1
  <2>1. SerialExecution
    BY <1>2 DEF SerialExecution
  <2> QED
    BY <2>1, PTL
<1> QED
  BY <1>1, <1>2
=============================================================================
