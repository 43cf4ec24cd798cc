----------------------------- MODULE PlanSteps -----------------------------
(***************************************************************************)
(* The durable plan of a job: the rows of job_steps, which the planning    *)
(* tools write while the job runs, a stopping worker and a recovery tidy,  *)
(* and the gate of JobRunner.run reads before it lets the job complete.    *)
(***************************************************************************)
EXTENDS Integers, Sequences

CONSTANTS
  MaxSteps,       \* 20 steps in a plan
  MaxRevisions,   \* bound: plans written
  MaxResumes      \* bound: attempts after the first

ASSUME PlanAssumption == MaxSteps \in Nat \ {0} /\ MaxRevisions \in Nat /\ MaxResumes \in Nat

VARIABLES
  owner,      \* the job's status
  plan,       \* job_steps, by position: the status and whether it has a result
  attempt,    \* the attempt: "none", "acts", or what the gate has decided
  written,    \* how many plans were written
  resumed     \* counts what MaxResumes bounds

planVars == <<owner, plan, attempt, written, resumed>>

StepStatus == {"pending", "in_progress", "completed", "failed"}

NewStep == [status |-> "pending", result |-> FALSE]

PlanInit ==
  /\ owner = "queued"
  /\ plan = <<>>
  /\ attempt = "none"
  /\ written = 0 /\ resumed = 0

-----------------------------------------------------------------------------
(* The planning tools.                                                     *)

\* _write_plan of n steps, which must be the first plan unless it replaces one.
WritePlan(n, replace) ==
  /\ owner = "running" /\ attempt = "acts"
  /\ n <= MaxSteps /\ written < MaxRevisions
  /\ plan # <<>> => replace
  /\ plan' = [i \in 1 .. n |-> NewStep]
  /\ written' = written + 1
  /\ UNCHANGED <<owner, attempt, resumed>>

\* The other steps when one is taken up.
Others(p, position) ==
  [i \in DOMAIN p |-> IF i # position /\ p[i].status = "in_progress"
                      THEN [p[i] EXCEPT !.status = "pending"] ELSE p[i]]

Updatable(position, status) ==
  position \in DOMAIN plan /\ (plan[position].status = "completed" => status = "completed")

\* A refused update leaves no trace: the transaction is rolled back.
UpdateStep(position, status, result) ==
  /\ owner = "running" /\ attempt = "acts"
  /\ Updatable(position, status)
  /\ LET others == IF status = "in_progress" THEN Others(plan, position) ELSE plan
     IN plan' = [others EXCEPT ![position] = [status |-> status, result |-> result]]
  /\ UNCHANGED <<owner, attempt, written, resumed>>

-----------------------------------------------------------------------------
(* Attempts.                                                               *)

ClaimPlanned ==
  /\ owner = "queued"
  /\ owner' = "running" /\ attempt' = "acts"
  /\ UNCHANGED <<plan, written, resumed>>

\* Neither an unfinished step, nor a failed one without a reason.
Done(p) ==
  /\ \A i \in DOMAIN p : p[i].status \notin {"pending", "in_progress"}
  /\ \A i \in DOMAIN p : p[i].status = "failed" => p[i].result

\* The gate reads the steps in one transaction ...
ReadPlan ==
  /\ owner = "running" /\ attempt = "acts"
  /\ attempt' = IF Done(plan) THEN "complete" ELSE "fail"
  /\ UNCHANGED <<owner, plan, written, resumed>>

\* ... and complete_job or fail_job writes the verdict in the next.
WriteVerdict ==
  /\ attempt \in {"complete", "fail"}
  /\ owner' = IF owner # "running" THEN owner ELSE IF attempt = "complete" THEN "completed" ELSE "failed"
  /\ attempt' = "none"
  /\ UNCHANGED <<plan, written, resumed>>

\* Another end: the job is blocked, or waits for an approval or for its subtasks.
LeaveRunning(status) ==
  /\ attempt = "acts"
  /\ owner' = IF owner = "running" THEN status ELSE owner
  /\ attempt' = "none"
  /\ UNCHANGED <<plan, written, resumed>>

\* Mutant: the step the attempt was at stays as it is.
KeptUnderWay(p) == p

Tidied(p) == [i \in DOMAIN p |-> IF p[i].status = "in_progress" THEN [p[i] EXCEPT !.status = "pending"] ELSE p[i]]

\* interrupt_job by a worker that stops, or recover_interrupted_jobs after a crash.
InterruptPlanned ==
  /\ attempt # "none"
  /\ attempt' = "none"
  /\ IF owner = "running" THEN owner' = "interrupted" /\ plan' = Tidied(plan) ELSE UNCHANGED <<owner, plan>>
  /\ UNCHANGED <<written, resumed>>

CancelPlanned ==
  /\ owner \in {"queued", "running", "blocked", "interrupted", "waiting"}
  /\ owner' = "cancelled"
  /\ UNCHANGED <<plan, attempt, written, resumed>>

\* resume_job, decide_approval, reconcile_children, retry_trigger
RequeuePlanned ==
  /\ owner \in {"blocked", "interrupted", "waiting", "failed"} /\ resumed < MaxResumes
  /\ owner' = "queued" /\ resumed' = resumed + 1
  /\ UNCHANGED <<plan, attempt, written>>

-----------------------------------------------------------------------------
PlanNext ==
  \/ \E n \in 1 .. MaxSteps, replace \in BOOLEAN : WritePlan(n, replace)
  \/ \E position \in 1 .. MaxSteps, status \in StepStatus, result \in BOOLEAN :
       UpdateStep(position, status, result)
  \/ ClaimPlanned \/ ReadPlan \/ WriteVerdict
  \/ \E status \in {"blocked", "waiting", "failed"} : LeaveRunning(status)
  \/ InterruptPlanned \/ CancelPlanned \/ RequeuePlanned

PlanSpec == PlanInit /\ [][PlanNext]_planVars

-----------------------------------------------------------------------------
(* Properties.                                                             *)

PlanTypeOK ==
  /\ owner \in {"queued", "running", "waiting", "blocked", "interrupted", "failed", "completed", "cancelled"}
  /\ plan \in Seq([status : StepStatus, result : BOOLEAN]) /\ Len(plan) <= MaxSteps
  /\ attempt \in {"none", "acts", "complete", "fail"}
  /\ written \in 0 .. MaxRevisions /\ resumed \in 0 .. MaxResumes

(* One step at most is under way, over all attempts; none is while the job *)
(* is interrupted (interrupt_job, recover_interrupted_jobs); and a         *)
(* completed job has done every step or failed it with a reason, although  *)
(* the gate and the verdict are two transactions.                          *)
PlanHolds ==
  LET underWay == {i \in DOMAIN plan : plan[i].status = "in_progress"} IN
  /\ \A i, k \in underWay : i = k
  /\ owner = "interrupted" => underWay = {}
  /\ owner = "completed" =>
       \A i \in DOMAIN plan : plan[i].status = "completed" \/ (plan[i].status = "failed" /\ plan[i].result)

(* No attempt takes up a completed step again, unless it writes a new plan *)
(* ("a completed step cannot be reopened; revise the plan instead").       *)
StepsStayDone ==
  written' = written =>
    \A i \in DOMAIN plan : plan[i].status = "completed" => plan'[i].status = "completed"

(* A plan says truly what is under way and what is done.                   *)
PlanIsTrue == [][PlanHolds' /\ StepsStayDone]_planVars
=============================================================================
