----------------------------- MODULE Schedules -----------------------------
(***************************************************************************)
(* Schedules, their occurrences and the retries of the jobs they create:   *)
(* Scheduler.tick and the methods of JobStore it calls.  A tick reads the  *)
(* clock once, lists the failed jobs to retry and then the schedules that  *)
(* are due, and settles each item of a list in a transaction of its own;   *)
(* users, jobs and other processes step between any two of them.           *)
(*                                                                         *)
(* Time is counted in the second that separates an occurrence which is     *)
(* late from one which is not.  A trigger_history row is a record, its     *)
(* status is "skipped" iff it has no job, and its place in the sequence is *)
(* its id; the idempotency key is <<schedule, time, attempt>>.             *)
(***************************************************************************)
EXTENDS Integers, Sequences, FiniteSets

CONSTANTS
  ScheduleIds,   \* the schedules users may create
  Kind,          \* Kind[s]: "once", "interval" or "cron"
  Period,        \* Period[s]: the interval, or the distance of the cron grid
  Policy,        \* Policy[s]: "run_once" or "skip"
  RetryLimit,    \* RetryLimit[s], RetryDelay[s]: as in the schedule's row
  RetryDelay,
  MaxQueued,     \* runtime setting "max_queued_jobs"
  Tickers,       \* who calls Scheduler.tick; the worker lock admits one
  MaxRows,       \* bound: schedules that are created in one behaviour
  MaxClock,      \* bound: the clock stops here
  MaxForeign,    \* bound: jobs that no schedule created, queued at a time
  MaxFaults      \* bound: refused inserts and ticks that end early

ASSUME ScheduleAssumption ==
  /\ Kind \in [ScheduleIds -> {"once", "interval", "cron"}]
  /\ Period \in [ScheduleIds -> Nat \ {0}]
  /\ Policy \in [ScheduleIds -> {"run_once", "skip"}]
  /\ RetryLimit \in [ScheduleIds -> Nat]
  /\ RetryDelay \in [ScheduleIds -> Nat]
  /\ MaxQueued \in Nat /\ MaxRows \in Nat /\ MaxClock \in Nat /\ MaxForeign \in Nat /\ MaxFaults \in Nat

VARIABLES
  clock,      \* datetime.now
  rows,       \* the schedules that exist
  enabled,    \* schedules.enabled
  nextRun,    \* schedules.next_run_at, Never when it is NULL
  history,    \* trigger_history; "at" remembers the clock of the tick
  jobs,       \* the jobs of schedules, by their order of creation
  foreign,    \* how many other jobs are queued
  pc,         \* pc[t]: where the tick of t is
  current,    \* current[t]: the clock as its tick read it
  retries,    \* retries[t]: the triggers its tick still has to retry
  due,        \* due[t]: the occurrences its tick still has to settle
  blocked,    \* ghost: the jobs that have been blocked
  faults      \* counts what MaxFaults bounds

rowVars  == <<rows, enabled, nextRun>>
tickVars == <<pc, current, retries, due>>
vars     == <<clock, rowVars, history, jobs, foreign, tickVars, blocked, faults>>

Never == -1
NoJob == 0

JobStatus == {"queued", "running", "waiting_approval", "waiting_children",
              "completed", "failed", "blocked", "interrupted", "cancelled"}

Init ==
  /\ clock = 0
  /\ rows = {}
  /\ enabled = [s \in ScheduleIds |-> FALSE]
  /\ nextRun = [s \in ScheduleIds |-> Never]
  /\ history = <<>>
  /\ jobs = <<>>
  /\ foreign = 0
  /\ pc = [t \in Tickers |-> "idle"]
  /\ current = [t \in Tickers |-> 0]
  /\ retries = [t \in Tickers |-> {}]
  /\ due = [t \in Tickers |-> {}]
  /\ blocked = {}
  /\ faults = 0

-----------------------------------------------------------------------------
(* Times.                                                                  *)

\* The first multiple of p after d.
CeilingOf(p, d) == (d \div p + 1) * p

NextOccurrence(s, after) ==
  CASE Kind[s] = "once"     -> Never
    [] Kind[s] = "interval" -> after + Period[s]
    [] Kind[s] = "cron"     -> CeilingOf(Period[s], after)

\* Is the occurrence at "time" one that the policy gives up?
Missed(s, time, now) == Policy[s] = "skip" /\ time + 1 < now

\* Mutant: every policy goes on from the occurrence, not from the clock.
FollowingBacklog(s, time, now) == NextOccurrence(s, time)

\* The occurrence after the one at "time", for a tick at "now".
Following(s, time, now) ==
  IF Missed(s, time, now) /\ Kind[s] = "interval"
  THEN time + CeilingOf(Period[s], now - time)
  ELSE NextOccurrence(s, IF Missed(s, time, now) \/ Policy[s] = "run_once"
                         THEN now ELSE time)

-----------------------------------------------------------------------------
(* What the transactions read.                                             *)

Triggers(s) == {i \in DOMAIN history : history[i].schedule = s}

Recorded(s, time, attempt) ==
  \E i \in Triggers(s) : history[i].time = time /\ history[i].attempt = attempt

\* Mutant: the overlap guard forgets jobs that wait for their subtasks.
OpenNotJoining == {"queued", "running", "waiting_approval", "interrupted"}

\* The statuses in which the overlap guard sees a previous run.
Open == {"queued", "running", "waiting_approval", "waiting_children", "interrupted"}

Active(s) ==
  \E i \in Triggers(s) : history[i].job # NoJob /\ jobs[history[i].job].status \in Open

Queued == foreign + Cardinality({j \in DOMAIN jobs : jobs[j].status = "queued"})

\* Mutant: the limit counts retries one short of the attempts.
MayRetryOnceMore(i, now) ==
  LET h == history[i] IN
  /\ enabled[h.schedule]
  /\ h.job # NoJob
  /\ jobs[h.job].status = "failed"
  /\ h.attempt <= RetryLimit[h.schedule] + 1
  /\ jobs[h.job].finished + RetryDelay[h.schedule] <= now

\* Has the job of trigger i failed for long enough, with attempts left?
MayRetry(i, now) ==
  LET h == history[i] IN
  /\ enabled[h.schedule]
  /\ h.job # NoJob
  /\ jobs[h.job].status = "failed"
  /\ h.attempt <= RetryLimit[h.schedule]
  /\ jobs[h.job].finished + RetryDelay[h.schedule] <= now

Newer(i) == Recorded(history[i].schedule, history[i].time, history[i].attempt + 1)

Retryable(now) == {i \in DOMAIN history : MayRetry(i, now) /\ ~Newer(i)}

Due(now) == {s \in rows : enabled[s] /\ nextRun[s] # Never /\ nextRun[s] <= now}

-----------------------------------------------------------------------------
(* A tick.                                                                 *)

\* The tick is over and its local variables are gone.
Leave(t) ==
  /\ pc' = [pc EXCEPT ![t] = "idle"]
  /\ current' = [current EXCEPT ![t] = 0]
  /\ retries' = [retries EXCEPT ![t] = {}]
  /\ due' = [due EXCEPT ![t] = {}]

\* UPDATE jobs: job j has this status and, if it failed, this finished_at.
Put(j, status, finished) ==
  jobs' = [jobs EXCEPT ![j] = [@ EXCEPT !.status = status, !.finished = finished]]

Row(s, time, attempt, job, t) ==
  [schedule |-> s, time |-> time, attempt |-> attempt, job |-> job, at |-> current[t]]

\* tick: reads the clock and, in its first transaction, the failed jobs.
StartTick(t) ==
  /\ pc[t] = "idle"
  /\ pc' = [pc EXCEPT ![t] = "retry"]
  /\ current' = [current EXCEPT ![t] = clock]
  /\ retries' = [retries EXCEPT ![t] =
                   {[id |-> i, finished |-> jobs[history[i].job].finished] :
                      i \in Retryable(clock)}]
  /\ UNCHANGED <<clock, rowVars, history, jobs, foreign, due, blocked, faults>>

\* Mutant: the idempotency key of the retry is that of the attempt before it.
RequeueSameKey(i, t) ==
  /\ MayRetry(i, current[t])
  /\ ~Recorded(history[i].schedule, history[i].time, history[i].attempt)
  /\ ~Active(history[i].schedule)
  /\ Queued < MaxQueued

Requeue(i, t) ==
  /\ MayRetry(i, current[t])
  /\ ~Newer(i)
  /\ ~Active(history[i].schedule)
  /\ Queued < MaxQueued

\* retry_trigger for the job that failed first: queue it again, or leave it.
Retry(t) ==
  /\ pc[t] = "retry"
  /\ \E r \in retries[t] :
       /\ \A o \in retries[t] : r.finished <= o.finished
       /\ retries' = [retries EXCEPT ![t] = @ \ {r}]
       /\ LET h == history[r.id] IN
            IF Requeue(r.id, t)
            THEN /\ Put(h.job, "queued", 0)
                 /\ history' = Append(history, Row(h.schedule, h.time, h.attempt + 1,
                                                   h.job, t))
            ELSE UNCHANGED <<jobs, history>>
  /\ UNCHANGED <<clock, rowVars, foreign, pc, current, due, blocked, faults>>

\* list_due_schedules, by the clock the tick began with.
ListDue(t) ==
  /\ pc[t] = "retry"
  /\ retries[t] = {}
  /\ pc' = [pc EXCEPT ![t] = "fire"]
  /\ due' = [due EXCEPT ![t] = {[schedule |-> s, time |-> nextRun[s], denied |-> FALSE] :
                                  s \in Due(current[t])}]
  /\ UNCHANGED <<clock, rowVars, history, jobs, foreign, current, retries, blocked,
                 faults>>

\* The occurrence that is due the longest, or the one that was denied meanwhile.
First(t, d) == \A o \in due[t] : d.time <= o.time /\ (o.denied => o = d)

\* The tick goes on with the other occurrences.
Done(t, d) ==
  /\ due' = [due EXCEPT ![t] = @ \ {d}]
  /\ UNCHANGED <<pc, current, retries>>

\* fire_schedule goes on only for an enabled schedule nobody has fired meanwhile.
Current(d) == enabled[d.schedule] /\ nextRun[d.schedule] = d.time

Advance(d, t) ==
  nextRun' = [nextRun EXCEPT ![d.schedule] = Following(d.schedule, d.time, current[t])]

\* Mutant: a skipped occurrence does not advance the schedule.
SkipAndStay(t, d) ==
  /\ history' = Append(history, Row(d.schedule, d.time, 1, NoJob, t))
  /\ Done(t, d)
  /\ UNCHANGED <<nextRun, jobs>>

\* The occurrence is recorded without a job.
Skip(t, d) ==
  /\ history' = Append(history, Row(d.schedule, d.time, 1, NoJob, t))
  /\ Advance(d, t)
  /\ Done(t, d)
  /\ UNCHANGED jobs

\* Mutant: the job is named after its trigger row.
CreateByRow(t, d) ==
  /\ jobs' = Append(jobs, [schedule |-> d.schedule, status |-> "queued",
                           finished |-> 0])
  /\ history' = Append(history, Row(d.schedule, d.time, 1, Len(history) + 1, t))
  /\ Advance(d, t)
  /\ Done(t, d)

\* The occurrence becomes a job.
Create(t, d) ==
  /\ jobs' = Append(jobs, [schedule |-> d.schedule, status |-> "queued",
                           finished |-> 0])
  /\ history' = Append(history, Row(d.schedule, d.time, 1, Len(jobs) + 1, t))
  /\ Advance(d, t)
  /\ Done(t, d)

\* The job_admission trigger refuses the insert and the tick is over; the next one
\* begins with the same occurrence.
Refuse(t) == Leave(t) /\ UNCHANGED <<nextRun, history, jobs>>

\* fire_schedule returns without a change.
Pass(t, d) == Done(t, d) /\ UNCHANGED <<nextRun, history, jobs>>

\* The row returned is somebody else's, or there is none.
Stale(d) == ~Current(d) \/ Recorded(d.schedule, d.time, 1)

\* Mutant: a denied occurrence is not recorded.
DenyAndPass(t, d) == Done(t, d) /\ UNCHANGED <<nextRun, history, jobs>>

\* The MCP policy refuses the job: the transaction is rolled back, and fire_schedule
\* is called once more to record the occurrence as skipped.
Deny(t, d) ==
  /\ due' = [due EXCEPT ![t] = (@ \ {d}) \cup {[d EXCEPT !.denied = TRUE]}]
  /\ UNCHANGED <<nextRun, history, jobs, pc, current, retries>>

GivenUp(t, d) ==
  d.denied \/ Missed(d.schedule, d.time, current[t]) \/ Active(d.schedule)

\* fire_schedule, one transaction.
Fire(t) ==
  /\ pc[t] = "fire"
  /\ \E d \in due[t] :
       /\ First(t, d)
       /\ \/ Stale(d) /\ Pass(t, d)
          \/ ~Stale(d) /\ GivenUp(t, d) /\ Skip(t, d)
          \/ /\ ~Stale(d)
             /\ ~GivenUp(t, d)
             /\ \/ Queued < MaxQueued /\ Create(t, d)
                \/ Queued >= MaxQueued /\ Refuse(t)
                \/ Deny(t, d)
  /\ UNCHANGED <<clock, rows, enabled, foreign, blocked, faults>>

EndTick(t) ==
  /\ pc[t] = "fire"
  /\ due[t] = {}
  /\ Leave(t)
  /\ UNCHANGED <<clock, rowVars, history, jobs, foreign, blocked, faults>>

\* A transaction of the tick raises, the submission rate refuses an insert, or the
\* process dies: the rest of the lists is gone.
LoseTick(t) ==
  /\ pc[t] # "idle"
  /\ faults < MaxFaults
  /\ faults' = faults + 1
  /\ Leave(t)
  /\ UNCHANGED <<clock, rowVars, history, jobs, foreign, blocked>>

-----------------------------------------------------------------------------
(* Users, jobs and time.                                                   *)

\* create_schedule; the instant of a "once" schedule may be past already.
CreateSchedule(s) ==
  /\ s \notin rows
  /\ Cardinality(rows) < MaxRows
  /\ rows' = rows \cup {s}
  /\ enabled' = [enabled EXCEPT ![s] = TRUE]
  /\ \E time \in IF Kind[s] = "once" THEN 0..MaxClock ELSE {NextOccurrence(s, clock)} :
       nextRun' = [nextRun EXCEPT ![s] = time]
  /\ UNCHANGED <<clock, history, jobs, foreign, tickVars, blocked, faults>>

SetEnabled(s) ==
  /\ s \in rows
  /\ enabled' = [enabled EXCEPT ![s] = ~@]
  /\ UNCHANGED <<clock, rows, nextRun, history, jobs, foreign, tickVars, blocked, faults>>

\* Where worker and users take a job; a failed one is left to the schedule.
Successors(s) ==
  CASE s = "queued"      -> {"running", "cancelled"}
    [] s = "running"     -> {"completed", "failed", "blocked", "interrupted", "cancelled",
                             "waiting_approval", "waiting_children"}
    [] s \in {"waiting_approval", "waiting_children"}
                         -> {"queued", "blocked", "cancelled"}
    [] s = "interrupted" -> {"queued", "cancelled"}
    [] s = "blocked"     -> {"queued"}
    [] OTHER             -> {}

Work(j) ==
  /\ \E s \in Successors(jobs[j].status) :
       /\ Put(j, s, IF s = "failed" THEN clock ELSE 0)
       /\ blocked' = IF s = "blocked" THEN blocked \cup {j} ELSE blocked
  /\ UNCHANGED <<clock, rowVars, history, foreign, tickVars, faults>>

\* Another job is submitted, within the quota, or leaves the queue.
OtherJobs ==
  /\ foreign' \in {foreign - 1, foreign + 1} \cap 0..MaxForeign
  /\ foreign' > foreign => Queued < MaxQueued
  /\ UNCHANGED <<clock, rowVars, history, jobs, tickVars, blocked, faults>>

PassTime ==
  /\ clock < MaxClock
  /\ clock' = clock + 1
  /\ UNCHANGED <<rowVars, history, jobs, foreign, tickVars, blocked, faults>>

Tick(t) == StartTick(t) \/ Retry(t) \/ ListDue(t) \/ Fire(t) \/ EndTick(t)

Next ==
  \/ \E t \in Tickers : Tick(t) \/ LoseTick(t)
  \/ \E s \in ScheduleIds : CreateSchedule(s) \/ SetEnabled(s)
  \/ \E j \in DOMAIN jobs : Work(j)
  \/ OtherJobs
  \/ PassTime

Spec == Init /\ [][Next]_vars

\* The worker calls tick on every pass, and time goes on; nothing else is fair.
FairSpec == Spec /\ WF_vars(PassTime) /\ \A t \in Tickers : WF_vars(Tick(t))

-----------------------------------------------------------------------------
(* Properties.                                                             *)

Jobs == [schedule : ScheduleIds, status : JobStatus, finished : Nat]

History == [schedule : ScheduleIds, time : Nat, attempt : Nat \ {0}, job : Nat, at : Nat]

\* Every variable stays in its domain, and rows refer to jobs that exist.
TypeOK ==
  /\ clock \in Nat
  /\ rows \subseteq ScheduleIds
  /\ enabled \in [ScheduleIds -> BOOLEAN]
  /\ nextRun \in [ScheduleIds -> Nat \cup {Never}]
  /\ history \in Seq(History)
  /\ \A i \in DOMAIN history : history[i].job \in 0..Len(jobs)
  /\ jobs \in Seq(Jobs)
  /\ foreign \in Nat
  /\ pc \in [Tickers -> {"idle", "retry", "fire"}]
  /\ current \in [Tickers -> Nat]
  /\ retries \in [Tickers -> SUBSET [id : DOMAIN history, finished : Nat]]
  /\ due \in [Tickers -> SUBSET [schedule : ScheduleIds, time : Nat, denied : BOOLEAN]]
  /\ blocked \subseteq DOMAIN jobs
  /\ faults \in Nat

\* The occurrence a schedule waits for lies after every occurrence it settled: were
\* it recorded already, fire_schedule would return that row and never advance
\* (store.py:2238-2243), and the schedule would be stuck for good.
NeverStuck ==
  \A i \in DOMAIN history :
    LET s == history[i].schedule IN nextRun[s] # Never => history[i].time < nextRun[s]

\* Two jobs of a schedule are under way together only if one of them had been
\* blocked, which the overlap guards do not count as under way
\* (store.py:2248-2268, 2437-2454).
OverlapOnlyByResume ==
  \A i, j \in DOMAIN jobs :
    (/\ i # j /\ jobs[i].schedule = jobs[j].schedule
     /\ jobs[i].status \in Open /\ jobs[j].status \in Open)
    => {i, j} \cap blocked # {}

\* "run_once creates one recovery job and advances to the next occurrence after the
\* current time; skip records an occurrence more than one second overdue as skipped"
\* (docs/operations.md:495): no tick is followed by an occurrence from before it, and
\* no job is created for an occurrence a skipping schedule has missed.
NoBacklog ==
  \A i \in DOMAIN history : history[i].attempt = 1 =>
    /\ Policy[history[i].schedule] = "skip" /\ history[i].job # NoJob
         => history[i].at <= history[i].time + 1
    /\ \A k \in Triggers(history[i].schedule) :
         k < i /\ history[k].attempt = 1 =>
           \/ history[k].at < history[i].time
           \/ Policy[history[i].schedule] = "skip" /\ history[k].at <= history[k].time + 1

\* The history as OccurrenceLog sees it.
Outcome(h) == [schedule |-> h.schedule, time |-> h.time, attempt |-> h.attempt,
               job |-> h.job]

Outcomes == [i \in DOMAIN history |-> Outcome(history[i])]

Log == INSTANCE OccurrenceLog WITH Schedules <- ScheduleIds, log <- Outcomes

\* Schedules implements OccurrenceLog: one settlement and one job per occurrence,
\* whatever ticks, users and losses interleave ("restart cannot create a second
\* logical job for the same occurrence", docs/operations.md:392).
LogSpec == Log!Spec

Full == Queued >= MaxQueued

\* An occurrence that is due is settled, unless its schedule is paused or the queue is
\* full: the tick that a full queue ends begins again with the occurrence that is due
\* the longest, so none is overtaken for ever (scheduler.py:240-273, worker.py:143).
DueIsSettled ==
  \A s \in ScheduleIds : \A time \in 0..MaxClock :
    (s \in rows /\ enabled[s] /\ nextRun[s] = time /\ clock >= time)
      ~> (~enabled[s] \/ nextRun[s] # time \/ Full)

\* A failed job with attempts left is queued again, unless its schedule is paused or
\* busy or the queue is full: "eligible schedule retries continue on worker startup"
\* (docs/operations.md:404), and a lost tick loses no retry.
FailedIsRetried ==
  \A s \in ScheduleIds : \A i \in 1..MaxClock :
    (i \in Triggers(s) /\ i \in Retryable(clock))
      ~> (i \notin Retryable(clock) \/ Active(s) \/ Full)
=============================================================================
