--------------------------- MODULE ScheduleProofs ---------------------------
(***************************************************************************)
(* Theorems about Schedules, for any schedules, kinds, periods, policies   *)
(* and limits, any number of processes that tick, and any faults.          *)
(***************************************************************************)
EXTENDS Schedules, SequenceTheorems, TLAPS

-----------------------------------------------------------------------------
(* The inductive invariant.                                                *)

\* What a tick still has to settle is due by its own clock.
TickInv ==
  \A t \in Tickers :
    /\ pc[t] # "fire" => due[t] = {}
    /\ \A d \in due[t] : d.schedule \in rows /\ d.time <= current[t]

\* Only schedules that exist have history.
RowsKnown == \A i \in DOMAIN history : history[i].schedule \in rows

\* A row and its job belong to the same schedule.
RowsAgree ==
  \A i \in DOMAIN history :
    history[i].job # NoJob => jobs[history[i].job].schedule = history[i].schedule

\* Every job has a row: the overlap guards, which look for jobs through the rows,
\* overlook none.
JobsRecorded ==
  \A j \in DOMAIN jobs : \E i \in DOMAIN history : history[i].job = j

BlockedKnown == \A j \in DOMAIN jobs : jobs[j].status = "blocked" => j \in blocked

StoreInv == RowsKnown /\ RowsAgree /\ JobsRecorded /\ BlockedKnown

IInv == TypeOK /\ TickInv /\ StoreInv /\ NeverStuck /\ OverlapOnlyByResume

-----------------------------------------------------------------------------
(* Data.                                                                   *)

\* The ceiling of d is after d.
LEMMA CeilingAfter ==
  ASSUME NEW p \in Nat \ {0}, NEW d \in Nat
  PROVE  CeilingOf(p, d) \in Nat /\ CeilingOf(p, d) > d
<1>1. d < (d \div p + 1) * p
  BY Z3
<1>2. d \div p \in Int
  OBVIOUS
<1>3. (d \div p + 1) * p \in Int
  BY <1>2
<1> QED
  BY <1>1, <1>3 DEF CeilingOf

LEMMA NextAfter ==
  ASSUME NEW s \in ScheduleIds, NEW n \in Nat
  PROVE  /\ NextOccurrence(s, n) \in Nat \cup {Never}
         /\ NextOccurrence(s, n) # Never => NextOccurrence(s, n) > n
<1>1. Period[s] \in Nat \ {0} /\ Kind[s] \in {"once", "interval", "cron"}
  BY ScheduleAssumption
<1>2. CeilingOf(Period[s], n) \in Nat /\ CeilingOf(Period[s], n) > n
  BY <1>1, CeilingAfter
<1> QED
  BY <1>1, <1>2 DEF NextOccurrence, Never

\* A schedule advances to an occurrence after the one it settles.
LEMMA FollowingAfter ==
  ASSUME NEW s \in ScheduleIds, NEW n \in Nat, NEW m \in Nat, n <= m
  PROVE  /\ Following(s, n, m) \in Nat \cup {Never}
         /\ Following(s, n, m) # Never => Following(s, n, m) > n
<1>1. CASE Missed(s, n, m) /\ Kind[s] = "interval"
  <2>1. m - n \in Nat /\ Period[s] \in Nat \ {0}
    BY ScheduleAssumption
  <2>2. CeilingOf(Period[s], m - n) \in Nat /\ CeilingOf(Period[s], m - n) > m - n
    BY <2>1, CeilingAfter
  <2> QED
    BY <1>1, <2>1, <2>2 DEF Following
<1>2. CASE ~(Missed(s, n, m) /\ Kind[s] = "interval")
  <2>1. \/ Following(s, n, m) = NextOccurrence(s, m)
        \/ Following(s, n, m) = NextOccurrence(s, n)
    BY <1>2 DEF Following
  <2> QED
    BY <2>1, NextAfter
<1> QED
  BY <1>1, <1>2

\* What an insert into jobs does.
LEMMA JobAppended ==
  ASSUME TypeOK, NEW s \in ScheduleIds,
         jobs' = Append(jobs, [schedule |-> s, status |-> "queued", finished |-> 0])
  PROVE  /\ jobs' \in Seq(Jobs)
         /\ Len(jobs) \in Nat /\ Len(jobs') = Len(jobs) + 1
         /\ \A j \in DOMAIN jobs : jobs'[j] = jobs[j]
         /\ jobs'[Len(jobs) + 1] = [schedule |-> s, status |-> "queued", finished |-> 0]
<1>1. [schedule |-> s, status |-> "queued", finished |-> 0] \in Jobs
  BY DEF Jobs, JobStatus
<1> QED
  BY <1>1, AppendProperties, LenProperties DEF TypeOK

\* What an update of jobs does.
LEMMA JobPut ==
  ASSUME TypeOK, NEW j \in DOMAIN jobs, NEW s \in JobStatus, NEW n \in Nat, Put(j, s, n)
  PROVE  /\ jobs' \in Seq(Jobs)
         /\ Len(jobs') = Len(jobs) /\ DOMAIN jobs' = DOMAIN jobs
         /\ \A k \in DOMAIN jobs : jobs'[k].schedule = jobs[k].schedule
         /\ \A k \in DOMAIN jobs \ {j} : jobs'[k] = jobs[k]
         /\ jobs'[j].status = s
<1>1. jobs \in [1..Len(jobs) -> Jobs] /\ Len(jobs) \in Nat /\ DOMAIN jobs = 1..Len(jobs)
  BY LenProperties DEF TypeOK
<1>2. [jobs[j] EXCEPT !.status = s, !.finished = n] \in Jobs
  BY <1>1 DEF Jobs
<1>3. jobs' = [jobs EXCEPT ![j] = [jobs[j] EXCEPT !.status = s, !.finished = n]]
  BY DEF Put
<1>4. jobs' \in [1..Len(jobs) -> Jobs]
  BY <1>1, <1>2, <1>3
<1>5. jobs' \in Seq(Jobs) /\ Len(jobs') = Len(jobs)
  BY <1>1, <1>4, LenProperties
<1> QED
  BY <1>1, <1>2, <1>3, <1>4, <1>5 DEF Jobs

\* What an insert into trigger_history does.
LEMMA RowAppended ==
  ASSUME TypeOK, NEW h \in History, history' = Append(history, h)
  PROVE  /\ history' \in Seq(History)
         /\ Len(history) \in Nat /\ Len(history') = Len(history) + 1
         /\ DOMAIN history = 1..Len(history) /\ DOMAIN history' = 1..(Len(history) + 1)
         /\ \A i \in DOMAIN history : history'[i] = history[i]
         /\ history'[Len(history) + 1] = h
  BY AppendProperties, LenProperties DEF TypeOK

\* The row a tick writes.
LEMMA RowType ==
  ASSUME TypeOK, NEW t \in Tickers, NEW s \in ScheduleIds, NEW time \in Nat,
         NEW n \in Nat \ {0}, NEW j \in Nat
  PROVE  Row(s, time, n, j, t) \in History
  BY DEF Row, History, TypeOK

LEMMA JobNumbers ==
  ASSUME TypeOK
  PROVE  /\ Len(jobs) \in Nat /\ DOMAIN jobs = 1..Len(jobs)
         /\ \A i \in DOMAIN history : history[i].job # NoJob => history[i].job \in DOMAIN jobs
         /\ \A i \in DOMAIN history : history[i] \in History
         /\ \A j \in DOMAIN jobs : jobs[j] \in Jobs
  BY LenProperties, ElementOfSeq DEF TypeOK, NoJob

\* An occurrence on a tick's list.
LEMMA DueFacts ==
  ASSUME IInv, NEW t \in Tickers, NEW d \in due[t]
  PROVE  /\ d.schedule \in ScheduleIds /\ d.schedule \in rows /\ d.time \in Nat
         /\ d = [schedule |-> d.schedule, time |-> d.time, denied |-> d.denied]
         /\ d.denied \in BOOLEAN /\ current[t] \in Nat /\ d.time <= current[t]
         /\ pc[t] = "fire"
  BY DEF IInv, TypeOK, TickInv

\* An advance moves the schedule beyond the occurrence.
LEMMA AdvanceFacts ==
  ASSUME IInv, NEW t \in Tickers, NEW d \in due[t], Advance(d, t)
  PROVE  /\ nextRun' \in [ScheduleIds -> Nat \cup {Never}]
         /\ nextRun'[d.schedule] # Never => nextRun'[d.schedule] > d.time
         /\ \A s \in ScheduleIds \ {d.schedule} : nextRun'[s] = nextRun[s]
<1>1. /\ d.schedule \in ScheduleIds /\ d.time \in Nat /\ current[t] \in Nat
      /\ d.time <= current[t]
  BY DueFacts
<1>2. /\ Following(d.schedule, d.time, current[t]) \in Nat \cup {Never}
      /\ Following(d.schedule, d.time, current[t]) # Never
           => Following(d.schedule, d.time, current[t]) > d.time
  BY <1>1, FollowingAfter
<1> QED
  BY <1>1, <1>2 DEF Advance, IInv, TypeOK

-----------------------------------------------------------------------------
(* Type correctness.                                                       *)

LEMMA InitTypes == Init => TypeOK
<1> SUFFICES ASSUME Init PROVE TypeOK
  OBVIOUS
<1>1. history = <<>> /\ jobs = <<>>
  BY DEF Init
<1>2. /\ history \in Seq(History) /\ DOMAIN history = {} /\ jobs \in Seq(Jobs)
      /\ DOMAIN jobs = {}
  BY <1>1
<1> QED
  BY <1>2 DEF Init, TypeOK, Never

\* A longer history and more jobs leave the references of rows and lists valid.
LEMMA Grown ==
  ASSUME TypeOK, NEW h \in History, history' = Append(history, h),
         Len(jobs') \in Nat, Len(jobs) <= Len(jobs'), h.job \in 0..Len(jobs')
  PROVE  /\ history' \in Seq(History)
         /\ \A i \in DOMAIN history' : history'[i].job \in 0..Len(jobs')
         /\ DOMAIN history \subseteq DOMAIN history'
<1>1. /\ history' \in Seq(History)
      /\ DOMAIN history = 1..Len(history) /\ DOMAIN history' = 1..(Len(history) + 1)
      /\ Len(history) \in Nat
      /\ \A i \in DOMAIN history : history'[i] = history[i]
      /\ history'[Len(history) + 1] = h
  BY RowAppended
<1>2. \A i \in DOMAIN history : history[i].job \in 0..Len(jobs) /\ Len(jobs) \in Nat
  BY JobNumbers DEF TypeOK
<1>3. ASSUME NEW i \in DOMAIN history' PROVE history'[i].job \in 0..Len(jobs')
  <2>1. CASE i \in DOMAIN history
    BY <1>1, <1>2, <2>1
  <2>2. CASE i = Len(history) + 1
    BY <1>1, <2>2
  <2> QED
    BY <1>1, <2>1, <2>2
<1> QED
  BY <1>1, <1>3

\* The variables a transaction of a tick changes.
StoreTypes ==
  /\ nextRun' \in [ScheduleIds -> Nat \cup {Never}]
  /\ history' \in Seq(History)
  /\ \A i \in DOMAIN history' : history'[i].job \in 0..Len(jobs')
  /\ DOMAIN history \subseteq DOMAIN history'
  /\ jobs' \in Seq(Jobs)
  /\ DOMAIN jobs \subseteq DOMAIN jobs'

LEMMA SameTypes ==
  ASSUME TypeOK, UNCHANGED <<nextRun, history, jobs>> PROVE StoreTypes
  BY DEF TypeOK, StoreTypes

LEMMA SkipTypes ==
  ASSUME IInv, NEW t \in Tickers, NEW d \in due[t], Skip(t, d)
  PROVE  StoreTypes
<1> DEFINE h == Row(d.schedule, d.time, 1, NoJob, t)
<1>1. h \in History /\ h.job = NoJob
  BY DueFacts, RowType DEF IInv, NoJob, Row
<1>2. Len(jobs) \in Nat /\ jobs' = jobs /\ history' = Append(history, h)
  BY LenProperties DEF Skip, IInv, TypeOK
<1>3. /\ history' \in Seq(History)
      /\ \A i \in DOMAIN history' : history'[i].job \in 0..Len(jobs')
      /\ DOMAIN history \subseteq DOMAIN history'
  <2> HIDE DEF h
  <2> QED
    BY <1>1, <1>2, Grown DEF IInv, NoJob
<1> QED
  BY <1>2, <1>3, AdvanceFacts DEF Skip, StoreTypes, IInv, TypeOK

LEMMA CreateTypes ==
  ASSUME IInv, NEW t \in Tickers, NEW d \in due[t], Create(t, d)
  PROVE  StoreTypes
<1> DEFINE h == Row(d.schedule, d.time, 1, Len(jobs) + 1, t)
<1>1. /\ jobs' \in Seq(Jobs) /\ Len(jobs) \in Nat /\ Len(jobs') = Len(jobs) + 1
      /\ DOMAIN jobs \subseteq DOMAIN jobs'
  BY DueFacts, JobAppended, LenProperties DEF Create, IInv
<1>2. h \in History /\ h.job = Len(jobs) + 1
  <2>1. Len(jobs) + 1 \in Nat /\ d.schedule \in ScheduleIds /\ d.time \in Nat
    BY <1>1, DueFacts
  <2>2. h \in History
    BY <2>1, RowType DEF IInv
  <2> QED
    BY <2>2 DEF Row
<1>3. history' = Append(history, h)
  BY DEF Create
<1>4. /\ history' \in Seq(History)
      /\ \A i \in DOMAIN history' : history'[i].job \in 0..Len(jobs')
      /\ DOMAIN history \subseteq DOMAIN history'
  <2> HIDE DEF h
  <2> QED
    BY <1>1, <1>2, <1>3, Grown DEF IInv
<1> QED
  BY <1>1, <1>4, AdvanceFacts DEF Create, StoreTypes

\* The trigger a tick retries.
LEMMA RetryFacts ==
  ASSUME IInv, NEW t \in Tickers, NEW r \in retries[t], Requeue(r.id, t)
  PROVE  /\ r.id \in DOMAIN history /\ history[r.id] \in History
         /\ history[r.id].job \in DOMAIN jobs /\ history[r.id].job # NoJob
         /\ jobs[history[r.id].job].status = "failed"
         /\ ~Active(history[r.id].schedule) /\ ~Newer(r.id)
         /\ history[r.id].attempt <= RetryLimit[history[r.id].schedule]
<1>1. r.id \in DOMAIN history
  BY DEF IInv, TypeOK
<1> QED
  BY <1>1, JobNumbers DEF IInv, Requeue, MayRetry

\* What Retry does when it queues the job again.
Requeued(r, t) ==
  LET h == history[r.id] IN
  /\ Put(h.job, "queued", 0)
  /\ history' = Append(history, Row(h.schedule, h.time, h.attempt + 1, h.job, t))
  /\ UNCHANGED <<rows, nextRun, blocked>>

LEMMA RetryTypes ==
  ASSUME IInv, NEW t \in Tickers, NEW r \in retries[t], Requeue(r.id, t), Requeued(r, t)
  PROVE  StoreTypes
<1> DEFINE o == history[r.id]
           h == Row(o.schedule, o.time, o.attempt + 1, o.job, t)
<1>1. o \in History /\ o.job \in DOMAIN jobs
  BY RetryFacts
<1>2. /\ jobs' \in Seq(Jobs) /\ Len(jobs') = Len(jobs) /\ DOMAIN jobs' = DOMAIN jobs
      /\ Len(jobs) \in Nat
  BY <1>1, JobPut, JobNumbers DEF IInv, Requeued, JobStatus
<1>3. /\ o.schedule \in ScheduleIds /\ o.time \in Nat /\ o.attempt + 1 \in Nat \ {0}
      /\ o.job \in Nat
  BY <1>1 DEF History
<1>4. h \in History /\ h.job = o.job
  <2> HIDE DEF o
  <2> QED
    BY <1>3, RowType DEF IInv, Row
<1>5. o.job \in 0..Len(jobs)
  BY <1>1, JobNumbers DEF IInv
<1>6. history' = Append(history, h)
  BY DEF Requeued
<1>7. /\ history' \in Seq(History)
      /\ \A i \in DOMAIN history' : history'[i].job \in 0..Len(jobs')
      /\ DOMAIN history \subseteq DOMAIN history'
  <2> HIDE DEF h, o
  <2> QED
    BY <1>2, <1>4, <1>5, <1>6, Grown DEF IInv
<1> QED
  BY <1>2, <1>7 DEF Requeued, StoreTypes, IInv, TypeOK

\* The variables of the ticks.
TickTypes ==
  /\ pc' \in [Tickers -> {"idle", "retry", "fire"}]
  /\ current' \in [Tickers -> Nat]
  /\ retries' \in [Tickers -> SUBSET [id : DOMAIN history, finished : Nat]]
  /\ due' \in [Tickers -> SUBSET [schedule : ScheduleIds, time : Nat, denied : BOOLEAN]]

\* A step is well typed when it changes only what these two describe.
LEMMA TypesTogether ==
  ASSUME TypeOK, StoreTypes, TickTypes, clock' \in Nat, rows' \subseteq ScheduleIds,
         enabled' \in [ScheduleIds -> BOOLEAN], foreign' \in Nat, faults' \in Nat,
         blocked' \subseteq DOMAIN jobs'
  PROVE  TypeOK'
  BY DEF TypeOK, StoreTypes, TickTypes

LEMMA LeaveTypes ==
  ASSUME TypeOK, NEW t \in Tickers, Leave(t) PROVE TickTypes
  BY DEF TypeOK, Leave, TickTypes

LEMMA FireTypes ==
  ASSUME IInv, NEW t \in Tickers, Fire(t)
  PROVE  TypeOK'
<1>1. PICK d \in due[t] : 
        \/ Pass(t, d) \/ Skip(t, d) \/ Create(t, d) \/ Refuse(t) \/ Deny(t, d)
  BY DEF Fire
<1>2. StoreTypes
  <2>1. CASE Skip(t, d)
    BY <2>1, SkipTypes
  <2>2. CASE Create(t, d)
    BY <2>2, CreateTypes
  <2>3. CASE Pass(t, d) \/ Refuse(t) \/ Deny(t, d)
    BY <2>3, SameTypes DEF IInv, Pass, Refuse, Deny
  <2> QED
    BY <1>1, <2>1, <2>2, <2>3
<1>3. TickTypes
  <2>1. CASE Refuse(t)
    BY <2>1, LeaveTypes DEF Refuse, IInv
  <2>2. CASE Deny(t, d)
    <3> DEFINE Items == [schedule : ScheduleIds, time : Nat, denied : BOOLEAN]
    <3>1. due \in [Tickers -> SUBSET Items] /\ d \in Items
      BY DEF IInv, TypeOK
    <3>2. [d EXCEPT !.denied = TRUE] \in Items
      BY <3>1
    <3>3. due' \in [Tickers -> SUBSET Items]
      <4> HIDE DEF Items
      <4> QED
        BY <2>2, <3>1, <3>2 DEF Deny
    <3> QED
      BY <2>2, <3>3 DEF Deny, IInv, TypeOK, TickTypes
  <2>3. CASE Pass(t, d) \/ Skip(t, d) \/ Create(t, d)
    <3>1. Done(t, d)
      BY <2>3 DEF Pass, Skip, Create
    <3> QED
      BY <3>1 DEF Done, IInv, TypeOK, TickTypes
  <2> QED
    BY <1>1, <2>1, <2>2, <2>3
<1>4. /\ clock' \in Nat /\ rows' \subseteq ScheduleIds
      /\ enabled' \in [ScheduleIds -> BOOLEAN] /\ foreign' \in Nat /\ faults' \in Nat
      /\ blocked' \subseteq DOMAIN jobs'
  BY <1>2 DEF Fire, IInv, TypeOK, StoreTypes
<1> QED
  BY <1>2, <1>3, <1>4, TypesTogether DEF IInv

LEMMA RetryStepTypes ==
  ASSUME IInv, NEW t \in Tickers, Retry(t)
  PROVE  TypeOK'
<1>1. PICK r \in retries[t] :
        /\ retries' = [retries EXCEPT ![t] = @ \ {r}]
        /\ \/ Requeue(r.id, t) /\ Requeued(r, t)
           \/ UNCHANGED <<jobs, history>>
  BY DEF Retry, Requeued, rowVars
<1>2. StoreTypes
  BY <1>1, RetryTypes, SameTypes DEF Retry, rowVars, IInv
<1>3. TickTypes
  BY <1>1 DEF Retry, IInv, TypeOK, TickTypes
<1>4. /\ clock' \in Nat /\ rows' \subseteq ScheduleIds
      /\ enabled' \in [ScheduleIds -> BOOLEAN] /\ foreign' \in Nat /\ faults' \in Nat
      /\ blocked' \subseteq DOMAIN jobs'
  BY <1>2 DEF Retry, rowVars, IInv, TypeOK, StoreTypes
<1> QED
  BY <1>2, <1>3, <1>4, TypesTogether DEF IInv

LEMMA StartTypes ==
  ASSUME IInv, NEW t \in Tickers, StartTick(t)
  PROVE  TypeOK'
<1>1. \A i \in Retryable(clock) :
        i \in DOMAIN history /\ jobs[history[i].job].finished \in Nat
  BY JobNumbers DEF Retryable, MayRetry, IInv, Jobs
<1>2. TickTypes
  BY <1>1 DEF StartTick, IInv, TypeOK, TickTypes
<1>3. StoreTypes
  BY SameTypes DEF StartTick, rowVars, IInv
<1> QED
  BY <1>2, <1>3, TypesTogether DEF StartTick, rowVars, IInv, TypeOK

LEMMA ListTypes ==
  ASSUME IInv, NEW t \in Tickers, ListDue(t)
  PROVE  TypeOK'
<1>1. \A s \in Due(current[t]) : s \in ScheduleIds /\ nextRun[s] \in Nat
  BY DEF Due, IInv, TypeOK
<1>2. TickTypes
  <2> DEFINE Items == [schedule : ScheduleIds, time : Nat, denied : BOOLEAN]
             New   == {[schedule |-> s, time |-> nextRun[s], denied |-> FALSE] :
                         s \in Due(current[t])}
  <2>1. New \in SUBSET Items
    <3>1. ASSUME NEW s \in Due(current[t])
          PROVE  [schedule |-> s, time |-> nextRun[s], denied |-> FALSE] \in Items
      BY <1>1, <3>1
    <3>2. ASSUME NEW x \in New PROVE x \in Items
      BY <3>1, <3>2 DEF New
    <3> HIDE DEF Items, New
    <3> QED
      BY <3>2
  <2>2. due' \in [Tickers -> SUBSET Items]
    <3>1. due \in [Tickers -> SUBSET Items] /\ due' = [due EXCEPT ![t] = New]
      BY DEF ListDue, IInv, TypeOK
    <3> HIDE DEF Items, New
    <3> QED
      BY <2>1, <3>1
  <2> QED
    BY <2>2 DEF ListDue, IInv, TypeOK, TickTypes
<1>3. StoreTypes
  BY SameTypes DEF ListDue, rowVars, IInv
<1> QED
  BY <1>2, <1>3, TypesTogether DEF ListDue, rowVars, IInv, TypeOK

LEMMA LeavingTypes ==
  ASSUME IInv, NEW t \in Tickers, EndTick(t) \/ LoseTick(t)
  PROVE  TypeOK'
<1>1. Leave(t) /\ UNCHANGED <<clock, rowVars, history, jobs, foreign, blocked>>
  BY DEF EndTick, LoseTick
<1>2. faults' \in Nat
  BY DEF EndTick, LoseTick, IInv, TypeOK
<1>3. TickTypes /\ StoreTypes
  BY <1>1, LeaveTypes, SameTypes DEF IInv, rowVars
<1> QED
  BY <1>1, <1>2, <1>3, TypesTogether DEF rowVars, IInv, TypeOK

LEMMA SuccessorTypes ==
  \A s \in JobStatus : Successors(s) \subseteq JobStatus
  BY DEF Successors, JobStatus

\* What a step of a job does.
LEMMA WorkFacts ==
  ASSUME IInv, NEW j \in DOMAIN jobs, Work(j)
  PROVE  \E s \in Successors(jobs[j].status), n \in Nat :
           /\ s \in JobStatus /\ Put(j, s, n)
           /\ blocked' = IF s = "blocked" THEN blocked \cup {j} ELSE blocked
<1>1. jobs[j].status \in JobStatus /\ clock \in Nat
  BY JobNumbers DEF IInv, Jobs, TypeOK
<1>2. PICK s \in Successors(jobs[j].status) :
        /\ Put(j, s, IF s = "failed" THEN clock ELSE 0)
        /\ blocked' = IF s = "blocked" THEN blocked \cup {j} ELSE blocked
  BY DEF Work
<1>3. s \in JobStatus /\ (IF s = "failed" THEN clock ELSE 0) \in Nat
  BY <1>1, <1>2, SuccessorTypes
<1> QED
  BY <1>2, <1>3

LEMMA WorkTypes ==
  ASSUME IInv, NEW j \in DOMAIN jobs, Work(j)
  PROVE  TypeOK'
<1>1. PICK s \in JobStatus, n \in Nat :
        Put(j, s, n) /\ blocked' = IF s = "blocked" THEN blocked \cup {j} ELSE blocked
  BY WorkFacts
<1>2. jobs' \in Seq(Jobs) /\ Len(jobs') = Len(jobs) /\ DOMAIN jobs' = DOMAIN jobs
  BY <1>1, JobPut DEF IInv
<1>3. StoreTypes
  BY <1>2 DEF Work, rowVars, IInv, TypeOK, StoreTypes
<1>4. TickTypes
  BY DEF Work, tickVars, IInv, TypeOK, TickTypes
<1>5. blocked' \subseteq DOMAIN jobs'
  BY <1>1, <1>2 DEF IInv, TypeOK
<1> QED
  BY <1>3, <1>4, <1>5, TypesTogether DEF Work, rowVars, IInv, TypeOK

LEMMA UserTypes ==
  ASSUME IInv,
         \/ \E s \in ScheduleIds : CreateSchedule(s) \/ SetEnabled(s)
         \/ OtherJobs
         \/ PassTime
  PROVE  TypeOK'
<1>1. TickTypes
  BY DEF CreateSchedule, SetEnabled, OtherJobs, PassTime, tickVars, IInv, TypeOK, TickTypes
<1>2. ASSUME NEW s \in ScheduleIds, CreateSchedule(s) PROVE TypeOK'
  <2>1. \A n \in IF Kind[s] = "once" THEN 0..MaxClock ELSE {NextOccurrence(s, clock)} :
           n \in Nat \cup {Never}
    BY NextAfter, ScheduleAssumption DEF IInv, TypeOK
  <2>2. StoreTypes
    BY <1>2, <2>1 DEF CreateSchedule, IInv, TypeOK, StoreTypes
  <2> QED
    BY <1>1, <1>2, <2>2, TypesTogether DEF CreateSchedule, IInv, TypeOK
<1>3. ASSUME NEW s \in ScheduleIds, SetEnabled(s) PROVE TypeOK'
  BY <1>1, <1>3, SameTypes, TypesTogether DEF SetEnabled, IInv, TypeOK
<1>4. CASE OtherJobs
  BY <1>1, <1>4, SameTypes, TypesTogether DEF OtherJobs, rowVars, IInv, TypeOK
<1>5. CASE PassTime
  BY <1>1, <1>5, SameTypes, TypesTogether DEF PassTime, rowVars, IInv, TypeOK
<1> QED
  BY <1>2, <1>3, <1>4, <1>5

LEMMA StepTypes == IInv /\ [Next]_vars => TypeOK'
<1> SUFFICES ASSUME IInv, [Next]_vars PROVE TypeOK'
  OBVIOUS
<1>1. CASE UNCHANGED vars
  BY <1>1 DEF vars, rowVars, tickVars, IInv, TypeOK
<1>2. ASSUME NEW t \in Tickers, Tick(t) \/ LoseTick(t) PROVE TypeOK'
  BY <1>2, StartTypes, RetryStepTypes, ListTypes, FireTypes, LeavingTypes DEF Tick
<1>3. ASSUME NEW j \in DOMAIN jobs, Work(j) PROVE TypeOK'
  BY <1>3, WorkTypes
<1> QED
  BY <1>1, <1>2, <1>3, UserTypes DEF Next

-----------------------------------------------------------------------------
(* The lists of a tick.                                                    *)

LEMMA StepTicks == IInv /\ [Next]_vars => TickInv'
<1> SUFFICES ASSUME IInv, [Next]_vars PROVE TickInv'
  OBVIOUS
<1>1. ASSUME NEW t \in Tickers, StartTick(t) PROVE TickInv'
  BY <1>1 DEF StartTick, rowVars, IInv, TypeOK, TickInv
<1>2. ASSUME NEW t \in Tickers, ListDue(t) PROVE TickInv'
  <2>1. \A s \in Due(current[t]) : s \in rows /\ nextRun[s] <= current[t]
    BY DEF Due
  <2> QED
    BY <1>2, <2>1 DEF ListDue, rowVars, IInv, TypeOK, TickInv
<1>3. ASSUME NEW t \in Tickers, Leave(t), rows' = rows PROVE TickInv'
  BY <1>3 DEF Leave, IInv, TypeOK, TickInv
<1>4. ASSUME NEW t \in Tickers, Fire(t) PROVE TickInv'
  <2>1. PICK d \in due[t] : \/ Done(t, d) \/ Refuse(t) \/ Deny(t, d)
    BY <1>4 DEF Fire, Pass, Skip, Create
  <2>2. rows' = rows
    BY <1>4 DEF Fire
  <2>3. CASE Done(t, d)
    BY <2>2, <2>3 DEF Done, IInv, TypeOK, TickInv
  <2>4. CASE Deny(t, d)
    <3>1. /\ [d EXCEPT !.denied = TRUE].schedule = d.schedule
          /\ [d EXCEPT !.denied = TRUE].time = d.time
      BY DueFacts
    <3>2. d.schedule \in rows /\ d.time <= current[t] /\ pc[t] = "fire"
      BY DueFacts
    <3>3. due' = [due EXCEPT ![t] = (due[t] \ {d}) \cup {[d EXCEPT !.denied = TRUE]}]
          /\ UNCHANGED <<pc, current>>
      BY <2>4 DEF Deny
    <3>4. ASSUME NEW u \in Tickers, NEW o \in due'[u]
          PROVE  o.schedule \in rows /\ o.time <= current[u] /\ pc[u] = "fire"
      <4>1. CASE o \in due[u]
        BY <4>1 DEF IInv, TickInv
      <4>2. CASE o \notin due[u]
        <5>1. u = t /\ o = [d EXCEPT !.denied = TRUE]
          BY <3>3, <4>2 DEF IInv, TypeOK
        <5> QED
          BY <3>1, <3>2, <5>1
      <4> QED
        BY <4>1, <4>2
    <3> QED
      BY <2>2, <3>3, <3>4 DEF TickInv
  <2> QED
    BY <1>3, <2>1, <2>2, <2>3, <2>4 DEF Refuse
<1>5. CASE /\ UNCHANGED <<pc, current, due>>
           /\ rows \subseteq rows'
  BY <1>5 DEF IInv, TickInv
<1> QED
  BY <1>1, <1>2, <1>3, <1>4, <1>5
     DEF Next, Tick, Retry, EndTick, LoseTick, CreateSchedule, SetEnabled, Work, OtherJobs,
         PassTime, vars, rowVars, tickVars

-----------------------------------------------------------------------------
(* What a step does to the tables.                                         *)

Quiet == UNCHANGED <<history, jobs, nextRun, rows, blocked>>

Occurs(t, d) ==
  /\ Skip(t, d) \/ (~GivenUp(t, d) /\ Create(t, d))
  /\ ~Stale(d)
  /\ UNCHANGED <<rows, blocked>>

Works(j) == Work(j) /\ UNCHANGED <<history, nextRun, rows>>

Creates(s) == CreateSchedule(s) /\ UNCHANGED <<history, jobs, blocked>>

LEMMA Effects ==
  ASSUME [Next]_vars
  PROVE  \/ Quiet
         \/ \E t \in Tickers : \E d \in due[t] : Occurs(t, d)
         \/ \E t \in Tickers : \E r \in retries[t] : Requeue(r.id, t) /\ Requeued(r, t)
         \/ \E j \in DOMAIN jobs : Works(j)
         \/ \E s \in ScheduleIds : Creates(s)
<1>1. ASSUME NEW t \in Tickers, Fire(t)
      PROVE  Quiet \/ \E d \in due[t] : Occurs(t, d)
  <2>1. PICK d \in due[t] :
          \/ Pass(t, d) \/ Refuse(t) \/ Deny(t, d)
          \/ ~Stale(d) /\ (Skip(t, d) \/ (~GivenUp(t, d) /\ Create(t, d)))
    BY <1>1 DEF Fire
  <2>2. UNCHANGED <<rows, blocked>>
    BY <1>1 DEF Fire
  <2>3. CASE Pass(t, d) \/ Refuse(t) \/ Deny(t, d)
    <3>1. Quiet
      BY <2>2, <2>3 DEF Pass, Refuse, Deny, Quiet
    <3> QED
      BY <3>1
  <2>4. CASE ~Stale(d) /\ (Skip(t, d) \/ (~GivenUp(t, d) /\ Create(t, d)))
    <3>1. Occurs(t, d)
      BY <2>2, <2>4 DEF Occurs
    <3> QED
      BY <3>1
  <2> QED
    BY <2>1, <2>3, <2>4
<1>2. ASSUME NEW t \in Tickers, Retry(t)
      PROVE  Quiet \/ \E r \in retries[t] : Requeue(r.id, t) /\ Requeued(r, t)
  BY <1>2 DEF Retry, Requeued, Quiet, rowVars
<1>3. ASSUME NEW t \in Tickers, StartTick(t) \/ ListDue(t) \/ EndTick(t) \/ LoseTick(t)
      PROVE  Quiet
  BY <1>3 DEF StartTick, ListDue, EndTick, LoseTick, Quiet, rowVars
<1>4. ASSUME NEW j \in DOMAIN jobs, Work(j) PROVE Works(j)
  BY <1>4 DEF Work, Works, rowVars
<1>5. ASSUME NEW s \in ScheduleIds, CreateSchedule(s) PROVE Creates(s)
  BY <1>5 DEF CreateSchedule, Creates
<1>6. ASSUME (\E s \in ScheduleIds : SetEnabled(s)) \/ OtherJobs \/ PassTime \/ UNCHANGED vars
      PROVE  Quiet
  BY <1>6 DEF SetEnabled, OtherJobs, PassTime, vars, rowVars, Quiet
<1> QED
  BY <1>1, <1>2, <1>3, <1>4, <1>5, <1>6 DEF Next, Tick

\* An occurrence that is settled is the one its schedule waits for, and the row says so.
LEMMA OccursFacts ==
  ASSUME IInv, NEW t \in Tickers, NEW d \in due[t], Occurs(t, d)
  PROVE  /\ Advance(d, t) /\ nextRun[d.schedule] = d.time /\ d.schedule \in rows
         /\ d.schedule \in ScheduleIds /\ d.time \in Nat
         /\ \E j \in {NoJob, Len(jobs) + 1} :
              /\ Row(d.schedule, d.time, 1, j, t) \in History
              /\ history' = Append(history, Row(d.schedule, d.time, 1, j, t))
              /\ IF j = NoJob THEN jobs' = jobs
                 ELSE /\ ~Active(d.schedule)
                      /\ jobs' = Append(jobs, [schedule |-> d.schedule,
                                               status |-> "queued", finished |-> 0])
<1>1. Advance(d, t) /\ nextRun[d.schedule] = d.time /\ d.schedule \in rows
      /\ d.schedule \in ScheduleIds /\ d.time \in Nat
  BY DueFacts DEF Occurs, Skip, Create, Stale, Current
<1>2. Len(jobs) \in Nat
  BY JobNumbers DEF IInv
<1>3. \A j \in Nat : Row(d.schedule, d.time, 1, j, t) \in History
  BY <1>1, RowType DEF IInv
<1>4. CASE Skip(t, d)
  BY <1>1, <1>3, <1>4 DEF Skip, NoJob
<1>5. CASE ~GivenUp(t, d) /\ Create(t, d)
  <2>1. Len(jobs) + 1 \in Nat /\ Len(jobs) + 1 # NoJob
    BY <1>2 DEF NoJob
  <2>2. ~Active(d.schedule)
    BY <1>5 DEF GivenUp
  <2> QED
    BY <1>1, <1>3, <1>5, <2>1, <2>2 DEF Create
<1> QED
  BY <1>4, <1>5 DEF Occurs

-----------------------------------------------------------------------------
(* Rows and jobs.                                                          *)

\* The overlap guard sees every job of the schedule.
LEMMA NoneOpen ==
  ASSUME IInv, NEW s \in ScheduleIds, ~Active(s)
  PROVE  \A j \in DOMAIN jobs : jobs[j].schedule = s => jobs[j].status \notin Open
<1> SUFFICES ASSUME NEW j \in DOMAIN jobs, jobs[j].schedule = s, jobs[j].status \in Open
             PROVE  FALSE
  OBVIOUS
<1>1. PICK i \in DOMAIN history : history[i].job = j
  BY DEF IInv, StoreInv, JobsRecorded
<1>2. j # NoJob
  BY JobNumbers DEF IInv, NoJob
<1>3. history[i].schedule = s
  BY <1>1, <1>2 DEF IInv, StoreInv, RowsAgree
<1> QED
  BY <1>1, <1>2, <1>3 DEF Active, Triggers

\* A row added for an existing schedule and a job of its own keeps rows and jobs together.
LEMMA RowKeeps ==
  ASSUME IInv, NEW h \in History, history' = Append(history, h), h.schedule \in rows,
         UNCHANGED rows,
         Len(jobs') \in Nat, DOMAIN jobs \subseteq DOMAIN jobs',
         DOMAIN jobs' \subseteq DOMAIN jobs \cup {h.job},
         \A j \in DOMAIN jobs : jobs'[j].schedule = jobs[j].schedule,
         h.job # NoJob => jobs'[h.job].schedule = h.schedule
  PROVE  RowsKnown' /\ RowsAgree' /\ JobsRecorded'
<1>1. /\ Len(history) \in Nat
      /\ DOMAIN history = 1..Len(history) /\ DOMAIN history' = 1..(Len(history) + 1)
      /\ \A i \in DOMAIN history : history'[i] = history[i]
      /\ history'[Len(history) + 1] = h
  BY RowAppended DEF IInv
<1>2. \A i \in DOMAIN history' : i \in DOMAIN history \/ i = Len(history) + 1
  BY <1>1
<1>3. DOMAIN history \subseteq DOMAIN history' /\ Len(history) + 1 \in DOMAIN history'
  BY <1>1
<1>4. RowsKnown'
  BY <1>1, <1>2 DEF IInv, StoreInv, RowsKnown
<1>5. RowsAgree'
  <2>1. ASSUME NEW i \in DOMAIN history', history'[i].job # NoJob
        PROVE  jobs'[history'[i].job].schedule = history'[i].schedule
    <3>1. CASE i \in DOMAIN history
      <4>1. history'[i] = history[i] /\ history[i].job \in DOMAIN jobs
        BY <1>1, <2>1, <3>1, JobNumbers DEF IInv
      <4> QED
        BY <2>1, <3>1, <4>1 DEF IInv, StoreInv, RowsAgree
    <3>2. CASE i = Len(history) + 1
      BY <1>1, <2>1, <3>2
    <3> QED
      BY <1>2, <3>1, <3>2
  <2> QED
    BY <2>1 DEF RowsAgree
<1>6. JobsRecorded'
  <2>1. ASSUME NEW j \in DOMAIN jobs' PROVE \E i \in DOMAIN history' : history'[i].job = j
    <3>1. CASE j \in DOMAIN jobs
      BY <1>1, <1>3, <3>1 DEF IInv, StoreInv, JobsRecorded
    <3>2. CASE j = h.job
      BY <1>1, <1>3, <3>2
    <3> QED
      BY <3>1, <3>2
  <2> QED
    BY <2>1 DEF JobsRecorded
<1> QED
  BY <1>4, <1>5, <1>6

Kept == StoreInv' /\ NeverStuck' /\ OverlapOnlyByResume'

LEMMA QuietKeeps ==
  ASSUME IInv, Quiet PROVE Kept
  BY DEF IInv, Quiet, Kept, StoreInv, RowsKnown, RowsAgree, JobsRecorded, BlockedKnown,
         NeverStuck, OverlapOnlyByResume

\* Settling an occurrence.
LEMMA OccursKeeps ==
  ASSUME IInv, NEW t \in Tickers, NEW d \in due[t], Occurs(t, d)
  PROVE  Kept
<1>1. /\ Advance(d, t) /\ nextRun[d.schedule] = d.time /\ d.schedule \in rows
      /\ d.schedule \in ScheduleIds /\ d.time \in Nat
  BY OccursFacts
<1>2. PICK j \in {NoJob, Len(jobs) + 1} :
        /\ Row(d.schedule, d.time, 1, j, t) \in History
        /\ history' = Append(history, Row(d.schedule, d.time, 1, j, t))
        /\ IF j = NoJob THEN jobs' = jobs
           ELSE /\ ~Active(d.schedule)
                /\ jobs' = Append(jobs, [schedule |-> d.schedule,
                                         status |-> "queued", finished |-> 0])
  BY OccursFacts
<1> DEFINE h == Row(d.schedule, d.time, 1, j, t)
<1>3. h \in History /\ h.schedule = d.schedule /\ h.time = d.time /\ h.job = j
  BY <1>2 DEF Row
<1>4. history' = Append(history, h) /\ UNCHANGED <<rows, blocked>>
  BY <1>2 DEF Occurs
<1> HIDE DEF h
<1>5. /\ Len(jobs) \in Nat /\ DOMAIN jobs = 1..Len(jobs)
      /\ j # NoJob => j = Len(jobs) + 1
  BY <1>2, JobNumbers DEF IInv
<1>6. j # NoJob =>
        /\ ~Active(d.schedule)
        /\ jobs' \in Seq(Jobs) /\ Len(jobs') = Len(jobs) + 1
        /\ \A k \in DOMAIN jobs : jobs'[k] = jobs[k]
        /\ jobs'[j] = [schedule |-> d.schedule, status |-> "queued", finished |-> 0]
  BY <1>1, <1>2, <1>5, JobAppended DEF IInv
<1>7. /\ Len(jobs') \in Nat /\ DOMAIN jobs \subseteq DOMAIN jobs'
      /\ DOMAIN jobs' \subseteq DOMAIN jobs \cup {j}
      /\ \A k \in DOMAIN jobs : jobs'[k] = jobs[k]
      /\ j = NoJob => jobs' = jobs
  BY <1>2, <1>5, <1>6, LenProperties
<1>8. RowsKnown' /\ RowsAgree' /\ JobsRecorded'
  BY <1>1, <1>3, <1>4, <1>6, <1>7, RowKeeps
<1>9. BlockedKnown'
  BY <1>4, <1>6, <1>7 DEF IInv, StoreInv, BlockedKnown
<1>10. OverlapOnlyByResume'
  <2>1. CASE j = NoJob
    BY <1>4, <1>7, <2>1 DEF IInv, OverlapOnlyByResume
  <2>2. CASE j # NoJob
    <3>1. \A k \in DOMAIN jobs : jobs[k].schedule = d.schedule => jobs[k].status \notin Open
      BY <1>1, <1>6, <2>2, NoneOpen
    <3> QED
      BY <1>4, <1>6, <1>7, <2>2, <3>1 DEF IInv, OverlapOnlyByResume
  <2> QED
    BY <2>1, <2>2
<1>11. NeverStuck'
  <2>1. /\ Len(history) \in Nat
        /\ DOMAIN history = 1..Len(history) /\ DOMAIN history' = 1..(Len(history) + 1)
        /\ \A i \in DOMAIN history : history'[i] = history[i]
        /\ history'[Len(history) + 1] = h
    BY <1>3, <1>4, RowAppended DEF IInv
  <2>2. /\ nextRun' \in [ScheduleIds -> Nat \cup {Never}]
        /\ nextRun'[d.schedule] # Never => nextRun'[d.schedule] > d.time
        /\ \A s \in ScheduleIds \ {d.schedule} : nextRun'[s] = nextRun[s]
    BY <1>1, AdvanceFacts
  <2>3. ASSUME NEW i \in DOMAIN history', nextRun'[history'[i].schedule] # Never
        PROVE  history'[i].time < nextRun'[history'[i].schedule]
    <3>1. CASE i = Len(history) + 1
      BY <1>1, <1>3, <2>1, <2>2, <2>3, <3>1 DEF Never
    <3>2. CASE i \in DOMAIN history
      <4>1. /\ history'[i] = history[i] /\ history[i].schedule \in ScheduleIds
            /\ history[i].time \in Nat
        BY <2>1, <3>2, JobNumbers DEF IInv, History
      <4>2. nextRun[history[i].schedule] # Never
              => history[i].time < nextRun[history[i].schedule]
        BY <3>2 DEF IInv, NeverStuck
      <4>3. CASE history[i].schedule = d.schedule
        <5>1. history[i].time < d.time
          BY <1>1, <4>2, <4>3 DEF Never
        <5> QED
          BY <1>1, <2>2, <2>3, <4>1, <4>3, <5>1 DEF Never
      <4>4. CASE history[i].schedule # d.schedule
        BY <2>2, <2>3, <4>1, <4>2, <4>4
      <4> QED
        BY <4>3, <4>4
    <3> QED
      BY <2>1, <3>1, <3>2
  <2> QED
    BY <2>3 DEF NeverStuck
<1> QED
  BY <1>8, <1>9, <1>10, <1>11 DEF Kept, StoreInv

\* Queueing a failed job again.
LEMMA RequeueKeeps ==
  ASSUME IInv, NEW t \in Tickers, NEW r \in retries[t], Requeue(r.id, t), Requeued(r, t)
  PROVE  Kept
<1> DEFINE o == history[r.id]
           h == Row(o.schedule, o.time, o.attempt + 1, o.job, t)
<1>1. /\ r.id \in DOMAIN history /\ o \in History /\ o.job \in DOMAIN jobs
      /\ o.job # NoJob /\ ~Active(o.schedule)
  BY RetryFacts
<1>2. /\ Put(o.job, "queued", 0) /\ history' = Append(history, h)
      /\ UNCHANGED <<rows, nextRun, blocked>>
  BY DEF Requeued
<1>3. /\ o.schedule \in ScheduleIds /\ o.time \in Nat /\ o.attempt + 1 \in Nat \ {0}
      /\ o.job \in Nat
  BY <1>1 DEF History
<1>4. h \in History /\ h.schedule = o.schedule /\ h.job = o.job /\ h.time = o.time
  <2> HIDE DEF o
  <2> QED
    BY <1>3, RowType DEF IInv, Row
<1>5. /\ Len(jobs') = Len(jobs) /\ DOMAIN jobs' = DOMAIN jobs /\ Len(jobs) \in Nat
      /\ \A k \in DOMAIN jobs : jobs'[k].schedule = jobs[k].schedule
      /\ \A k \in DOMAIN jobs \ {o.job} : jobs'[k] = jobs[k]
      /\ jobs'[o.job].status = "queued"
  BY <1>1, <1>2, JobPut, JobNumbers DEF IInv, JobStatus
<1>6. o.schedule \in rows /\ jobs[o.job].schedule = o.schedule
  BY <1>1 DEF IInv, StoreInv, RowsKnown, RowsAgree
<1>7. o.time < nextRun[o.schedule] \/ nextRun[o.schedule] = Never
  BY <1>1 DEF IInv, NeverStuck
<1> HIDE DEF h, o
<1>8. RowsKnown' /\ RowsAgree' /\ JobsRecorded'
  BY <1>1, <1>2, <1>4, <1>5, <1>6, RowKeeps
<1>9. BlockedKnown'
  BY <1>2, <1>5 DEF IInv, StoreInv, BlockedKnown
<1>10. OverlapOnlyByResume'
  <2>1. \A k \in DOMAIN jobs : jobs[k].schedule = o.schedule => jobs[k].status \notin Open
    BY <1>1, <1>3, NoneOpen
  <2> QED
    BY <1>1, <1>2, <1>5, <1>6, <2>1 DEF IInv, OverlapOnlyByResume
<1>11. NeverStuck'
  <2>1. /\ Len(history) \in Nat
        /\ DOMAIN history = 1..Len(history) /\ DOMAIN history' = 1..(Len(history) + 1)
        /\ \A i \in DOMAIN history : history'[i] = history[i]
        /\ history'[Len(history) + 1] = h
    BY <1>2, <1>4, RowAppended DEF IInv
  <2>2. ASSUME NEW i \in DOMAIN history', nextRun'[history'[i].schedule] # Never
        PROVE  history'[i].time < nextRun'[history'[i].schedule]
    <3>1. CASE i = Len(history) + 1
      BY <1>2, <1>4, <1>7, <2>1, <2>2, <3>1
    <3>2. CASE i \in DOMAIN history
      BY <1>2, <2>1, <2>2, <3>2 DEF IInv, NeverStuck
    <3> QED
      BY <2>1, <3>1, <3>2
  <2> QED
    BY <2>2 DEF NeverStuck
<1> QED
  BY <1>8, <1>9, <1>10, <1>11 DEF Kept, StoreInv

\* A job that is under way came there from under way or from "blocked".
LEMMA OpenBefore ==
  \A s \in JobStatus : \A n \in Successors(s) \cap Open : s \in Open \/ s = "blocked"
  BY DEF Successors, JobStatus, Open

LEMMA WorkKeeps ==
  ASSUME IInv, NEW j \in DOMAIN jobs, Works(j)
  PROVE  Kept
<1>1. jobs[j].status \in JobStatus
  BY JobNumbers DEF IInv, Jobs
<1>2. PICK s \in Successors(jobs[j].status), n \in Nat :
        /\ s \in JobStatus /\ Put(j, s, n)
        /\ blocked' = IF s = "blocked" THEN blocked \cup {j} ELSE blocked
  BY WorkFacts DEF Works
<1>3. /\ DOMAIN jobs' = DOMAIN jobs
      /\ \A k \in DOMAIN jobs : jobs'[k].schedule = jobs[k].schedule
      /\ \A k \in DOMAIN jobs \ {j} : jobs'[k] = jobs[k]
      /\ jobs'[j].status = s
  BY <1>2, JobPut DEF IInv
<1>4. UNCHANGED <<history, nextRun, rows>>
  BY DEF Works
<1>5. BlockedKnown'
  BY <1>2, <1>3 DEF IInv, StoreInv, BlockedKnown
<1>6. RowsKnown' /\ RowsAgree' /\ JobsRecorded' /\ NeverStuck'
  <2>1. RowsAgree'
    BY <1>3, <1>4, JobNumbers DEF IInv, StoreInv, RowsAgree
  <2> QED
    BY <1>3, <1>4, <2>1
       DEF IInv, StoreInv, RowsKnown, JobsRecorded, NeverStuck
<1>7. OverlapOnlyByResume'
  <2>1. \A k \in DOMAIN jobs :
          jobs'[k].status \in Open => jobs[k].status \in Open \/ k \in blocked
    BY <1>1, <1>2, <1>3, OpenBefore DEF IInv, StoreInv, BlockedKnown
  <2>2. blocked \subseteq blocked'
    BY <1>2
  <2> QED
    BY <1>3, <2>1, <2>2 DEF IInv, OverlapOnlyByResume
<1> QED
  BY <1>5, <1>6, <1>7 DEF Kept, StoreInv

\* A schedule that is created has no history yet.
LEMMA CreationKeeps ==
  ASSUME IInv, NEW s \in ScheduleIds, Creates(s)
  PROVE  Kept
<1>1. /\ s \notin rows /\ rows' = rows \cup {s} /\ UNCHANGED <<history, jobs, blocked>>
      /\ \A o \in ScheduleIds \ {s} : nextRun'[o] = nextRun[o]
  BY DEF Creates, CreateSchedule, IInv, TypeOK
<1>2. \A i \in DOMAIN history : history[i].schedule \in ScheduleIds \ {s}
  BY <1>1, JobNumbers DEF IInv, StoreInv, RowsKnown, History
<1> QED
  BY <1>1, <1>2 DEF IInv, Kept, StoreInv, RowsKnown, RowsAgree, JobsRecorded, BlockedKnown,
                    NeverStuck, OverlapOnlyByResume

LEMMA InitInv == Init => IInv
<1> SUFFICES ASSUME Init PROVE IInv
  OBVIOUS
<1>1. DOMAIN history = {} /\ DOMAIN jobs = {}
  BY DEF Init
<1> QED
  BY <1>1, InitTypes
     DEF Init, IInv, TickInv, StoreInv, RowsKnown, RowsAgree, JobsRecorded, BlockedKnown,
         NeverStuck, OverlapOnlyByResume

LEMMA StepInv == IInv /\ [Next]_vars => IInv'
<1> SUFFICES ASSUME IInv, [Next]_vars PROVE IInv'
  OBVIOUS
<1>1. Kept
  BY Effects, QuietKeeps, OccursKeeps, RequeueKeeps, WorkKeeps, CreationKeeps
<1> QED
  BY <1>1, StepTypes, StepTicks DEF IInv, Kept

\* The invariant of every behaviour.
THEOREM Invariant == Spec => []IInv
  BY InitInv, StepInv, PTL DEF Spec

\* Every variable of Schedules stays in its domain, and rows refer to jobs that exist.
THEOREM TypeCorrect == Spec => []TypeOK
<1>1. IInv => TypeOK
  BY DEF IInv
<1> QED
  BY <1>1, Invariant, PTL

\* The occurrence a schedule waits for has never been settled (store.py:2238-2243).
THEOREM AlwaysAdvances == Spec => []NeverStuck
<1>1. IInv => NeverStuck
  BY DEF IInv
<1> QED
  BY <1>1, Invariant, PTL

\* Jobs of a schedule overlap only after a resume (store.py:2248-2268, 2437-2454).
THEOREM NoOverlap == Spec => []OverlapOnlyByResume
<1>1. IInv => OverlapOnlyByResume
  BY DEF IInv
<1> QED
  BY <1>1, Invariant, PTL

-----------------------------------------------------------------------------
(* No backlog.                                                             *)

\* The tick at "now" was in time for the occurrence at "time" of a skipping schedule.
InTime(s, time, now) == Policy[s] = "skip" /\ now <= time + 1

\* The occurrence a schedule waits for is from after every tick that settled
\* another, unless that tick was in time.
Ahead ==
  \A i \in DOMAIN history :
    LET h == history[i] IN
    h.attempt = 1 /\ nextRun[h.schedule] # Never =>
      h.at < nextRun[h.schedule] \/ InTime(h.schedule, h.time, h.at)

BacklogInv == Ahead /\ NoBacklog

LEMMA FollowingBeyond ==
  ASSUME NEW s \in ScheduleIds, NEW n \in Nat, NEW m \in Nat, n <= m,
         Following(s, n, m) # Never
  PROVE  m < Following(s, n, m) \/ InTime(s, n, m)
<1>1. CASE Missed(s, n, m) /\ Kind[s] = "interval"
  <2>1. m - n \in Nat /\ Period[s] \in Nat \ {0}
    BY ScheduleAssumption
  <2>2. CeilingOf(Period[s], m - n) \in Nat /\ CeilingOf(Period[s], m - n) > m - n
    BY <2>1, CeilingAfter
  <2> QED
    BY <1>1, <2>1, <2>2 DEF Following
<1>2. CASE (Missed(s, n, m) /\ Kind[s] # "interval") \/ Policy[s] = "run_once"
  <2>1. Following(s, n, m) = NextOccurrence(s, m)
    BY <1>2 DEF Following, Missed
  <2> QED
    BY <2>1, NextAfter
<1>3. CASE ~Missed(s, n, m) /\ Policy[s] # "run_once"
  BY <1>3, ScheduleAssumption DEF Missed, InTime
<1> QED
  BY <1>1, <1>2, <1>3

\* A new row comes after the old ones, for an occurrence they do not reach.
LEMMA BacklogGrows ==
  ASSUME TypeOK, BacklogInv, NEW h \in History, history' = Append(history, h),
         h.attempt = 1 =>
           /\ nextRun[h.schedule] = h.time
           /\ Policy[h.schedule] = "skip" /\ h.job # NoJob => h.at <= h.time + 1
  PROVE  NoBacklog'
<1>1. /\ Len(history) \in Nat
      /\ DOMAIN history = 1..Len(history) /\ DOMAIN history' = 1..(Len(history) + 1)
      /\ \A i \in DOMAIN history : history'[i] = history[i] /\ history[i] \in History
      /\ history'[Len(history) + 1] = h
  BY RowAppended, JobNumbers
<1>2. ASSUME NEW i \in DOMAIN history', history'[i].attempt = 1
      PROVE  /\ Policy[history'[i].schedule] = "skip" /\ history'[i].job # NoJob
                  => history'[i].at <= history'[i].time + 1
             /\ \A k \in DOMAIN history' :
                  history'[k].schedule = history'[i].schedule /\ k < i /\ history'[k].attempt = 1 =>
                    \/ history'[k].at < history'[i].time
                    \/ Policy[history'[i].schedule] = "skip" /\ history'[k].at <= history'[k].time + 1
  <2>1. CASE i \in DOMAIN history
    <3>1. history'[i] = history[i]
      BY <1>1, <2>1
    <3>2. \A k \in DOMAIN history' : k < i => k \in DOMAIN history /\ history'[k] = history[k]
      BY <1>1, <2>1
    <3> QED
      BY <1>2, <2>1, <3>1, <3>2 DEF BacklogInv, NoBacklog, Triggers
  <2>2. CASE i = Len(history) + 1
    <3>1. history'[i] = h
      BY <1>1, <2>2
    <3>2. ASSUME NEW k \in DOMAIN history', history'[k].schedule = h.schedule, k < i,
                 history'[k].attempt = 1
          PROVE  \/ history'[k].at < h.time
                 \/ Policy[h.schedule] = "skip" /\ history'[k].at <= history'[k].time + 1
      <4>1. k \in DOMAIN history /\ history[k].schedule = h.schedule /\ history'[k] = history[k]
        BY <1>1, <2>2, <3>2
      <4>2. nextRun[h.schedule] = h.time /\ h.time \in Nat
        BY <1>2, <3>1 DEF History
      <4> QED
        BY <3>2, <4>1, <4>2 DEF BacklogInv, Ahead, InTime, Never
    <3> QED
      BY <1>2, <3>1, <3>2
  <2> QED
    BY <1>1, <2>1, <2>2
<1> QED
  BY <1>2 DEF NoBacklog, Triggers

\* Settling an occurrence takes the schedule beyond the tick.
LEMMA OccursBacklog ==
  ASSUME IInv, BacklogInv, NEW t \in Tickers, NEW d \in due[t], Occurs(t, d)
  PROVE  BacklogInv'
<1>1. /\ Advance(d, t) /\ nextRun[d.schedule] = d.time
      /\ d.schedule \in ScheduleIds /\ d.time \in Nat
  BY OccursFacts
<1>2. PICK j \in {NoJob, Len(jobs) + 1} :
        /\ Row(d.schedule, d.time, 1, j, t) \in History
        /\ history' = Append(history, Row(d.schedule, d.time, 1, j, t))
  BY OccursFacts
<1> DEFINE h == Row(d.schedule, d.time, 1, j, t)
           s == d.schedule
<1>3. /\ h \in History /\ h.schedule = s /\ h.time = d.time /\ h.job = j
      /\ h.attempt = 1 /\ h.at = current[t] /\ history' = Append(history, h)
  BY <1>2 DEF Row
<1>4. current[t] \in Nat /\ d.time <= current[t]
  BY DEF IInv, TypeOK, TickInv
<1>5. Policy[s] = "skip" /\ j # NoJob => current[t] <= d.time + 1
  <2> SUFFICES ASSUME Policy[s] = "skip", j # NoJob PROVE current[t] <= d.time + 1
    OBVIOUS
  <2>1. CASE ~GivenUp(t, d)
    BY <1>1, <1>4, <2>1 DEF GivenUp, Missed
  <2>2. CASE Skip(t, d)
    <3>1. history' = Append(history, Row(d.schedule, d.time, 1, NoJob, t))
      BY <2>2 DEF Skip
    <3>2. Row(d.schedule, d.time, 1, NoJob, t) \in History
      BY <1>1, RowType DEF IInv, NoJob
    <3>3. history'[Len(history) + 1] = Row(d.schedule, d.time, 1, NoJob, t)
      BY <3>1, <3>2, RowAppended DEF IInv
    <3>4. history'[Len(history) + 1] = h
      BY <1>3, RowAppended DEF IInv
    <3> QED
      BY <1>3, <3>3, <3>4 DEF Row
  <2> QED
    BY <2>1, <2>2 DEF Occurs
<1> HIDE DEF h
<1>6. NoBacklog'
  BY <1>1, <1>3, <1>5, BacklogGrows DEF IInv
<1>7. /\ Len(history) \in Nat
      /\ DOMAIN history = 1..Len(history) /\ DOMAIN history' = 1..(Len(history) + 1)
      /\ \A i \in DOMAIN history : history'[i] = history[i]
      /\ history'[Len(history) + 1] = h
  BY <1>3, RowAppended DEF IInv
<1>8. \A i \in DOMAIN history : history[i] \in History
  BY JobNumbers DEF IInv
<1>9. /\ nextRun' = [nextRun EXCEPT ![s] = Following(s, d.time, current[t])]
      /\ nextRun \in [ScheduleIds -> Nat \cup {Never}]
  BY <1>1 DEF Advance, IInv, TypeOK
<1>10. /\ Following(s, d.time, current[t]) # Never
            => /\ Following(s, d.time, current[t]) > d.time
               /\ current[t] < Following(s, d.time, current[t]) \/ InTime(s, d.time, current[t])
       /\ Following(s, d.time, current[t]) \in Nat \cup {Never}
  BY <1>1, <1>4, FollowingAfter, FollowingBeyond
<1>11. ASSUME NEW i \in DOMAIN history', history'[i].attempt = 1,
              nextRun'[history'[i].schedule] # Never
       PROVE  \/ history'[i].at < nextRun'[history'[i].schedule]
              \/ InTime(history'[i].schedule, history'[i].time, history'[i].at)
  <2>1. CASE i = Len(history) + 1
    BY <1>1, <1>3, <1>7, <1>9, <1>10, <1>11, <2>1
  <2>2. CASE i \in DOMAIN history /\ history[i].schedule # s
    BY <1>1, <1>7, <1>8, <1>9, <1>11, <2>2 DEF BacklogInv, Ahead, History
  <2>3. CASE i \in DOMAIN history /\ history[i].schedule = s
    <3>1. nextRun[s] = d.time /\ nextRun[s] # Never
      BY <1>1 DEF Never
    <3>2. history[i].at < d.time \/ InTime(s, history[i].time, history[i].at)
      BY <1>7, <1>11, <2>3, <3>1 DEF BacklogInv, Ahead
    <3>3. history[i].at \in Nat
      BY <1>8, <2>3 DEF History
    <3> QED
      BY <1>1, <1>7, <1>9, <1>10, <1>11, <2>3, <3>2, <3>3
  <2> QED
    BY <1>7, <2>1, <2>2, <2>3
<1>12. Ahead'
  BY <1>11 DEF Ahead
<1> QED
  BY <1>6, <1>12 DEF BacklogInv

\* A retry is a row of its own, which settles no occurrence.
LEMMA RequeueBacklog ==
  ASSUME IInv, BacklogInv, NEW t \in Tickers, NEW r \in retries[t],
         Requeue(r.id, t), Requeued(r, t)
  PROVE  BacklogInv'
<1>1. PICK h \in History : history' = Append(history, h) /\ h.attempt # 1
  <2>1. r.id \in DOMAIN history
    BY DEF IInv, TypeOK
  <2>2. history[r.id] \in History
    BY <2>1, JobNumbers DEF IInv
  <2> DEFINE o == history[r.id]
             h == Row(o.schedule, o.time, o.attempt + 1, o.job, t)
  <2>3. o.schedule \in ScheduleIds /\ o.time \in Nat /\ o.attempt \in Nat \ {0} /\ o.job \in Nat
    BY <2>2 DEF History
  <2>4. h \in History
    BY <2>3, RowType DEF IInv
  <2>5. h.attempt # 1
    BY <2>3 DEF Row
  <2>6. history' = Append(history, h)
    BY DEF Requeued
  <2> QED
    BY <2>4, <2>5, <2>6
<1>2. NoBacklog'
  BY <1>1, BacklogGrows DEF IInv
<1>3. /\ DOMAIN history = 1..Len(history) /\ DOMAIN history' = 1..(Len(history) + 1)
      /\ \A i \in DOMAIN history : history'[i] = history[i]
      /\ history'[Len(history) + 1] = h /\ Len(history) \in Nat
  BY <1>1, RowAppended DEF IInv
<1>4. nextRun' = nextRun
  BY DEF Requeued
<1>5. Ahead'
  BY <1>1, <1>3, <1>4 DEF BacklogInv, Ahead
<1> QED
  BY <1>2, <1>5 DEF BacklogInv

\* A schedule that is created has no history.
LEMMA CreationBacklog ==
  ASSUME IInv, BacklogInv, NEW s \in ScheduleIds, Creates(s)
  PROVE  BacklogInv'
<1>1. /\ s \notin rows /\ history' = history
      /\ \A o \in ScheduleIds \ {s} : nextRun'[o] = nextRun[o]
  BY DEF Creates, CreateSchedule, IInv, TypeOK
<1>2. \A i \in DOMAIN history : history[i].schedule \in ScheduleIds \ {s}
  BY <1>1, JobNumbers DEF IInv, StoreInv, RowsKnown, History
<1> QED
  BY <1>1, <1>2 DEF BacklogInv, Ahead, NoBacklog, Triggers

\* No tick leaves a backlog behind it, and a skipping schedule runs nothing late
\* (docs/operations.md:495), whatever the kinds, periods and policies.
THEOREM LeavesNoBacklog == Spec => []NoBacklog
<1>1. Init => BacklogInv
  <2> SUFFICES ASSUME Init PROVE BacklogInv
    OBVIOUS
  <2>1. DOMAIN history = {}
    BY DEF Init
  <2> QED
    BY <2>1 DEF BacklogInv, Ahead, NoBacklog
<1>2. IInv /\ BacklogInv /\ [Next]_vars => BacklogInv'
  <2> SUFFICES ASSUME IInv, BacklogInv, [Next]_vars PROVE BacklogInv'
    OBVIOUS
  <2>1. CASE Quiet
    BY <2>1 DEF Quiet, BacklogInv, Ahead, NoBacklog, Triggers
  <2>2. CASE \E j \in DOMAIN jobs : Works(j)
    BY <2>2 DEF Works, BacklogInv, Ahead, NoBacklog, Triggers
  <2> QED
    BY <2>1, <2>2, Effects, OccursBacklog, RequeueBacklog, CreationBacklog
<1>3. BacklogInv => NoBacklog
  BY DEF BacklogInv
<1> QED
  BY <1>1, <1>2, <1>3, Invariant, PTL DEF Spec

-----------------------------------------------------------------------------
(* The implementation of OccurrenceLog.                                    *)

\* A row as the log sees it.
LEMMA OutcomeType ==
  ASSUME NEW h \in History
  PROVE  /\ Outcome(h) \in Log!Entry
         /\ Outcome(h).schedule = h.schedule /\ Outcome(h).time = h.time
         /\ Outcome(h).attempt = h.attempt /\ Outcome(h).job = h.job
  BY DEF Outcome, History, Log!Entry

LEMMA OutcomesType ==
  ASSUME TypeOK
  PROVE  /\ Outcomes \in Seq(Log!Entry) /\ Len(Outcomes) = Len(history)
         /\ DOMAIN Outcomes = DOMAIN history
         /\ \A i \in DOMAIN history : Outcomes[i] = Outcome(history[i])
<1>1. Len(history) \in Nat /\ DOMAIN history = 1..Len(history)
  BY LenProperties DEF TypeOK
<1>2. \A i \in DOMAIN history : Outcome(history[i]) \in Log!Entry
  BY JobNumbers, OutcomeType
<1>3. Outcomes \in [1..Len(history) -> Log!Entry]
  BY <1>1, <1>2 DEF Outcomes
<1>4. Outcomes \in Seq(Log!Entry) /\ Len(Outcomes) = Len(history)
  BY <1>1, <1>3, LenProperties
<1> QED
  BY <1>1, <1>4 DEF Outcomes

\* A row added to the table is an entry added to the log.
LEMMA OutcomesGrow ==
  ASSUME IInv, IInv', NEW h \in History, history' = Append(history, h)
  PROVE  /\ Outcomes' = Append(Outcomes, Outcome(h))
         /\ Len(Outcomes') = Len(Outcomes) + 1
         /\ Outcomes'[Len(Outcomes')] = Outcome(h)
<1>1. /\ Outcomes \in Seq(Log!Entry) /\ Len(Outcomes) = Len(history)
      /\ \A i \in DOMAIN history : Outcomes[i] = Outcome(history[i])
  BY OutcomesType DEF IInv
<1>2. TypeOK'
  BY DEF IInv
<1>3. /\ Outcomes' \in Seq(Log!Entry) /\ Len(Outcomes') = Len(history')
      /\ \A i \in DOMAIN history' : Outcomes'[i] = Outcome(history'[i])
  <2>1. history' \in Seq(History) /\ Len(history') \in Nat
        /\ DOMAIN history' = 1..Len(history')
    BY <1>2, LenProperties DEF TypeOK
  <2>2. \A i \in DOMAIN history' : Outcome(history'[i]) \in Log!Entry
    BY <2>1, OutcomeType, ElementOfSeq
  <2>3. Outcomes' \in [1..Len(history') -> Log!Entry]
    BY <2>1, <2>2 DEF Outcomes, Outcome
  <2>4. Outcomes' \in Seq(Log!Entry) /\ Len(Outcomes') = Len(history')
    BY <2>1, <2>3, LenProperties
  <2> QED
    BY <2>4 DEF Outcomes, Outcome
<1>4. /\ Len(history) \in Nat /\ Len(history') = Len(history) + 1
      /\ DOMAIN history = 1..Len(history) /\ DOMAIN history' = 1..(Len(history) + 1)
      /\ \A i \in DOMAIN history : history'[i] = history[i]
      /\ history'[Len(history) + 1] = h
  BY RowAppended DEF IInv
<1>5. /\ Append(Outcomes, Outcome(h)) \in Seq(Log!Entry)
      /\ Len(Append(Outcomes, Outcome(h))) = Len(Outcomes) + 1
      /\ \A i \in 1..Len(Outcomes) : Append(Outcomes, Outcome(h))[i] = Outcomes[i]
      /\ Append(Outcomes, Outcome(h))[Len(Outcomes) + 1] = Outcome(h)
  BY <1>1, OutcomeType, AppendProperties
<1>6. Outcomes' = Append(Outcomes, Outcome(h))
  <2>1. Len(Outcomes') = Len(Append(Outcomes, Outcome(h)))
    BY <1>1, <1>3, <1>4, <1>5
  <2>2. \A i \in 1..Len(Outcomes') : Outcomes'[i] = Append(Outcomes, Outcome(h))[i]
    <3>1. ASSUME NEW i \in 1..Len(Outcomes')
          PROVE  Outcomes'[i] = Append(Outcomes, Outcome(h))[i]
      <4>1. CASE i = Len(history) + 1
        BY <1>1, <1>3, <1>4, <1>5, <4>1
      <4>2. CASE i \in 1..Len(history)
        BY <1>1, <1>3, <1>4, <1>5, <4>2
      <4>3. i = Len(history) + 1 \/ i \in 1..Len(history)
        <5>1. Len(Outcomes') = Len(history) + 1
          BY <1>3, <1>4
        <5> QED
          BY <1>4, <5>1
      <4> QED
        BY <4>1, <4>2, <4>3
    <3> QED
      BY <3>1
  <2> QED
    BY <1>3, <1>5, <2>1, <2>2, SeqEqual
<1> QED
  BY <1>1, <1>3, <1>4, <1>6

\* An entry that settles an occurrence or retries one is a step of the log.
LEMMA LogStep ==
  ASSUME IInv, IInv', NEW h \in History, history' = Append(history, h),
         Log!Settles(Outcome(h)) \/ Log!Retries(Outcome(h))
  PROVE  Log!Next
  BY OutcomesGrow, OutcomeType DEF Log!Next

\* The step that settles an occurrence gives it a later time than all before it and,
\* if any, a job no row has.
LEMMA OccursLogged ==
  ASSUME IInv, IInv', NEW t \in Tickers, NEW d \in due[t], Occurs(t, d)
  PROVE  Log!Next
<1>1. nextRun[d.schedule] = d.time /\ d.time \in Nat
  BY OccursFacts
<1>2. PICK j \in {NoJob, Len(jobs) + 1} :
        /\ Row(d.schedule, d.time, 1, j, t) \in History
        /\ history' = Append(history, Row(d.schedule, d.time, 1, j, t))
  BY OccursFacts
<1> DEFINE h == Row(d.schedule, d.time, 1, j, t)
<1>3. h \in History /\ h.schedule = d.schedule /\ h.time = d.time /\ h.attempt = 1
      /\ h.job = j
  BY <1>2 DEF Row
<1>4. history' = Append(history, h)
  BY <1>2
<1> HIDE DEF h
<1>5. ASSUME NEW i \in DOMAIN history
      PROVE  /\ history[i].schedule = d.schedule => history[i].time < d.time
             /\ j # NoJob => history[i].job # j
  <2>1. history[i].schedule = d.schedule => history[i].time < d.time
    BY <1>1 DEF IInv, NeverStuck, Never
  <2>2. history[i].job \in 0..Len(jobs) /\ Len(jobs) \in Nat
    BY JobNumbers DEF IInv, TypeOK
  <2> QED
    BY <1>2, <2>1, <2>2
<1>6. Log!Settles(Outcome(h))
  <2>1. \A i \in DOMAIN history : Outcomes[i] = Outcome(history[i])
    BY OutcomesType DEF IInv
  <2>2. \A i \in DOMAIN history :
          /\ Outcomes[i].schedule = history[i].schedule
          /\ Outcomes[i].time = history[i].time /\ Outcomes[i].job = history[i].job
    BY <2>1, JobNumbers, OutcomeType DEF IInv
  <2>3. DOMAIN Outcomes = DOMAIN history
    BY OutcomesType DEF IInv
  <2> QED
    BY <1>3, <1>5, <2>2, <2>3, OutcomeType DEF Log!Settles, Log!Skipped, NoJob
<1> QED
  BY <1>3, <1>4, <1>6, LogStep

\* The step that queues a failed job again adds the attempt after its last one.
LEMMA RequeueLogged ==
  ASSUME IInv, IInv', NEW t \in Tickers, NEW r \in retries[t], Requeue(r.id, t),
         Requeued(r, t)
  PROVE  Log!Next
<1> DEFINE o == history[r.id]
           h == Row(o.schedule, o.time, o.attempt + 1, o.job, t)
<1>1. /\ r.id \in DOMAIN history /\ o \in History /\ o.job # NoJob
      /\ o.attempt <= RetryLimit[o.schedule] /\ ~Newer(r.id)
  BY RetryFacts
<1>2. history' = Append(history, h)
  BY DEF Requeued
<1>3. o.schedule \in ScheduleIds /\ o.time \in Nat /\ o.attempt \in Nat \ {0}
      /\ o.job \in Nat
  BY <1>1 DEF History
<1>4. h \in History /\ h.schedule = o.schedule /\ h.time = o.time /\ h.job = o.job
      /\ h.attempt = o.attempt + 1
  <2> HIDE DEF o
  <2> QED
    BY <1>3, RowType DEF IInv, Row
<1>5. \A i \in DOMAIN history :
        ~(history[i].schedule = o.schedule /\ history[i].time = o.time
          /\ history[i].attempt = o.attempt + 1)
  BY <1>1 DEF Newer, Recorded, Triggers
<1>6. DOMAIN Outcomes = DOMAIN history
      /\ \A i \in DOMAIN history : Outcomes[i] = Outcome(history[i])
  BY OutcomesType DEF IInv
<1>7. Outcomes[r.id] = Outcome(o)
  BY <1>1, <1>6
<1> HIDE DEF h, o
<1>8. Outcome(h) = [Outcome(o) EXCEPT !.attempt = @ + 1]
  BY <1>4 DEF Outcome
<1>9. Outcome(h) \notin {Outcomes[k] : k \in DOMAIN Outcomes}
  <2>1. \A i \in DOMAIN history : history[i] \in History
    BY JobNumbers DEF IInv
  <2>2. ASSUME NEW i \in DOMAIN history PROVE Outcomes[i] # Outcome(h)
    BY <1>4, <1>5, <1>6, <2>1, <2>2, OutcomeType
  <2> QED
    BY <1>6, <2>2
<1>10. Log!Retries(Outcome(h))
  BY <1>1, <1>4, <1>6, <1>7, <1>8, <1>9, OutcomeType DEF Log!Retries, Log!Skipped, NoJob
<1> QED
  BY <1>2, <1>4, <1>10, LogStep

\* Schedules implements OccurrenceLog: whatever ticks, users and losses interleave, an
\* occurrence is settled once and has one job, which is retried one attempt at a time.
THEOREM Implements == Spec => LogSpec
<1>1. Init => Log!Init
  <2> SUFFICES ASSUME Init PROVE Outcomes = <<>>
    BY DEF Log!Init
  <2>1. TypeOK /\ history = <<>>
    BY InitTypes DEF Init
  <2>2. Outcomes \in Seq(Log!Entry) /\ Len(Outcomes) = 0
    BY <2>1, OutcomesType
  <2> QED
    BY <2>2, EmptySeq
<1>2. IInv /\ IInv' /\ [Next]_vars => [Log!Next]_Outcomes
  <2> SUFFICES ASSUME IInv, IInv', [Next]_vars PROVE Log!Next \/ Outcomes' = Outcomes
    OBVIOUS
  <2>1. CASE history' = history
    BY <2>1 DEF Outcomes
  <2>2. CASE \E t \in Tickers : \E d \in due[t] : Occurs(t, d)
    BY <2>2, OccursLogged
  <2>3. CASE \E t \in Tickers : \E r \in retries[t] : Requeue(r.id, t) /\ Requeued(r, t)
    BY <2>3, RequeueLogged
  <2> QED
    BY <2>1, <2>2, <2>3, Effects DEF Quiet, Works, Creates
<1> QED
  BY <1>1, <1>2, Invariant, PTL DEF Spec, LogSpec, Log!Spec
=============================================================================
