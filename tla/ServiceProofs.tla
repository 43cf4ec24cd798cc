---------------------------- MODULE ServiceProofs ----------------------------
(***************************************************************************)
(* Theorems about five services around the queue: the plan of a job, the   *)
(* event stream of a run, the index of a workspace, the upgrade of the     *)
(* database and the limits of a job's family, for any number of steps,     *)
(* clients, events, files, texts, hosts, releases and subtasks, and any    *)
(* faults, edits and crashes.                                              *)
(***************************************************************************)
EXTENDS PlanSteps, RunStream, Knowledge, Migrations, Budgets, SequenceTheorems,
        FiniteSetTheorems, TLAPS

-----------------------------------------------------------------------------
(* The plan of a job.                                                      *)

StepType == [status : StepStatus, result : BOOLEAN]

\* What is true with certainty of a plan: its type, and what a verdict to
\* complete has read, which nothing changes before it is written.
PlanInv ==
  /\ PlanTypeOK
  /\ PlanHolds
  /\ attempt = "complete" => Done(plan)

\* Every row of a plan is a step.
LEMMA RowsAreSteps ==
  ASSUME NEW p \in Seq(StepType)
  PROVE  \A i \in DOMAIN p : p[i] \in StepType
<1>1. DOMAIN p = 1..Len(p) /\ p \in [1..Len(p) -> StepType]
  BY LenProperties
<1> QED
  BY <1>1

\* A plan with other rows for the same steps is a plan.
LEMMA SamePositions ==
  ASSUME NEW p \in Seq(StepType), Len(p) <= MaxSteps, NEW q \in [DOMAIN p -> StepType]
  PROVE  q \in Seq(StepType) /\ Len(q) <= MaxSteps /\ DOMAIN q = DOMAIN p
<1>1. DOMAIN p = 1..Len(p) /\ Len(p) \in Nat
  BY LenProperties
<1>2. q \in [1..Len(p) -> StepType]
  BY <1>1
<1>3. q \in Seq(StepType) /\ Len(q) = Len(p)
  BY <1>1, <1>2, LenProperties
<1> QED
  BY <1>1, <1>2, <1>3

\* A done plan has no step that waits or is under way.
LEMMA DoneFacts ==
  ASSUME NEW p \in Seq(StepType), Done(p)
  PROVE  \A i \in DOMAIN p : p[i].status = "completed" \/ (p[i].status = "failed" /\ p[i].result)
<1>1. \A i \in DOMAIN p : p[i].status \in StepStatus
  BY RowsAreSteps DEF StepType
<1> QED
  BY <1>1 DEF Done, StepStatus

LEMMA PlanWritten ==
  ASSUME PlanInv, NEW n \in 1 .. MaxSteps, NEW replace \in BOOLEAN, WritePlan(n, replace)
  PROVE  PlanInv' /\ StepsStayDone
<1>1. plan' = [i \in 1 .. n |-> NewStep] /\ n \in Nat /\ n <= MaxSteps
  BY PlanAssumption DEF WritePlan
<1>2. NewStep \in StepType /\ NewStep.status = "pending"
  BY DEF NewStep, StepType, StepStatus
<1>3. plan' \in Seq(StepType) /\ Len(plan') = n /\ DOMAIN plan' = 1 .. n
  BY <1>1, <1>2, LenProperties
<1>4. /\ owner = "running" /\ owner' = owner /\ attempt' = "acts" /\ resumed' = resumed
      /\ written' = written + 1 /\ written' \in 0 .. MaxRevisions
  BY PlanAssumption DEF WritePlan, PlanInv, PlanTypeOK
<1>5. PlanTypeOK'
  BY <1>1, <1>3, <1>4 DEF PlanInv, PlanTypeOK, StepType
<1>6. PlanHolds'
  BY <1>1, <1>2, <1>3, <1>4 DEF PlanHolds
<1>7. StepsStayDone
  BY <1>4 DEF StepsStayDone
<1> QED
  BY <1>4, <1>5, <1>6, <1>7 DEF PlanInv

LEMMA StepUpdated ==
  ASSUME PlanInv, NEW position \in 1 .. MaxSteps, NEW to \in StepStatus, NEW result \in BOOLEAN,
         UpdateStep(position, to, result)
  PROVE  PlanInv' /\ StepsStayDone
<1> DEFINE others == IF to = "in_progress" THEN Others(plan, position) ELSE plan
           new == [status |-> to, result |-> result]
<1>1. /\ plan' = [others EXCEPT ![position] = new]
      /\ position \in DOMAIN plan /\ (plan[position].status = "completed" => to = "completed")
      /\ owner = "running" /\ attempt = "acts" /\ UNCHANGED <<owner, attempt, written, resumed>>
  BY DEF UpdateStep, Updatable
<1>a. plan \in Seq(StepType) /\ Len(plan) <= MaxSteps
  BY DEF PlanInv, PlanTypeOK, StepType
<1>2. plan \in Seq(StepType) /\ Len(plan) <= MaxSteps /\ \A i \in DOMAIN plan : plan[i] \in StepType
  BY <1>a, RowsAreSteps
<1>3. new \in StepType /\ new.status = to
  BY DEF StepType
<1>4. /\ others \in [DOMAIN plan -> StepType]
      /\ \A i \in DOMAIN plan : i # position =>
           /\ others[i].status = "completed" <=> plan[i].status = "completed"
           /\ others[i].status = "in_progress" =>
                plan[i].status = "in_progress" /\ to # "in_progress"
  <2>1. CASE to = "in_progress"
    <3>1. others = Others(plan, position)
      BY <2>1
    <3>2. \A i \in DOMAIN plan : plan[i].status = "in_progress" =>
            [plan[i] EXCEPT !.status = "pending"] \in StepType
      BY <1>2 DEF StepType, StepStatus
    <3> QED
      BY <1>2, <3>1, <3>2 DEF Others, StepType
  <2>2. CASE to # "in_progress"
    <3>1. plan \in [DOMAIN plan -> StepType]
      BY <1>2, LenProperties
    <3> QED
      BY <2>2, <3>1
  <2> QED
    BY <2>1, <2>2
<1> HIDE DEF others, new
<1>5. /\ plan' \in [DOMAIN plan -> StepType] /\ plan'[position] = new
      /\ \A i \in DOMAIN plan : i # position => plan'[i] = others[i]
  BY <1>1, <1>3, <1>4
<1>6. plan' \in Seq(StepType) /\ Len(plan') <= MaxSteps /\ DOMAIN plan' = DOMAIN plan
  BY <1>2, <1>5, SamePositions
<1>7. PlanTypeOK'
  BY <1>1, <1>6 DEF PlanInv, PlanTypeOK, StepType
<1>8. \A i, k \in DOMAIN plan' :
        plan'[i].status = "in_progress" /\ plan'[k].status = "in_progress" => i = k
  <2>1. \A i, k \in DOMAIN plan :
          plan[i].status = "in_progress" /\ plan[k].status = "in_progress" => i = k
    BY DEF PlanInv, PlanHolds
  <2> QED
    BY <1>3, <1>4, <1>5, <1>6, <2>1
<1>9. PlanHolds'
  BY <1>1, <1>8 DEF PlanHolds
<1>10. StepsStayDone
  BY <1>1, <1>3, <1>4, <1>5 DEF StepsStayDone
<1> QED
  BY <1>1, <1>7, <1>9, <1>10 DEF PlanInv

LEMMA PlanInterrupted ==
  ASSUME PlanInv, InterruptPlanned
  PROVE  PlanInv' /\ StepsStayDone
<1>1. attempt' = "none" /\ UNCHANGED <<written, resumed>>
  BY DEF InterruptPlanned
<1>2. CASE owner # "running"
  BY <1>1, <1>2 DEF InterruptPlanned, PlanInv, PlanTypeOK, PlanHolds, StepsStayDone
<1>3. CASE owner = "running"
  <2>1. owner' = "interrupted" /\ plan' = Tidied(plan)
    BY <1>3 DEF InterruptPlanned
  <2>a. plan \in Seq(StepType) /\ Len(plan) <= MaxSteps
    BY DEF PlanInv, PlanTypeOK, StepType
  <2>2. plan \in Seq(StepType) /\ Len(plan) <= MaxSteps /\ \A i \in DOMAIN plan : plan[i] \in StepType
    BY <2>a, RowsAreSteps
  <2>3. \A i \in DOMAIN plan : plan[i].status = "in_progress" =>
          /\ [plan[i] EXCEPT !.status = "pending"] \in StepType
          /\ [plan[i] EXCEPT !.status = "pending"].status = "pending"
    BY <2>2 DEF StepType, StepStatus
  <2>4. /\ plan' \in [DOMAIN plan -> StepType]
        /\ \A i \in DOMAIN plan : /\ plan'[i].status # "in_progress"
                                  /\ plan[i].status = "completed" => plan'[i].status = "completed"
    BY <2>1, <2>2, <2>3 DEF Tidied
  <2>5. plan' \in Seq(StepType) /\ Len(plan') <= MaxSteps /\ DOMAIN plan' = DOMAIN plan
    BY <2>2, <2>4, SamePositions
  <2>6. PlanTypeOK'
    BY <1>1, <2>1, <2>5 DEF PlanInv, PlanTypeOK, StepType
  <2>7. PlanHolds'
    BY <2>1, <2>4, <2>5 DEF PlanHolds
  <2> QED
    BY <1>1, <2>4, <2>6, <2>7 DEF PlanInv, StepsStayDone
<1> QED
  BY <1>2, <1>3

\* The steps that leave the rows alone.
LEMMA PlanUntouched ==
  ASSUME PlanInv, UNCHANGED <<plan, written>>,
         ClaimPlanned \/ ReadPlan \/ WriteVerdict \/ CancelPlanned \/ RequeuePlanned
           \/ \E to \in {"blocked", "waiting", "failed"} : LeaveRunning(to)
  PROVE  PlanInv' /\ StepsStayDone
<1>1. plan \in Seq(StepType)
  BY DEF PlanInv, PlanTypeOK, StepType
<1>2. PlanTypeOK'
  BY PlanAssumption DEF PlanInv, PlanTypeOK, ClaimPlanned, ReadPlan, WriteVerdict, CancelPlanned,
     RequeuePlanned, LeaveRunning
<1>3. attempt' = "complete" => Done(plan)
  BY DEF PlanInv, ClaimPlanned, ReadPlan, WriteVerdict, CancelPlanned, RequeuePlanned, LeaveRunning
<1>4. owner' = "interrupted" => owner = "interrupted"
  BY DEF ClaimPlanned, ReadPlan, WriteVerdict, CancelPlanned, RequeuePlanned, LeaveRunning
<1>5. owner' = "completed" => owner = "completed" \/ Done(plan)
  BY DEF PlanInv, ClaimPlanned, ReadPlan, WriteVerdict, CancelPlanned, RequeuePlanned, LeaveRunning
<1>6. PlanHolds'
  BY <1>1, <1>4, <1>5, DoneFacts DEF PlanInv, PlanHolds
<1> QED
  BY <1>2, <1>3, <1>6 DEF PlanInv, StepsStayDone, Done

LEMMA PlanStep == PlanInv /\ [PlanNext]_planVars => PlanInv' /\ (PlanNext => StepsStayDone)
<1> SUFFICES ASSUME PlanInv, [PlanNext]_planVars
             PROVE  PlanInv' /\ (PlanNext => StepsStayDone)
  OBVIOUS
<1>1. CASE \E n \in 1 .. MaxSteps, replace \in BOOLEAN : WritePlan(n, replace)
  BY <1>1, PlanWritten
<1>2. CASE \E position \in 1 .. MaxSteps, to \in StepStatus, result \in BOOLEAN :
             UpdateStep(position, to, result)
  BY <1>2, StepUpdated
<1>3. CASE InterruptPlanned
  BY <1>3, PlanInterrupted
<1>4. CASE \/ ClaimPlanned \/ ReadPlan \/ WriteVerdict \/ CancelPlanned \/ RequeuePlanned
           \/ \E to \in {"blocked", "waiting", "failed"} : LeaveRunning(to)
  <2>1. UNCHANGED <<plan, written>>
    BY <1>4 DEF ClaimPlanned, ReadPlan, WriteVerdict, CancelPlanned, RequeuePlanned, LeaveRunning
  <2> QED
    BY <1>4, <2>1, PlanUntouched
<1>5. CASE UNCHANGED planVars
  BY <1>5 DEF planVars, PlanInv, PlanTypeOK, PlanHolds, Done, StepsStayDone
<1> QED
  BY <1>1, <1>2, <1>3, <1>4, <1>5 DEF PlanNext

\* A plan says truly what is under way and what is done, over any number of
\* plans, updates, interruptions and attempts.
THEOREM PlansAreTrue == PlanSpec => []PlanTypeOK /\ PlanIsTrue
<1>1. PlanInit => PlanInv
  <2> SUFFICES ASSUME PlanInit PROVE PlanInv
    OBVIOUS
  <2>1. plan \in Seq(StepType) /\ Len(plan) = 0 /\ DOMAIN plan = {}
    BY DEF PlanInit
  <2> QED
    BY <2>1, PlanAssumption DEF PlanInit, PlanInv, PlanTypeOK, PlanHolds, StepType
<1>2. PlanInv /\ [PlanNext]_planVars => PlanInv' /\ [PlanHolds' /\ StepsStayDone]_planVars
  BY PlanStep DEF PlanInv
<1>3. PlanInv => PlanTypeOK
  BY DEF PlanInv
<1> QED
  BY <1>1, <1>2, <1>3, PTL DEF PlanSpec, PlanIsTrue

-----------------------------------------------------------------------------
(* The event stream of a run.                                              *)

ReaderType == [phase : {"none", "list", "write", "wait", "closed"},
               index : 0 .. MaxEvents, upto : 0 .. MaxEvents, seen : Nat, own : BOOLEAN]

\* What is true of one client: it has the first events of the table; a reader
\* goes on after the last of them; and whatever was added since the reader
\* took its signal, or the end of the run, has moved the signal on.
ReaderInv(c) ==
  /\ Len(got[c]) <= logged
  /\ \A i \in 1 .. Len(got[c]) : got[c][i] = i
  /\ reader[c].seen <= signals
  /\ reader[c].phase # "none" => reader[c].index = Len(got[c])
  /\ reader[c].phase = "write" => reader[c].index <= reader[c].upto /\ reader[c].upto <= logged
  /\ reader[c].phase = "write" /\ reader[c].upto < logged => reader[c].seen < signals
  /\ reader[c].phase = "wait" /\ ~reader[c].own /\ (reader[c].index < logged \/ runOver)
       => reader[c].seen < signals
  /\ reader[c].phase = "closed" => runOver /\ (reader[c].index < logged => reader[c].seen < signals)

StreamInv == StreamTypeOK /\ \A c \in Clients : ReaderInv(c)

\* The run's own steps: a row is added, or the run ends, with a signal.
LEMMA RunSteps ==
  ASSUME StreamInv, LogEvent \/ EndRun
  PROVE  StreamInv'
<1>1. /\ signals' = signals + 1 /\ signals \in Nat
      /\ logged \in Nat /\ logged' \in 0 .. MaxEvents /\ logged <= logged'
      /\ runOver' \in BOOLEAN /\ ~runOver
      /\ UNCHANGED <<held, reader, got, breaks>>
  <2>1. signals \in Nat /\ logged \in 0 .. MaxEvents /\ MaxEvents \in Nat /\ runOver \in BOOLEAN
    BY StreamAssumption DEF StreamInv, StreamTypeOK
  <2>2. CASE LogEvent
    BY <2>1, <2>2 DEF LogEvent
  <2>3. CASE EndRun
    BY <2>1, <2>3 DEF EndRun
  <2> QED
    BY <2>2, <2>3
<1>2. StreamTypeOK'
  BY <1>1 DEF StreamInv, StreamTypeOK
<1>3. ASSUME NEW c \in Clients PROVE ReaderInv(c)'
  <2>1. /\ Len(got[c]) \in Nat /\ reader[c].index \in Nat /\ reader[c].upto \in Nat
        /\ reader[c].seen \in Nat
    BY <1>3, LenProperties DEF StreamInv, StreamTypeOK
  <2>2. ReaderInv(c)
    BY <1>3 DEF StreamInv
  <2> QED
    BY <1>1, <2>1, <2>2 DEF ReaderInv
<1> QED
  BY <1>2, <1>3 DEF StreamInv

\* After a restart no connection is left.
LEMMA RestartStep ==
  ASSUME StreamInv, Restart
  PROVE  StreamInv'
<1>1. NoReader \in ReaderType
  BY StreamAssumption DEF NoReader, ReaderType
<1>2. /\ held' \in BOOLEAN /\ runOver' \in BOOLEAN
      /\ reader' = [c \in Clients |-> NoReader]
      /\ UNCHANGED <<logged, signals, got, breaks>>
  BY DEF Restart
<1>3. StreamTypeOK'
  BY <1>1, <1>2 DEF StreamInv, StreamTypeOK, ReaderType
<1>4. ASSUME NEW c \in Clients PROVE ReaderInv(c)'
  BY <1>2, <1>4 DEF StreamInv, StreamTypeOK, ReaderInv, NoReader
<1> QED
  BY <1>3, <1>4 DEF StreamInv

\* A step of one client's connection that leaves what it has received alone.
LEMMA ConnectionStep ==
  ASSUME StreamInv, NEW c \in Clients,
         Connect(c) \/ ListRows(c) \/ CheckStatus(c) \/ WakeReader(c) \/ KeepAlive(c) \/ Disconnect(c)
  PROVE  StreamInv'
<1>1. /\ reader[c] \in ReaderType
      /\ signals \in Nat /\ logged \in 0 .. MaxEvents /\ Len(got[c]) \in Nat
      /\ runOver \in BOOLEAN /\ held \in BOOLEAN /\ ReaderInv(c)
  BY LenProperties DEF StreamInv, StreamTypeOK, ReaderType
<1>2. /\ UNCHANGED <<runVars, got>> /\ breaks' \in 0 .. MaxDisconnects
      /\ \A d \in Clients : d # c => reader'[d] = reader[d]
      /\ reader' \in [Clients -> ReaderType]
  <2>1. UNCHANGED <<runVars, got>> /\ breaks' \in 0 .. MaxDisconnects
    BY StreamAssumption DEF StreamInv, StreamTypeOK, Connect, ListRows, CheckStatus, WakeReader,
       KeepAlive, Disconnect
  <2>2. reader' = [reader EXCEPT ![c] = reader'[c]] /\ reader'[c] \in ReaderType
    <3>a. reader \in [Clients -> ReaderType] /\ MaxEvents \in Nat
      BY StreamAssumption DEF StreamInv, StreamTypeOK, ReaderType
    <3>1. CASE Connect(c)
      <4>1. Len(got[c]) \in 0 .. MaxEvents
        BY <1>1, <3>a DEF ReaderInv
      <4>2. (~held) \in BOOLEAN
        OBVIOUS
      <4> QED
        BY <3>1, <3>a, <4>1, <4>2 DEF Connect, ResumeAfterCursor, ReaderType
    <3>2. CASE ListRows(c)
      BY <1>1, <3>2, <3>a DEF ListRows, SignalFirst, AfterRows, ReaderType
    <3>3. CASE CheckStatus(c)
      BY <1>1, <3>3, <3>a DEF CheckStatus, SignalFirst, AfterRows, ReaderType
    <3>4. CASE WakeReader(c) \/ KeepAlive(c)
      <4>1. reader' = [reader EXCEPT ![c] = [reader[c] EXCEPT !.phase = "list"]]
        BY <3>4 DEF WakeReader, KeepAlive
      <4>2. [reader[c] EXCEPT !.phase = "list"] \in ReaderType
        BY <1>1 DEF ReaderType
      <4> QED
        BY <3>a, <4>1, <4>2
    <3>5. CASE Disconnect(c)
      BY <1>1, <3>5, <3>a DEF Disconnect, NoReader, ReaderType
    <3> QED
      BY <3>1, <3>2, <3>3, <3>4, <3>5
  <2>3. reader \in [Clients -> ReaderType]
    BY DEF StreamInv, StreamTypeOK, ReaderType
  <2> QED
    BY <2>1, <2>2, <2>3
<1>3. StreamTypeOK'
  BY <1>2 DEF StreamInv, StreamTypeOK, runVars, ReaderType
<1>4. ReaderInv(c)'
  <2>0. UNCHANGED <<logged, runOver, held, signals, got>> /\ reader \in [Clients -> ReaderType]
    BY <1>2 DEF runVars, StreamInv, StreamTypeOK, ReaderType
  <2>1. CASE Connect(c)
    BY <1>1, <2>0, <2>1 DEF Connect, ResumeAfterCursor, ReaderInv
  <2>2. CASE ListRows(c)
    BY <1>1, <2>0, <2>2 DEF ListRows, SignalFirst, AfterRows, ReaderInv
  <2>3. CASE CheckStatus(c)
    BY <1>1, <2>0, <2>3 DEF CheckStatus, SignalFirst, AfterRows, ReaderInv
  <2>4. CASE WakeReader(c) \/ KeepAlive(c)
    <3>1. reader'[c] = [reader[c] EXCEPT !.phase = "list"] /\ reader[c].phase = "wait"
      BY <2>0, <2>4 DEF WakeReader, KeepAlive
    <3>2. /\ reader'[c].phase = "list" /\ reader'[c].index = reader[c].index
          /\ reader'[c].seen = reader[c].seen
      BY <1>1, <3>1 DEF ReaderType
    <3> QED
      BY <1>1, <2>0, <3>1, <3>2 DEF ReaderInv
  <2>5. CASE Disconnect(c)
    BY <1>1, <2>0, <2>5 DEF Disconnect, NoReader, ReaderInv
  <2> QED
    BY <2>1, <2>2, <2>3, <2>4, <2>5
<1>5. ASSUME NEW d \in Clients, d # c PROVE ReaderInv(d)'
  BY <1>2, <1>5 DEF StreamInv, ReaderInv, runVars
<1> QED
  BY <1>3, <1>4, <1>5 DEF StreamInv

\* A row is written: the client has one event more, the next one.
LEMMA WriteStep ==
  ASSUME StreamInv, NEW c \in Clients, WriteRow(c)
  PROVE  StreamInv'
<1> DEFINE row == reader[c].index + 1
<1>1. /\ got[c] \in Seq(1 .. MaxEvents) /\ Len(got[c]) \in Nat
      /\ reader[c].index = Len(got[c]) /\ reader[c].index \in 0 .. MaxEvents
      /\ reader[c].index < reader[c].upto /\ reader[c].upto \in 0 .. MaxEvents
      /\ reader[c].upto <= logged /\ logged \in 0 .. MaxEvents
      /\ ReaderInv(c) /\ reader[c].phase = "write"
  BY LenProperties DEF StreamInv, StreamTypeOK, WriteRow, ReaderInv
<1>2. row \in 1 .. MaxEvents /\ row <= logged
  BY <1>1, StreamAssumption
<1>3. /\ got' = [got EXCEPT ![c] = Append(got[c], row)]
      /\ reader' = [reader EXCEPT ![c].index = row]
      /\ UNCHANGED <<logged, runOver, held, signals, breaks>>
  BY DEF WriteRow, runVars
<1>4. /\ Append(got[c], row) \in Seq(1 .. MaxEvents)
      /\ Len(Append(got[c], row)) = row
      /\ \A i \in 1 .. Len(got[c]) : Append(got[c], row)[i] = got[c][i]
      /\ Append(got[c], row)[row] = row
  <2> HIDE DEF row
  <2>1. row = Len(got[c]) + 1
    BY <1>1 DEF row
  <2> QED
    BY <1>1, <1>2, <2>1, AppendProperties
<1> HIDE DEF row
<1>5. StreamTypeOK'
  <2>1. reader \in [Clients -> ReaderType] /\ got \in [Clients -> Seq(1 .. MaxEvents)]
    BY DEF StreamInv, StreamTypeOK, ReaderType
  <2>2. reader' \in [Clients -> ReaderType]
    <3>1. reader' = [reader EXCEPT ![c] = [reader[c] EXCEPT !.index = row]]
      BY <1>3
    <3>2. row \in 0 .. MaxEvents /\ reader[c] \in ReaderType
      BY <1>2, <2>1, StreamAssumption
    <3>3. [reader[c] EXCEPT !.index = row] \in ReaderType
      BY <3>2 DEF ReaderType
    <3> QED
      BY <2>1, <3>1, <3>3
  <2>3. got' \in [Clients -> Seq(1 .. MaxEvents)]
    BY <1>3, <1>4, <2>1
  <2> QED
    BY <1>3, <2>2, <2>3 DEF StreamInv, StreamTypeOK, ReaderType
<1>6. ReaderInv(c)'
  <2>1. /\ got'[c] = Append(got[c], row)
        /\ reader'[c] = [reader[c] EXCEPT !.index = row]
    BY <1>3 DEF StreamInv, StreamTypeOK
  <2>2. /\ reader'[c].index = row /\ reader'[c].phase = "write" /\ reader'[c].upto = reader[c].upto
        /\ reader'[c].seen = reader[c].seen /\ reader'[c].own = reader[c].own
    BY <1>1, <2>1 DEF StreamInv, StreamTypeOK
  <2>3. row = Len(got[c]) + 1
    BY <1>1 DEF row
  <2>4. \A i \in 1 .. Len(got'[c]) : got'[c][i] = i
    BY <1>1, <1>4, <2>1, <2>3 DEF ReaderInv
  <2> QED
    BY <1>1, <1>2, <1>3, <1>4, <2>1, <2>2, <2>3, <2>4 DEF ReaderInv
<1>7. ASSUME NEW d \in Clients, d # c PROVE ReaderInv(d)'
  BY <1>3, <1>7 DEF StreamInv, StreamTypeOK, ReaderInv
<1> QED
  BY <1>5, <1>6, <1>7 DEF StreamInv

LEMMA StreamStep == StreamInv /\ [StreamNext]_streamVars => StreamInv'
<1> SUFFICES ASSUME StreamInv, [StreamNext]_streamVars PROVE StreamInv'
  OBVIOUS
<1>1. CASE UNCHANGED streamVars
  BY <1>1 DEF streamVars, StreamInv, StreamTypeOK, ReaderInv
<1> QED
  BY <1>1, RunSteps, RestartStep, ConnectionStep, WriteStep DEF StreamNext, ReaderStep

\* For any number of clients, events and connections: what a client has received
\* is a prefix of the events, none twice; no reader waits for a signal that has
\* been given; and a reader that was closed with events unsent was signalled after
\* it last read the rows, so that one that connects after the end gets them all.
THEOREM StreamsAreTrue == StreamSpec => [](StreamTypeOK /\ StreamIsTrue)
<1>1. StreamInit => StreamInv
  <2> SUFFICES ASSUME StreamInit PROVE StreamInv
    OBVIOUS
  <2>1. \A c \in Clients : got[c] = <<>> /\ reader[c] = NoReader
    BY DEF StreamInit
  <2>2. StreamTypeOK
    <3>1. NoReader \in ReaderType /\ <<>> \in Seq(1 .. MaxEvents)
      BY StreamAssumption DEF NoReader, ReaderType
    <3>2. reader \in [Clients -> ReaderType] /\ got \in [Clients -> Seq(1 .. MaxEvents)]
      BY <3>1 DEF StreamInit
    <3>3. logged \in 0 .. MaxEvents /\ signals \in Nat /\ breaks \in 0 .. MaxDisconnects
      <4>1. logged = 0 /\ signals = 0 /\ breaks = 0
        BY DEF StreamInit
      <4> QED
        BY <4>1, StreamAssumption
    <3>4. runOver \in BOOLEAN /\ held \in BOOLEAN
      BY DEF StreamInit
    <3> QED
      BY <3>2, <3>3, <3>4 DEF StreamTypeOK, ReaderType
  <2>3. ASSUME NEW c \in Clients PROVE ReaderInv(c)
    BY <2>1, <2>3 DEF StreamInit, ReaderInv, NoReader
  <2> QED
    BY <2>2, <2>3 DEF StreamInv
<1>2. StreamInv => StreamIsTrue
  <2> SUFFICES ASSUME StreamInv, NEW c \in Clients
               PROVE  /\ \A i \in DOMAIN got[c] : got[c][i] = i
                      /\ reader[c].phase = "wait" /\ ~reader[c].own
                           /\ (reader[c].index < logged \/ runOver) => Signalled(c)
                      /\ reader[c].phase = "closed" =>
                           runOver /\ (reader[c].index < logged => signals > reader[c].seen)
    BY DEF StreamIsTrue, EventsInOrder, NoLostWakeup, ShortOnlyWhileWriting
  <2>1. DOMAIN got[c] = 1 .. Len(got[c]) /\ ReaderInv(c)
    BY LenProperties DEF StreamInv, StreamTypeOK
  <2>2. signals \in Nat /\ reader[c].seen \in Nat
    BY DEF StreamInv, StreamTypeOK
  <2> QED
    BY <2>1, <2>2 DEF ReaderInv, Signalled
<1>3. StreamInv => StreamTypeOK
  BY DEF StreamInv
<1> QED
  BY <1>1, <1>2, <1>3, StreamStep, PTL DEF StreamSpec

-----------------------------------------------------------------------------
(* The index of a workspace.                                               *)

RowTexts  == Texts \cup {Missing}
ChunkRows == Paths \X Texts \X Nat
HeldType  == [Paths -> SUBSET RowTexts]
TableType == [rows : [Paths -> RowTexts], chunks : SUBSET ChunkRows]
WalkType  == [on : {TRUE}, tables : TableType, seen : SUBSET Paths, held : HeldType, todo : SUBSET Paths]
OpenedType == UNION {[S -> RowTexts] : S \in SUBSET Paths}
SearchType == [on : {TRUE}, hits : SUBSET ChunkRows, opened : OpenedType, results : SUBSET ChunkRows,
               held : HeldType]

\* The chunks of the tables are those of the texts their rows name.
Whole(stored) ==
  \A c : c \in stored.chunks <=>
           \E p \in Paths : stored.rows[p] # Missing /\ c \in Chunks(p, stored.rows[p])

\* What a walk has seen, and what it has found missing, was so during it.
WalkTrue(w) ==
  /\ Whole(w.tables)
  /\ \A p \in Paths :
       /\ Document(p) \in w.held[p]
       /\ p \in w.seen => w.tables.rows[p] \in Texts \cap w.held[p]
       /\ p \notin w.todo \cup w.seen => Missing \in w.held[p]

\* What a search has opened, and what it will return, was so during it.
SearchTrue(x) ==
  /\ \A p \in Paths : Document(p) \in x.held[p]
  /\ \A p \in DOMAIN x.opened : x.opened[p] \in x.held[p]
  /\ \A c \in x.results : c[2] \in x.held[c[1]]

WalkInv   == walk = NoWalk \/ (walk \in WalkType /\ WalkTrue(walk))
SearchInv == search = NoSearch \/ (search \in SearchType /\ SearchTrue(search))

IndexInv ==
  /\ index \in TableType /\ Whole(index)
  /\ WithinQuota(index, {p \in Paths : index.rows[p] # Missing})

KnowledgeInv ==
  /\ files \in [Paths -> FileContents]
  /\ IndexInv /\ WalkInv /\ SearchInv

LEMMA WalkUnderWay ==
  ASSUME WalkInv, walk.on
  PROVE  walk \in WalkType /\ WalkTrue(walk)
BY DEF WalkInv, NoWalk

LEMMA SearchUnderWay ==
  ASSUME SearchInv, search.on
  PROVE  search \in SearchType /\ SearchTrue(search)
BY DEF SearchInv, NoSearch

LEMMA DocumentType == \A p : Document(p) \in RowTexts
BY DEF Document, RowTexts

\* The chunks of a text are rows of the table, each of its own path.
LEMMA ChunkFacts ==
  ASSUME NEW p \in Paths, NEW t \in Texts
  PROVE  Chunks(p, t) \subseteq ChunkRows /\ \A c \in Chunks(p, t) : c[1] = p
BY DEF Chunks, ChunkRows

LEMMA StoredKeepsWhole ==
  ASSUME NEW stored \in TableType, Whole(stored), NEW p \in Paths, NEW t \in Texts
  PROVE  /\ Stored(stored, p, t) \in TableType /\ Whole(Stored(stored, p, t))
         /\ Stored(stored, p, t).rows = [stored.rows EXCEPT ![p] = t]
<1> DEFINE s == Stored(stored, p, t)
<1>1. CASE stored.rows[p] = t
  BY <1>1 DEF Stored, TableType
<1>2. CASE stored.rows[p] # t
  <2>1. s = [rows |-> [stored.rows EXCEPT ![p] = t],
             chunks |-> OfOtherFiles(stored.chunks, p) \cup Chunks(p, t)]
    BY <1>2 DEF Stored
  <2>2. s.rows = [stored.rows EXCEPT ![p] = t] /\ s.chunks = OfOtherFiles(stored.chunks, p) \cup Chunks(p, t)
    BY <2>1
  <2>3. s.rows \in [Paths -> RowTexts] /\ s.rows[p] = t /\ \A q \in Paths \ {p} : s.rows[q] = stored.rows[q]
    BY <2>2 DEF TableType, RowTexts
  <2>4. s.chunks \subseteq ChunkRows
    BY <2>2, ChunkFacts DEF TableType, OfOtherFiles
  <2>5. s \in TableType
    BY <2>1, <2>2, <2>3, <2>4 DEF TableType
  <2>6. t # Missing
    BY KnowledgeAssumption
  <2>7. \A q \in Paths : stored.rows[q] # Missing => stored.rows[q] \in Texts
    BY DEF TableType, RowTexts
  <2>8. ASSUME NEW c PROVE c \in s.chunks <=> \E q \in Paths : s.rows[q] # Missing /\ c \in Chunks(q, s.rows[q])
    <3>1. ASSUME c \in s.chunks
          PROVE  \E q \in Paths : s.rows[q] # Missing /\ c \in Chunks(q, s.rows[q])
      <4>1. CASE c \in Chunks(p, t)
        BY <2>3, <2>6, <4>1
      <4>2. CASE c \in stored.chunks /\ c[1] # p
        <5>1. PICK q \in Paths : stored.rows[q] # Missing /\ c \in Chunks(q, stored.rows[q])
          BY <4>2 DEF Whole
        <5>2. q # p
          BY <2>7, <4>2, <5>1, ChunkFacts
        <5> QED
          BY <2>3, <5>1, <5>2
      <4> QED
        BY <2>2, <3>1, <4>1, <4>2 DEF OfOtherFiles
    <3>2. ASSUME NEW q \in Paths, s.rows[q] # Missing, c \in Chunks(q, s.rows[q])
          PROVE  c \in s.chunks
      <4>1. CASE q = p
        BY <2>2, <2>3, <3>2, <4>1
      <4>2. CASE q # p
        <5>1. stored.rows[q] # Missing /\ c \in Chunks(q, stored.rows[q])
          BY <2>3, <3>2, <4>2
        <5>2. c \in stored.chunks /\ c[1] # p
          BY <2>7, <4>2, <5>1, ChunkFacts DEF Whole
        <5> QED
          BY <2>2, <5>2 DEF OfOtherFiles
      <4> QED
        BY <4>1, <4>2
    <3> QED
      BY <3>1, <3>2
  <2> HIDE DEF s
  <2>9. Whole(s)
    BY <2>8 DEF Whole
  <2> QED
    BY <2>2, <2>5, <2>9 DEF s
<1> QED
  BY <1>1, <1>2

LEMMA CleanedKeepsWhole ==
  ASSUME NEW stored \in TableType, Whole(stored), NEW found \in SUBSET Paths
  PROVE  /\ Cleaned(stored, found) \in TableType /\ Whole(Cleaned(stored, found))
         /\ \A p \in Paths : Cleaned(stored, found).rows[p] = IF p \in found THEN stored.rows[p] ELSE Missing
<1> DEFINE s == Cleaned(stored, found)
<1>1. /\ s.rows = [p \in Paths |-> IF p \in found THEN stored.rows[p] ELSE Missing]
      /\ s.chunks = {c \in stored.chunks : c[1] \in found}
  BY DEF Cleaned
<1>2. s \in TableType
  <2>1. s.rows \in [Paths -> RowTexts]
    BY <1>1 DEF TableType, RowTexts
  <2>2. s.chunks \subseteq ChunkRows
    BY <1>1 DEF TableType
  <2> QED
    BY <2>1, <2>2 DEF Cleaned, TableType
<1>3. \A q \in Paths : stored.rows[q] # Missing => stored.rows[q] \in Texts
  BY DEF TableType, RowTexts
<1>4. ASSUME NEW c PROVE c \in s.chunks <=> \E q \in Paths : s.rows[q] # Missing /\ c \in Chunks(q, s.rows[q])
  <2>1. ASSUME c \in s.chunks
        PROVE  \E q \in Paths : s.rows[q] # Missing /\ c \in Chunks(q, s.rows[q])
    <3>1. c \in stored.chunks /\ c[1] \in found
      BY <1>1, <2>1
    <3>2. PICK q \in Paths : stored.rows[q] # Missing /\ c \in Chunks(q, stored.rows[q])
      BY <3>1 DEF Whole
    <3>3. q \in found
      BY <1>3, <3>1, <3>2, ChunkFacts
    <3> QED
      BY <1>1, <3>2, <3>3
  <2>2. ASSUME NEW q \in Paths, s.rows[q] # Missing, c \in Chunks(q, s.rows[q])
        PROVE  c \in s.chunks
    <3>1. q \in found /\ stored.rows[q] # Missing /\ c \in Chunks(q, stored.rows[q])
      BY <1>1, <2>2
    <3>2. c[1] = q
      BY <1>3, <3>1, ChunkFacts
    <3> QED
      BY <1>1, <3>1, <3>2 DEF Whole
  <2> QED
    BY <2>1, <2>2
<1> HIDE DEF s
<1>5. Whole(s)
  BY <1>4 DEF Whole
<1> QED
  BY <1>1, <1>2, <1>5 DEF s

LEMMA EmptyIndex ==
  /\ NoIndex \in TableType /\ Whole(NoIndex)
  /\ WithinQuota(NoIndex, {p \in Paths : NoIndex.rows[p] # Missing})
<1>1. NoIndex.rows = [p \in Paths |-> Missing] /\ NoIndex.chunks = {}
  BY DEF NoIndex
<1>2. NoIndex \in TableType
  BY DEF NoIndex, TableType, RowTexts
<1>3. Whole(NoIndex)
  BY <1>1 DEF Whole
<1>4. {p \in Paths : NoIndex.rows[p] # Missing} = {}
  BY <1>1
<1> QED
  BY <1>1, <1>2, <1>3, <1>4, KnowledgeAssumption, FS_EmptySet DEF WithinQuota

\* A user edits a file: what it has become is held by the walk and the search.
LEMMA EditStep ==
  ASSUME KnowledgeInv, NEW p \in Paths, NEW content \in FileContents, Edit(p, content)
  PROVE  KnowledgeInv'
<1>1. /\ files' = [files EXCEPT ![p] = content] /\ index' = index
      /\ walk' = StillHeld(walk, p) /\ search' = StillHeld(search, p)
  BY DEF Edit
<1>2. files' \in [Paths -> FileContents]
  BY <1>1 DEF KnowledgeInv
<1>3. \A q \in Paths \ {p} : Document(q)' = Document(q)
  BY <1>1 DEF KnowledgeInv, Document
<1>4. Document(p)' \in RowTexts
  BY DEF Document, RowTexts
<1>5. ASSUME NEW kept \in HeldType, NEW now, now = [kept EXCEPT ![p] = @ \cup {Document(p)'}]
      PROVE  /\ now \in HeldType /\ Document(p)' \in now[p]
             /\ \A q \in Paths : kept[q] \subseteq now[q]
             /\ \A q \in Paths \ {p} : now[q] = kept[q]
  BY <1>4, <1>5 DEF HeldType
<1>6. WalkInv'
  <2>1. CASE walk = NoWalk
    BY <1>1, <2>1 DEF StillHeld, NoWalk, WalkInv
  <2>2. CASE walk # NoWalk
    <3>1. walk \in WalkType /\ WalkTrue(walk) /\ walk.on
      BY <2>2 DEF KnowledgeInv, WalkInv, WalkType
    <3>2. walk' = [walk EXCEPT !.held = [walk.held EXCEPT ![p] = @ \cup {Document(p)'}]]
      BY <1>1, <3>1 DEF StillHeld
    <3>3. walk.held \in HeldType
      BY <3>1 DEF WalkType
    <3> DEFINE now == [walk.held EXCEPT ![p] = @ \cup {Document(p)'}]
    <3>4. /\ now \in HeldType /\ Document(p)' \in now[p]
          /\ \A q \in Paths : walk.held[q] \subseteq now[q]
          /\ \A q \in Paths \ {p} : now[q] = walk.held[q]
      BY <1>5, <3>3
    <3> HIDE DEF now
    <3>5. /\ walk' \in WalkType /\ walk'.tables = walk.tables /\ walk'.seen = walk.seen
          /\ walk'.todo = walk.todo /\ walk'.held = now
      BY <3>1, <3>2, <3>4 DEF WalkType, now
    <3>6. \A q \in Paths : Document(q)' \in now[q]
      BY <1>3, <3>1, <3>4 DEF WalkTrue
    <3>7. WalkTrue(walk)'
      BY <3>1, <3>4, <3>5, <3>6 DEF WalkTrue, Whole
    <3> QED
      BY <3>5, <3>7 DEF WalkInv
  <2> QED
    BY <2>1, <2>2
<1>7. SearchInv'
  <2>1. CASE search = NoSearch
    BY <1>1, <2>1 DEF StillHeld, NoSearch, SearchInv
  <2>2. CASE search # NoSearch
    <3>1. search \in SearchType /\ SearchTrue(search) /\ search.on
      BY <2>2 DEF KnowledgeInv, SearchInv, SearchType
    <3>2. search' = [search EXCEPT !.held = [search.held EXCEPT ![p] = @ \cup {Document(p)'}]]
      BY <1>1, <3>1 DEF StillHeld
    <3>3. search.held \in HeldType
      BY <3>1 DEF SearchType
    <3> DEFINE now == [search.held EXCEPT ![p] = @ \cup {Document(p)'}]
    <3>4. /\ now \in HeldType /\ Document(p)' \in now[p]
          /\ \A q \in Paths : search.held[q] \subseteq now[q]
          /\ \A q \in Paths \ {p} : now[q] = search.held[q]
      BY <1>5, <3>3
    <3> HIDE DEF now
    <3>5. /\ search' \in SearchType /\ search'.opened = search.opened
          /\ search'.results = search.results /\ search'.held = now
      BY <3>1, <3>2, <3>4 DEF SearchType, now
    <3>6. \A q \in Paths : Document(q)' \in now[q]
      BY <1>3, <3>1, <3>4 DEF SearchTrue
    <3>7. DOMAIN search.opened \subseteq Paths /\ \A c \in search.results : c[1] \in Paths
      BY <3>1 DEF SearchType, OpenedType, ChunkRows
    <3>8. SearchTrue(search)'
      BY <3>1, <3>4, <3>5, <3>6, <3>7 DEF SearchTrue
    <3> QED
      BY <3>5, <3>8 DEF SearchInv
  <2> QED
    BY <2>1, <2>2
<1>8. IndexInv'
  BY <1>1 DEF KnowledgeInv, IndexInv, Whole, WithinQuota
<1> QED
  BY <1>2, <1>6, <1>7, <1>8 DEF KnowledgeInv

LEMMA HeldFirst == Held \in HeldType /\ \A p \in Paths : Held[p] = {Document(p)}
BY DocumentType DEF Held, HeldType

\* What depends on the files and on the index alone stays with them.
LEMMA KnowledgeRest ==
  ASSUME KnowledgeInv, files' = files
  PROVE  /\ files' \in [Paths -> FileContents]
         /\ \A p : Document(p)' = Document(p)
         /\ index' = index => IndexInv'
         /\ walk' = walk => WalkInv'
         /\ search' = search => SearchInv'
BY DEF KnowledgeInv, IndexInv, WalkInv, SearchInv, WalkTrue, SearchTrue, Whole, WithinQuota, Document

\* The walk: it begins at the committed tables, takes a file up at a time and
\* commits or leaves no trace.
LEMMA WalkStep ==
  ASSUME KnowledgeInv, BeginWalk \/ \E p \in Paths : Visit(p)
  PROVE  KnowledgeInv'
<1>1. UNCHANGED <<files, index, search>>
  BY DEF BeginWalk, Visit
<1>2. \A p : Document(p)' = Document(p)
  BY <1>1, KnowledgeRest
<1>3. CASE BeginWalk
  <2>1. walk' = [on |-> TRUE, tables |-> index, seen |-> {}, held |-> Held, todo |-> Paths]
    BY <1>3 DEF BeginWalk
  <2>2. walk' \in WalkType
    BY <2>1, HeldFirst DEF WalkType, KnowledgeInv, IndexInv
  <2>3. walk'.tables = index /\ walk'.seen = {} /\ walk'.held = Held /\ walk'.todo = Paths
    BY <2>1
  <2>4. WalkTrue(walk)'
    BY <1>2, <2>3, HeldFirst DEF WalkTrue, Whole, KnowledgeInv, IndexInv
  <2> QED
    BY <1>1, <2>2, <2>4, KnowledgeRest DEF KnowledgeInv, WalkInv
<1>4. ASSUME NEW p \in Paths, Visit(p) PROVE KnowledgeInv'
  <2>1. walk \in WalkType /\ WalkTrue(walk) /\ p \in walk.todo
    BY <1>4, WalkUnderWay DEF Visit, KnowledgeInv
  <2> DEFINE rest == [walk EXCEPT !.todo = @ \ {p}]
             text == Document(p)
  <2>2. CASE text = Missing
    <3>1. walk' = rest
      BY <1>4, <2>2 DEF Visit
    <3>2. /\ walk' \in WalkType /\ walk'.tables = walk.tables /\ walk'.seen = walk.seen
          /\ walk'.held = walk.held /\ walk'.todo = walk.todo \ {p}
      BY <2>1, <3>1 DEF WalkType
    <3>3. WalkTrue(walk)'
      BY <1>2, <2>1, <2>2, <3>2 DEF WalkTrue, Whole
    <3> QED
      BY <1>1, <3>2, <3>3, KnowledgeRest DEF KnowledgeInv, WalkInv
  <2>3. CASE text # Missing
    <3>1. text \in Texts /\ text \in walk.held[p]
      BY <2>1, <2>3 DEF Document, WalkTrue
    <3>2. walk' = [rest EXCEPT !.seen = @ \cup {p}, !.tables = Stored(@, p, text)]
      BY <1>4, <2>3 DEF Visit
    <3>3. walk.tables \in TableType /\ Whole(walk.tables)
      BY <2>1 DEF WalkType, WalkTrue
    <3>4. /\ Stored(walk.tables, p, text) \in TableType /\ Whole(Stored(walk.tables, p, text))
          /\ Stored(walk.tables, p, text).rows = [walk.tables.rows EXCEPT ![p] = text]
      BY <3>1, <3>3, StoredKeepsWhole
    <3> HIDE DEF text
    <3>5. /\ walk' \in WalkType /\ walk'.tables = Stored(walk.tables, p, text)
          /\ walk'.seen = walk.seen \cup {p} /\ walk'.held = walk.held
          /\ walk'.todo = walk.todo \ {p}
      BY <2>1, <3>2, <3>4 DEF WalkType
    <3>6. /\ walk'.tables.rows[p] = text
          /\ \A q \in Paths \ {p} : walk'.tables.rows[q] = walk.tables.rows[q]
      BY <3>3, <3>4, <3>5 DEF TableType
    <3>7. Whole(walk'.tables)
      BY <3>4, <3>5
    <3>8. WalkTrue(walk)'
      BY <1>2, <2>1, <3>1, <3>5, <3>6, <3>7 DEF WalkTrue, Whole
    <3> QED
      BY <1>1, <3>5, <3>8, KnowledgeRest DEF KnowledgeInv, WalkInv
  <2> QED
    BY <2>2, <2>3
<1> QED
  BY <1>3, <1>4

LEMMA IndexStep ==
  ASSUME KnowledgeInv, CommitIndex \/ UndoIndex \/ ClearKnowledge
  PROVE  /\ KnowledgeInv'
         /\ walk.on /\ index' # index => \A p \in Paths : index'.rows[p] \in walk.held[p]
<1>1. UNCHANGED <<files, search>> /\ (walk' = NoWalk \/ walk' = walk)
  BY DEF CommitIndex, UndoIndex, ClearKnowledge
<1>2. WalkInv' /\ SearchInv' /\ files' \in [Paths -> FileContents]
  BY <1>1, KnowledgeRest DEF WalkInv
<1>3. CASE CommitIndex
  <2>1. /\ walk \in WalkType /\ WalkTrue(walk) /\ walk.todo = {}
        /\ index' = Cleaned(walk.tables, walk.seen) /\ WithinQuota(index', walk.seen)
    BY <1>3, WalkUnderWay DEF CommitIndex, KnowledgeInv
  <2>2. walk.tables \in TableType /\ Whole(walk.tables) /\ walk.seen \in SUBSET Paths
    BY <2>1 DEF WalkType, WalkTrue
  <2>3. /\ index' \in TableType /\ Whole(index')
        /\ \A p \in Paths : index'.rows[p] = IF p \in walk.seen THEN walk.tables.rows[p] ELSE Missing
    BY <2>1, <2>2, CleanedKeepsWhole
  <2>4. {p \in Paths : index'.rows[p] # Missing} = walk.seen
    BY <2>1, <2>2, <2>3, KnowledgeAssumption DEF WalkTrue
  <2>5. IndexInv'
    BY <2>1, <2>3, <2>4 DEF IndexInv, Whole, WithinQuota
  <2>6. \A p \in Paths : index'.rows[p] \in walk.held[p]
    BY <2>1, <2>3 DEF WalkTrue
  <2> QED
    BY <1>2, <2>5, <2>6 DEF KnowledgeInv
<1>4. CASE UndoIndex
  BY <1>2, <1>4, KnowledgeRest DEF UndoIndex, KnowledgeInv
<1>5. CASE ClearKnowledge
  <2>1. index' = NoIndex /\ ~walk.on
    BY <1>5 DEF ClearKnowledge
  <2>2. IndexInv'
    BY <2>1, EmptyIndex DEF IndexInv, Whole, WithinQuota
  <2> QED
    BY <1>2, <2>1, <2>2 DEF KnowledgeInv
<1> QED
  BY <1>3, <1>4, <1>5

LEMMA SearchStep ==
  ASSUME KnowledgeInv,
         \/ EndSearch
         \/ \E hits \in SUBSET index.chunks : BeginSearch(hits)
         \/ search.on /\ \E c \in search.hits : ConsiderRow(c)
  PROVE  KnowledgeInv'
<1>1. UNCHANGED <<files, index, walk>>
  BY DEF EndSearch, BeginSearch, ConsiderRow
<1>2. \A p : Document(p)' = Document(p)
  BY <1>1, KnowledgeRest
<1>3. SUFFICES SearchInv'
  BY <1>1, KnowledgeRest DEF KnowledgeInv
<1>4. CASE EndSearch
  BY <1>4 DEF EndSearch, SearchInv
<1>5. ASSUME NEW hits \in SUBSET index.chunks, BeginSearch(hits) PROVE SearchInv'
  <2>1. search' = [on |-> TRUE, hits |-> hits, opened |-> [p \in {} |-> Missing],
                   results |-> {}, held |-> Held]
    BY <1>5 DEF BeginSearch
  <2>2. [p \in {} |-> Missing] \in OpenedType
    <3>1. [p \in {} |-> Missing] \in [{} -> RowTexts] /\ {} \in SUBSET Paths
      BY DEF RowTexts
    <3> QED
      BY <3>1 DEF OpenedType
  <2>3. hits \subseteq ChunkRows
    BY <1>5 DEF KnowledgeInv, IndexInv, TableType
  <2>4. search' \in SearchType
    BY <2>1, <2>2, <2>3, HeldFirst DEF SearchType
  <2>5. SearchTrue(search)'
    BY <1>2, <2>1, HeldFirst DEF SearchTrue
  <2> QED
    BY <2>4, <2>5 DEF SearchInv
<1>6. ASSUME search.on, NEW c \in search.hits, ConsiderRow(c) PROVE SearchInv'
  <2>1. search \in SearchType /\ SearchTrue(search)
    BY <1>6, SearchUnderWay DEF KnowledgeInv
  <2>2. c \in ChunkRows /\ c[1] \in Paths /\ c[2] \in Texts
    BY <1>6, <2>1 DEF SearchType, ChunkRows
  <2> DEFINE opened == IF c[1] \in DOMAIN search.opened THEN search.opened
                       ELSE [p \in DOMAIN search.opened \cup {c[1]} |->
                               IF p = c[1] THEN Document(p) ELSE search.opened[p]]
             results == IF opened[c[1]] = c[2] THEN search.results \cup {c} ELSE search.results
  <2>3. search' = [search EXCEPT !.hits = @ \ {c}, !.opened = opened, !.results = results]
    BY <1>6 DEF ConsiderRow
  <2>4. /\ opened \in OpenedType /\ c[1] \in DOMAIN opened
        /\ \A p \in DOMAIN opened : opened[p] \in search.held[p]
    <3>1. CASE c[1] \in DOMAIN search.opened
      BY <2>1, <3>1 DEF SearchType, SearchTrue
    <3>2. CASE c[1] \notin DOMAIN search.opened
      <4>1. PICK S \in SUBSET Paths : search.opened \in [S -> RowTexts]
        BY <2>1 DEF SearchType, OpenedType
      <4>2. S \cup {c[1]} \in SUBSET Paths
        BY <2>2, <4>1
      <4>3. opened \in [S \cup {c[1]} -> RowTexts]
        BY <3>2, <4>1, DocumentType
      <4>4. opened \in OpenedType
        BY <4>2, <4>3 DEF OpenedType
      <4>5. \A p \in DOMAIN opened : opened[p] \in search.held[p]
        BY <2>1, <2>2, <3>2, <4>1 DEF SearchTrue
      <4> QED
        BY <3>2, <4>4, <4>5
    <3> QED
      BY <3>1, <3>2
  <2> HIDE DEF opened
  <2>5. results \subseteq ChunkRows /\ \A r \in results : r[2] \in search.held[r[1]]
    BY <2>1, <2>2, <2>4 DEF SearchType, SearchTrue
  <2> HIDE DEF results
  <2>6. /\ search' \in SearchType /\ search'.opened = opened /\ search'.results = results
        /\ search'.held = search.held
    BY <2>1, <2>3, <2>4, <2>5 DEF SearchType
  <2>7. SearchTrue(search)'
    BY <1>2, <2>1, <2>4, <2>5, <2>6 DEF SearchTrue
  <2> QED
    BY <2>6, <2>7 DEF SearchInv
<1> QED
  BY <1>4, <1>5, <1>6

LEMMA KnowledgeStep ==
  ASSUME KnowledgeInv, [KnowledgeNext]_knowledgeVars
  PROVE  /\ KnowledgeInv'
         /\ walk.on /\ ~walk'.on /\ index' # index => \A p \in Paths : index'.rows[p] \in walk.held[p]
<1>1. CASE \E p \in Paths, content \in FileContents : Edit(p, content)
  BY <1>1, EditStep DEF Edit
<1>2. CASE BeginWalk \/ \E p \in Paths : Visit(p)
  BY <1>2, WalkStep DEF BeginWalk, Visit
<1>3. CASE CommitIndex \/ UndoIndex \/ ClearKnowledge
  BY <1>3, IndexStep
<1>4. CASE \/ EndSearch
           \/ \E hits \in SUBSET index.chunks : BeginSearch(hits)
           \/ search.on /\ \E c \in search.hits : ConsiderRow(c)
  <2>1. index' = index
    BY <1>4 DEF EndSearch, BeginSearch, ConsiderRow
  <2> QED
    BY <1>4, <2>1, SearchStep
<1>5. CASE UNCHANGED knowledgeVars
  BY <1>5, KnowledgeRest DEF knowledgeVars, KnowledgeInv
<1> QED
  BY <1>1, <1>2, <1>3, <1>4, <1>5 DEF KnowledgeNext

\* What no other fact rests on: bounds, and that no row is considered twice.
Apart ==
  /\ edits \in 0 .. MaxEdits
  /\ walk.on => walk.todo \cap walk.seen = {}
  /\ search.on => search.hits \cap search.results = {}

LEMMA ApartStep ==
  ASSUME Apart, walk = NoWalk \/ DOMAIN walk = {"on", "tables", "seen", "held", "todo"},
         search = NoSearch \/ DOMAIN search = {"on", "hits", "opened", "results", "held"},
         [KnowledgeNext]_knowledgeVars
  PROVE  Apart'
<1> MaxEdits \in Nat
  BY KnowledgeAssumption
<1>1. CASE UNCHANGED knowledgeVars
  BY <1>1 DEF knowledgeVars, Apart
<1>2. ASSUME NEW p \in Paths, NEW content \in FileContents, Edit(p, content) PROVE Apart'
  <2>1. edits' \in 0 .. MaxEdits
    BY <1>2 DEF Edit, Apart
  <2>2. walk'.on => walk'.todo \cap walk'.seen = {}
    BY <1>2 DEF Edit, StillHeld, Apart
  <2>3. search'.on => search'.hits \cap search'.results = {}
    BY <1>2 DEF Edit, StillHeld, Apart
  <2> QED
    BY <2>1, <2>2, <2>3 DEF Apart
<1>3. ASSUME NEW p \in Paths, Visit(p) PROVE Apart'
  <2>1. walk'.on => walk'.todo \cap walk'.seen = {}
    <3>1. CASE Document(p) = Missing
      BY <1>3, <3>1 DEF Visit, Apart
    <3>2. CASE Document(p) # Missing
      BY <1>3, <3>2 DEF Visit, Apart, NoWalk
    <3> QED
      BY <3>1, <3>2
  <2> QED
    BY <1>3, <2>1 DEF Visit, Apart
<1>4. CASE BeginWalk \/ CommitIndex \/ UndoIndex \/ ClearKnowledge
  <2>1. walk'.on => walk'.todo \cap walk'.seen = {}
    BY <1>4 DEF BeginWalk, CommitIndex, UndoIndex, ClearKnowledge, NoWalk, Apart
  <2> QED
    BY <1>4, <2>1 DEF BeginWalk, CommitIndex, UndoIndex, ClearKnowledge, Apart
<1>5. ASSUME NEW hits \in SUBSET index.chunks, BeginSearch(hits) PROVE Apart'
  BY <1>5 DEF BeginSearch, Apart
<1>6. ASSUME search.on, NEW c \in search.hits, ConsiderRow(c) PROVE Apart'
  <2>1. /\ search'.hits = search.hits \ {c}
        /\ search'.results \subseteq search.results \cup {c}
    BY <1>6 DEF ConsiderRow, NoSearch
  <2> QED
    BY <1>6, <2>1 DEF ConsiderRow, Apart
<1>7. CASE EndSearch
  BY <1>7 DEF EndSearch, NoSearch, Apart
<1> QED
  BY <1>1, <1>2, <1>3, <1>4, <1>5, <1>6, <1>7 DEF KnowledgeNext

\* The index is whole whatever walk fails, fresh when it commits, and never
\* quoted once stale.
THEOREM IndexesAreTrue == KnowledgeSpec => []KnowledgeTypeOK /\ IndexIsTrue
<1>1. KnowledgeInit => KnowledgeInv
  BY EmptyIndex DEF KnowledgeInit, KnowledgeInv, IndexInv, WalkInv, SearchInv
<1>2. KnowledgeInv => IndexIsWhole /\ NothingStaleServed
  <2>1. ASSUME KnowledgeInv PROVE IndexIsWhole
    BY <2>1 DEF KnowledgeInv, IndexInv, Whole, IndexIsWhole
  <2>2. ASSUME KnowledgeInv PROVE NothingStaleServed
    BY <2>2, SearchUnderWay DEF KnowledgeInv, NothingStaleServed, SearchTrue
  <2> QED
    BY <2>1, <2>2
<1>3. KnowledgeInv /\ [KnowledgeNext]_knowledgeVars =>
        /\ KnowledgeInv'
        /\ [walk.on /\ ~walk'.on /\ index' # index =>
              \A p \in Paths : index'.rows[p] \in walk.held[p]]_knowledgeVars
  BY KnowledgeStep
<1>4. KnowledgeInit => Apart
  BY KnowledgeAssumption DEF KnowledgeInit, Apart, NoWalk, NoSearch
<1>5. KnowledgeInv /\ Apart /\ [KnowledgeNext]_knowledgeVars => Apart'
  <2>1. KnowledgeInv => walk = NoWalk \/ DOMAIN walk = {"on", "tables", "seen", "held", "todo"}
    BY DEF KnowledgeInv, WalkInv, WalkType
  <2>2. KnowledgeInv => search = NoSearch \/ DOMAIN search = {"on", "hits", "opened", "results", "held"}
    BY DEF KnowledgeInv, SearchInv, SearchType
  <2> QED
    BY <2>1, <2>2, ApartStep
<1>6. KnowledgeInv /\ Apart => KnowledgeTypeOK
  <2> SUFFICES ASSUME KnowledgeInv, Apart PROVE KnowledgeTypeOK
    OBVIOUS
  <2>1. walk.on => walk.tables.rows \in [Paths -> RowTexts]
    BY WalkUnderWay DEF KnowledgeInv, WalkType, TableType
  <2> QED
    BY <2>1 DEF KnowledgeInv, IndexInv, TableType, ChunkRows, RowTexts, Apart, KnowledgeTypeOK
<1> QED
  BY <1>1, <1>2, <1>3, <1>4, <1>5, <1>6, PTL DEF KnowledgeSpec, IndexIsTrue, IndexIsFresh

-----------------------------------------------------------------------------
(* The inductive invariant.                                                *)

Upgrading == {"copying", "preparing", "applying"}

\* Whoever reads the version and upgrades holds the migration lock, so that
\* there is one at most and what it has read stays true until it writes.
Locked ==
  \A h \in Hosts : pc[h] \in {"reading"} \cup Upgrading => migrationLock = h

SeenIsTrue ==
  \A h \in Hosts :
    /\ pc[h] \in {"copying", "preparing"} =>
         seen[h].version = version /\ seen[h].tables = tables
    /\ pc[h] = "applying" => tables

EmptyFirst == ~tables => version = 0

UpgradeInv ==
  /\ MigrationsTypeOK /\ Locked /\ SeenIsTrue /\ EmptyFirst
  /\ VersionIsTrue /\ BackedUp /\ OpensAtItsVersion

\* What a step may never do to the database.
Forward == version <= version' /\ (tables => Ahead' \subseteq Ahead)

LEMMA VersionTypes ==
  ASSUME MigrationsTypeOK
  PROVE  /\ version \in Nat /\ LatestSchema \in Nat
         /\ \A h \in Hosts : Release[h] \in Nat /\ Release[h] <= LatestSchema
         /\ NoHost \notin Hosts
BY MigrationsAssumption DEF MigrationsTypeOK

-----------------------------------------------------------------------------
(* Steps that leave the database and what was read of it alone.            *)

\* A host moves on; a host it leaves the upgrade from loses its locks.
LEMMA HostMoves ==
  ASSUME UpgradeInv, UNCHANGED <<database, seen, backups>>, NEW h \in Hosts, NEW there,
         pc' = [pc EXCEPT ![h] = there], there \in {"out", "open", "working", "reading"},
         there \in {"open", "working"} => version >= Release[h],
         migrationLock' \in Hosts \cup {NoHost}, workerLock' \in Hosts \cup {NoHost},
         migrationLock' # migrationLock => migrationLock \in {h, NoHost},
         there = "reading" => migrationLock' = h
  PROVE  UpgradeInv' /\ Forward
<1>1. /\ pc'[h] = there /\ \A o \in Hosts \ {h} : pc'[o] = pc[o]
      /\ pc' \in [Hosts -> {"out", "reading", "copying", "preparing", "applying", "open", "working"}]
  BY DEF UpgradeInv, MigrationsTypeOK
<1>2. UNCHANGED <<tables, version, schema, conflicting, seen, backups>>
  BY DEF database
<1>3. MigrationsTypeOK'
  BY <1>1, <1>2 DEF UpgradeInv, MigrationsTypeOK
<1>4. Locked'
  BY <1>1, VersionTypes DEF UpgradeInv, Locked, Upgrading
<1>5. SeenIsTrue' /\ EmptyFirst'
  BY <1>1, <1>2 DEF UpgradeInv, SeenIsTrue, EmptyFirst
<1>6. VersionIsTrue'
  BY <1>2 DEF UpgradeInv, VersionIsTrue, Applied
<1>7. BackedUp'
  BY <1>1, <1>2 DEF UpgradeInv, BackedUp, Undone
<1>8. OpensAtItsVersion'
  BY <1>1, <1>2 DEF UpgradeInv, OpensAtItsVersion
<1>9. Forward
  BY <1>2, VersionTypes DEF Forward, Ahead, UpgradeInv
<1> QED
  BY <1>3, <1>4, <1>5, <1>6, <1>7, <1>8, <1>9 DEF UpgradeInv

LEMMA MoveSteps ==
  ASSUME UpgradeInv, NEW h \in Hosts,
         \/ TakeMigrationLock(h) \/ RefuseNewer(h) \/ OpenCurrent(h) \/ WorkerInTheWay(h)
         \/ BackUpFails(h) \/ StepFails(h) \/ FinishUpgrade(h)
         \/ StartWorker(h) \/ StopWorker(h) \/ Exit(h)
  PROVE  UpgradeInv' /\ Forward
<1>1. UNCHANGED <<database, seen, backups>>
  BY DEF TakeMigrationLock, RefuseNewer, OpenCurrent, WorkerInTheWay, BackUpFails, StepFails,
     FinishUpgrade, StartWorker, StopWorker, Exit
<1>2. /\ migrationLock \in Hosts \cup {NoHost} /\ workerLock \in Hosts \cup {NoHost}
      /\ version \in Nat /\ Release[h] \in Nat
  BY VersionTypes DEF UpgradeInv, MigrationsTypeOK
<1>3. ASSUME NEW there \in {"out", "open"}, Leave(h, there), there = "open" => version >= Release[h]
      PROVE  UpgradeInv' /\ Forward
  BY <1>1, <1>2, <1>3, HostMoves DEF Leave
<1>4. CASE TakeMigrationLock(h)
  BY <1>1, <1>2, <1>4, HostMoves DEF TakeMigrationLock
<1>5. CASE RefuseNewer(h) \/ WorkerInTheWay(h) \/ BackUpFails(h) \/ StepFails(h) \/ Exit(h)
  BY <1>3, <1>5 DEF RefuseNewer, WorkerInTheWay, BackUpFails, StepFails, Exit
<1>6. CASE OpenCurrent(h) \/ FinishUpgrade(h)
  BY <1>2, <1>3, <1>6 DEF OpenCurrent, AtRelease, FinishUpgrade
<1>7. CASE StartWorker(h)
  BY <1>1, <1>2, <1>7, HostMoves DEF StartWorker, UpgradeInv, OpensAtItsVersion
<1>8. CASE StopWorker(h)
  BY <1>3, <1>8 DEF StopWorker, UpgradeInv, OpensAtItsVersion
<1> QED
  BY <1>4, <1>5, <1>6, <1>7, <1>8

-----------------------------------------------------------------------------
(* Steps of an upgrade.                                                    *)

\* A host in an upgrade is the only one.
LEMMA AloneInUpgrade ==
  ASSUME UpgradeInv, NEW h \in Hosts, pc[h] \in {"reading"} \cup Upgrading
  PROVE  \A o \in Hosts \ {h} : pc[o] \notin {"reading"} \cup Upgrading
BY DEF UpgradeInv, Locked

LEMMA UpgradeStartsStep ==
  ASSUME UpgradeInv, NEW h \in Hosts, StartUpgrade(h)
  PROVE  UpgradeInv' /\ Forward
<1> DEFINE to == IF tables THEN "copying" ELSE "preparing"
           now == [version |-> version, tables |-> tables]
<1>1. /\ pc[h] = "reading" /\ workerLock' = h /\ seen' = [seen EXCEPT ![h] = now]
      /\ pc' = [pc EXCEPT ![h] = to]
      /\ UNCHANGED <<tables, version, schema, conflicting, migrationLock, backups>>
  BY DEF StartUpgrade, database
<1>2. MigrationsTypeOK /\ \A o \in Hosts \ {h} : pc[o] \notin {"reading"} \cup Upgrading
  BY <1>1, AloneInUpgrade DEF UpgradeInv
<1>3. /\ to \in {"copying", "preparing"} /\ now.version = version /\ now.tables = tables
      /\ now \in [version : 0..LatestSchema, tables : BOOLEAN]
      /\ to = "preparing" => ~tables
  BY <1>2 DEF MigrationsTypeOK
<1> HIDE DEF to, now
<1>4. /\ pc'[h] = to /\ seen'[h] = now
      /\ \A o \in Hosts \ {h} : pc'[o] = pc[o] /\ seen'[o] = seen[o]
  BY <1>1, <1>2 DEF MigrationsTypeOK
<1>5. MigrationsTypeOK'
  BY <1>1, <1>2, <1>3 DEF MigrationsTypeOK
<1>6. Locked'
  BY <1>1, <1>2, <1>4 DEF UpgradeInv, Locked
<1>7. SeenIsTrue' /\ EmptyFirst'
  BY <1>1, <1>2, <1>3, <1>4 DEF UpgradeInv, SeenIsTrue, EmptyFirst, Upgrading
<1>8. VersionIsTrue'
  BY <1>1 DEF UpgradeInv, VersionIsTrue, Applied
<1>9. BackedUp'
  BY <1>1, <1>2, <1>3, <1>4 DEF BackedUp, Upgrading
<1>10. OpensAtItsVersion'
  BY <1>1, <1>3, <1>4 DEF UpgradeInv, OpensAtItsVersion
<1>11. Forward
  BY <1>1, <1>2, VersionTypes DEF Forward, Ahead
<1> QED
  BY <1>5, <1>6, <1>7, <1>8, <1>9, <1>10, <1>11 DEF UpgradeInv

\* The copy is the database as it is before the first change.
LEMMA BackUpStep ==
  ASSUME UpgradeInv, NEW h \in Hosts, BackUp(h)
  PROVE  UpgradeInv' /\ Forward
<1> DEFINE b == [of |-> seen[h].version, holds |-> [version |-> version, schema |-> schema]]
<1>1. /\ pc[h] = "copying" /\ backups' = backups \cup {b}
      /\ pc' = [pc EXCEPT ![h] = "preparing"]
      /\ UNCHANGED <<tables, version, schema, conflicting, migrationLock, workerLock, seen>>
  BY DEF BackUp, database
<1>2. /\ MigrationsTypeOK /\ \A o \in Hosts \ {h} : pc[o] \notin {"reading"} \cup Upgrading
      /\ seen[h].version = version
  BY <1>1, AloneInUpgrade DEF UpgradeInv, SeenIsTrue, Upgrading
<1>3. pc'[h] = "preparing" /\ \A o \in Hosts \ {h} : pc'[o] = pc[o]
  BY <1>1, <1>2 DEF MigrationsTypeOK
<1>4. b \in [of : 0..LatestSchema, holds : Contents]
  BY <1>2 DEF MigrationsTypeOK, Contents
<1>5. b.of = seen[h].version /\ b.holds.version = b.of /\ b.holds.schema = schema
  BY <1>2
<1>6. MigrationsTypeOK'
  BY <1>1, <1>2, <1>4 DEF MigrationsTypeOK
<1> HIDE DEF b
<1>7. Locked' /\ SeenIsTrue' /\ EmptyFirst'
  <2>1. Locked'
    BY <1>1, <1>2, <1>3 DEF UpgradeInv, Locked, Upgrading
  <2>2. SeenIsTrue' /\ EmptyFirst'
    BY <1>1, <1>3 DEF UpgradeInv, SeenIsTrue, EmptyFirst
  <2> QED
    BY <2>1, <2>2
<1>8. VersionIsTrue'
  BY <1>1 DEF UpgradeInv, VersionIsTrue, Applied
<1>9. BackedUp'
  <2>1. PICK c : c = b
    OBVIOUS
  <2>2. c \in backups' /\ Undone(c, h)'
    BY <1>1, <1>5, <2>1 DEF Undone
  <2> QED
    BY <1>2, <1>3, <2>2 DEF BackedUp, Upgrading
<1>10. OpensAtItsVersion'
  BY <1>1, <1>3 DEF UpgradeInv, OpensAtItsVersion
<1>11. Forward
  BY <1>1, <1>2, VersionTypes DEF Forward, Ahead
<1> QED
  BY <1>6, <1>7, <1>8, <1>9, <1>10, <1>11 DEF UpgradeInv

LEMMA PrepareStep ==
  ASSUME UpgradeInv, NEW h \in Hosts, Prepare(h)
  PROVE  UpgradeInv' /\ Forward
<1>1. /\ pc[h] = "preparing" /\ pc' = [pc EXCEPT ![h] = "applying"]
      /\ UNCHANGED <<version, conflicting, migrationLock, workerLock, seen, backups>>
  BY DEF Prepare
<1>2. /\ MigrationsTypeOK /\ \A o \in Hosts \ {h} : pc[o] \notin {"reading"} \cup Upgrading
      /\ seen[h].version = version /\ seen[h].tables = tables /\ EmptyFirst
  BY <1>1, AloneInUpgrade DEF UpgradeInv, SeenIsTrue, Upgrading
<1>3. pc'[h] = "applying" /\ \A o \in Hosts \ {h} : pc'[o] = pc[o]
  BY <1>1, <1>2 DEF MigrationsTypeOK
<1>4. /\ tables' \in BOOLEAN /\ tables'
      /\ schema' \in [Numbers -> SUBSET Markers]
      /\ tables => schema' = schema
      /\ \A n \in Numbers : schema[n] \subseteq schema'[n]
  <2>1. schema \in [Numbers -> SUBSET Markers] /\ "first" \in Markers
    BY <1>2 DEF MigrationsTypeOK, Markers
  <2>2. CASE version = 0
    <3>1. /\ tables' = TRUE
          /\ schema' = [n \in Numbers |->
               IF Kind[n] = "additive" /\ ~tables THEN schema[n] \cup {"first"} ELSE schema[n]]
      BY <1>2, <2>2 DEF Prepare
    <3>2. \A n \in Numbers : schema'[n] \in SUBSET Markers /\ schema[n] \subseteq schema'[n]
                             /\ (tables => schema'[n] = schema[n])
      BY <2>1, <3>1
    <3> QED
      BY <2>1, <3>1, <3>2
  <2>3. CASE version # 0
    BY <1>2, <2>1, <2>3 DEF Prepare, EmptyFirst
  <2> QED
    BY <2>2, <2>3
<1>5. MigrationsTypeOK'
  BY <1>1, <1>2, <1>4 DEF MigrationsTypeOK
<1>6. Locked' /\ SeenIsTrue' /\ EmptyFirst'
  <2>1. Locked'
    BY <1>1, <1>2, <1>3 DEF UpgradeInv, Locked, Upgrading
  <2>2. SeenIsTrue' /\ EmptyFirst'
    BY <1>1, <1>2, <1>3, <1>4 DEF UpgradeInv, SeenIsTrue, EmptyFirst, Upgrading
  <2> QED
    BY <2>1, <2>2
<1>7. VersionIsTrue'
  <2> SUFFICES ASSUME NEW n \in Numbers, n <= version PROVE schema'[n] = Markers
    BY <1>1 DEF VersionIsTrue, Applied
  <2>1. schema[n] = Markers
    BY DEF UpgradeInv, VersionIsTrue, Applied
  <2> QED
    BY <1>4, <2>1
<1>8. BackedUp'
  <2> SUFFICES ASSUME seen[h].tables PROVE \E b \in backups : Undone(b, h)'
    BY <1>1, <1>2, <1>3 DEF BackedUp, Upgrading
  <2>1. PICK b \in backups : Undone(b, h)
    BY <1>1 DEF UpgradeInv, BackedUp
  <2>2. schema' = schema
    BY <1>2, <1>4
  <2> QED
    BY <1>1, <2>1, <2>2 DEF Undone
<1>9. OpensAtItsVersion'
  BY <1>1, <1>3 DEF UpgradeInv, OpensAtItsVersion
<1>10. Forward
  BY <1>1, <1>2, <1>4, VersionTypes DEF Forward, Ahead
<1> QED
  BY <1>5, <1>6, <1>7, <1>8, <1>9, <1>10 DEF UpgradeInv

\* A migration is applied in full, with the marker that counts it.
LEMMA ApplyKeeps ==
  ASSUME UpgradeInv, NEW h \in Hosts, ApplyStep(h)
  PROVE  UpgradeInv' /\ Forward
<1> DEFINE n == version + 1
<1>1. /\ pc[h] = "applying" /\ version < Release[h] /\ RunsMigration(n)
      /\ schema' = [schema EXCEPT ![n] = Script(n)] /\ version' = n
      /\ UNCHANGED <<tables, conflicting, migrationLock, workerLock, pc, seen, backups>>
  BY DEF ApplyStep, Commit, NextNumber
<1>2. /\ MigrationsTypeOK /\ \A o \in Hosts \ {h} : pc[o] \notin {"reading"} \cup Upgrading
      /\ tables
  BY <1>1, AloneInUpgrade DEF UpgradeInv, SeenIsTrue, Upgrading
<1>3. /\ version \in Nat /\ n \in Numbers /\ n \in 0..LatestSchema
  BY <1>1, <1>2, VersionTypes DEF Numbers
<1>4. Script(n) = Markers
  <2>1. schema[n] # {} /\ Kind[n] = "marked" => schema[n] = Markers
    BY <1>1 DEF RunsMigration, Partial, Applied
  <2> QED
    BY <2>1 DEF Script
<1> HIDE DEF n
<1>5. /\ schema' \in [Numbers -> SUBSET Markers] /\ schema'[n] = Markers
      /\ \A m \in Numbers \ {n} : schema'[m] = schema[m]
  BY <1>1, <1>2, <1>3, <1>4 DEF MigrationsTypeOK
<1>6. MigrationsTypeOK'
  BY <1>1, <1>2, <1>3, <1>5 DEF MigrationsTypeOK
<1>7. Locked' /\ SeenIsTrue' /\ EmptyFirst'
  <2>1. Locked'
    BY <1>1 DEF UpgradeInv, Locked
  <2>2. SeenIsTrue'
    BY <1>1, <1>2 DEF UpgradeInv, SeenIsTrue, Upgrading
  <2>3. EmptyFirst'
    BY <1>1, <1>2 DEF EmptyFirst
  <2> QED
    BY <2>1, <2>2, <2>3
<1>8. VersionIsTrue'
  <2> SUFFICES ASSUME NEW m \in Numbers, m <= version' PROVE schema'[m] = Markers
    BY DEF VersionIsTrue, Applied
  <2>1. CASE m = n
    BY <1>5, <2>1
  <2>2. CASE m # n
    <3>1. m <= version
      BY <1>1, <1>3, <2>2 DEF n, Numbers
    <3> QED
      BY <1>5, <2>2, <3>1 DEF UpgradeInv, VersionIsTrue, Applied
  <2> QED
    BY <2>1, <2>2
<1>9. \A m \in Numbers : m > version' => m > version /\ schema'[m] = schema[m]
  BY <1>1, <1>3, <1>5 DEF n, Numbers
<1>10. BackedUp'
  <2> SUFFICES ASSUME seen[h].tables PROVE \E b \in backups : Undone(b, h)'
    BY <1>1, <1>2 DEF BackedUp, Upgrading
  <2>1. PICK b \in backups : Undone(b, h)
    BY <1>1 DEF UpgradeInv, BackedUp
  <2> QED
    BY <1>1, <1>9, <2>1 DEF Undone
<1>11. version <= version'
  BY <1>1, <1>3 DEF n
<1>12. OpensAtItsVersion'
  <2>1. \A o \in Hosts : version >= Release[o] => version' >= Release[o]
    BY <1>2, <1>3, <1>11, <1>1, VersionTypes DEF n
  <2> QED
    BY <1>1, <2>1 DEF UpgradeInv, OpensAtItsVersion
<1>13. Forward
  BY <1>9, <1>11 DEF Forward, Ahead
<1> QED
  BY <1>6, <1>7, <1>8, <1>10, <1>12, <1>13 DEF UpgradeInv

-----------------------------------------------------------------------------
LEMMA UpgradeStep == UpgradeInv /\ [MigrationsNext]_migrationsVars => UpgradeInv' /\ Forward
<1> SUFFICES ASSUME UpgradeInv, [MigrationsNext]_migrationsVars PROVE UpgradeInv' /\ Forward
  OBVIOUS
<1>1. CASE UNCHANGED migrationsVars
  <2>1. MigrationsTypeOK' /\ Locked' /\ SeenIsTrue' /\ EmptyFirst'
    BY <1>1 DEF migrationsVars, UpgradeInv, MigrationsTypeOK, Locked, SeenIsTrue, EmptyFirst
  <2>2. VersionIsTrue' /\ BackedUp' /\ OpensAtItsVersion'
    BY <1>1 DEF migrationsVars, UpgradeInv, VersionIsTrue, Applied, BackedUp, Undone, OpensAtItsVersion
  <2>3. Forward
    BY <1>1, VersionTypes DEF migrationsVars, UpgradeInv, Forward, Ahead
  <2> QED
    BY <2>1, <2>2, <2>3 DEF UpgradeInv
<1> QED
  BY <1>1, MoveSteps, UpgradeStartsStep, BackUpStep, PrepareStep, ApplyKeeps DEF MigrationsNext

\* An upgrade is whole and backed up, whoever dies in it, whatever was
\* restored and whichever releases open the file: the version counts only
\* what is there in full, no step leaves a part of a migration behind, and an
\* open store has reached its host's release.
THEOREM UpgradesAreSafe == MigrationsSpec => []MigrationsTypeOK /\ SafeUpgrades
<1>1. MigrationsInit => UpgradeInv
  <2> SUFFICES ASSUME MigrationsInit PROVE UpgradeInv
    OBVIOUS
  <2>1. \A h \in Hosts : pc[h] = "out"
    BY DEF MigrationsInit
  <2>2. MigrationsTypeOK
    <3>1. seen \in [Hosts -> [version : 0..LatestSchema, tables : BOOLEAN]]
      <4>1. 0 \in 0..LatestSchema /\ FALSE \in BOOLEAN
        BY MigrationsAssumption
      <4> QED
        BY <4>1 DEF MigrationsInit
    <3> QED
      BY <3>1 DEF MigrationsInit, MigrationsTypeOK
  <2> QED
    BY <2>1, <2>2 DEF MigrationsInit, UpgradeInv, Locked, SeenIsTrue, EmptyFirst, VersionIsTrue, BackedUp,
       OpensAtItsVersion, Upgrading
<1>2. UpgradeInv => MigrationsTypeOK /\ VersionIsTrue /\ BackedUp /\ OpensAtItsVersion
  BY DEF UpgradeInv
<1>3. UpgradeInv /\ [MigrationsNext]_migrationsVars =>
        UpgradeInv' /\ [tables => Ahead' \subseteq Ahead]_migrationsVars
  BY UpgradeStep DEF Forward
<1> QED
  BY <1>1, <1>2, <1>3, PTL DEF MigrationsSpec, SafeUpgrades, NothingHalfDone

-----------------------------------------------------------------------------
(* What a job and its subtasks may spend.                                  *)

AtRest == {"absent", "queued", "waiting_approval", "waiting_children", "blocked", "failed", "interrupted",
            "completed", "cancelled"}

Stages == AtRest \cup {"head"} \cup Executing

PassType == [base : Nat, tokens : Nat, calls : Nat, left : 0 .. MaxCorrections,
             allowance : [tokens : Nat, calls : Nat]]

\* What n answers take at most.
Many(n) == n * MaxAnswer

\* How many answers an attempt may still get without its budget being looked at.
Rest(where, left) ==
  CASE where = "asked" -> MaxCorrections + 1
    [] where = "correcting" -> left + 1
    [] where = "final" -> left
    [] OTHER -> 0

\* How far below its furthest overshoot an attempt is.
Room(where, left) == IF where = "asked" THEN Overshoot + 1 ELSE Many(Rest(where, left))

\* What the answers under way may take of a job that was cancelled.
Waste(where, left) == IF where = "asked" THEN MaxAnswer ELSE Many(Rest(where, left))

\* What no row of j may count in the end of what its attempt does not count yet.
Risk(j) ==
  IF stage[j] \notin Executing \cup {"head"} THEN 0
  ELSE IF j \in void THEN Waste(stage[j], pass[j].left) ELSE Unstopped

\* What j may still add to the day.
Owing(j) == IF j \in void THEN 0 ELSE Many(Rest(stage[j], pass[j].left)) + Unsaved(j)
Owings   == [j \in Spenders |-> Owing(j)]

Unseen == [j \in Spenders |-> late[j] + Unsaved(j)]

\* The most tokens the answers of each subtask may have taken.
Most == [c \in Subtasks |-> IF stage[c] = "absent" THEN 0 ELSE limit[c].tokens + Overshoot]

\* A subtask has limits, and nothing before it exists.
SharesKept ==
  /\ limit[Master] = MasterLimit /\ stage[Master] # "absent"
  /\ \A c \in Subtasks :
       IF stage[c] = "absent" THEN limit[c] = NoLimit /\ counted[c] = 0 /\ called[c] = 0 /\ spent[c] = 0
       ELSE limit[c] \in Amounts

\* The row of an attempt has what the attempt has counted, but for one corrected
\* answer; the attempt of a cancelled job is about to find out.
AttemptKept(j) ==
  /\ j \in void => stage[j] \in Executing \cup {"head", "cancelled"}
  /\ stage[j] = "correcting" => pass[j].left < MaxCorrections
  /\ j \notin void /\ stage[j] \in Executing \cup {"head"} =>
       /\ counted[j] <= Sum(j)
       /\ stage[j] # "final" \/ pass[j].left = MaxCorrections => counted[j] = Sum(j)
       /\ Sum(j) <= counted[j] + MaxAnswer

\* A call that is under way has its place, and answers have theirs.
LimitKept(j) ==
  /\ called[j] + Reserved(j, "calls") <= limit[j].calls
  /\ stage[j] = "call" => called[j] + Reserved(j, "calls") < limit[j].calls
  /\ counted[j] + Unsaved(j) + Reserved(j, "tokens") <= limit[j].tokens + Overshoot
  /\ j \notin void => counted[j] + Unsaved(j) + Reserved(j, "tokens") + Room(stage[j], pass[j].left)
                        <= limit[j].tokens + Overshoot

AnswersKept(j) ==
  /\ j \notin dropped => counted[j] + late[j] + Unsaved(j) = spent[j]
  /\ late[j] + Risk(j) <= claimed[j] * Unstopped
  /\ late[j] + Unsaved(j) <= spent[j]

JobKept(j) == AttemptKept(j) /\ LimitKept(j) /\ AnswersKept(j)

\* What the subtasks may take at most is what is reserved and one overshoot each.
MostKept == Total(Most, Subtasks) = Reserved(Master, "tokens") + Cardinality(Existing) * Overshoot

\* What is asked for may take the day past its quota.
QuotaKept == daily + Total(Owings, Spenders) < DailyQuota + Cardinality(Spenders) * Many(MaxCorrections + 1)

BudgetInv ==
  /\ BudgetTypeOK /\ SharesKept /\ (\A j \in Spenders : JobKept(j)) /\ MostKept /\ QuotaKept
  /\ daily + Total(Unseen, Spenders) = Total(spent, Spenders)

-----------------------------------------------------------------------------
(* Sums.                                                                   *)

LEMMA UnitOf ==
  ASSUME NEW S, NEW f
  PROVE  /\ \A j, n : <<j, n>> \in Units(f, S) <=> j \in S /\ n \in 1 .. f[j]
         /\ \A u \in Units(f, S) : \E j \in S : \E n \in 1 .. f[j] : u = <<j, n>>
<1>1. \A u : u \in Units(f, S) <=> \E j \in S : u \in {j} \X (1 .. f[j])
  BY DEF Units
<1> QED
  BY <1>1

LEMMA TotalNone ==
  ASSUME NEW f, NEW S, \A j \in S : f[j] = 0
  PROVE  Total(f, S) = 0
<1>1. \A j \in S : 1 .. f[j] = {}
  OBVIOUS
<1>2. Units(f, S) = {}
  BY <1>1, UnitOf
<1> QED
  BY <1>2, FS_EmptySet DEF Total

LEMMA UnitsSame ==
  ASSUME NEW f, NEW g, NEW S, \A j \in S : f[j] = g[j]
  PROVE  Units(f, S) = Units(g, S) /\ Total(f, S) = Total(g, S)
<1>1. Units(f, S) = Units(g, S)
  BY DEF Units
<1> QED
  BY <1>1 DEF Total

LEMMA UnitsFinite ==
  ASSUME NEW S, IsFiniteSet(S), NEW f, \A j \in S : f[j] \in Nat
  PROVE  IsFiniteSet(Units(f, S)) /\ Total(f, S) \in Nat
<1>1. PICK parts, rows : /\ rows = [j \in S |-> {j} \X (1 .. f[j])] /\ parts = {{j} \X (1 .. f[j]) : j \in S}
  OBVIOUS
<1>2. rows \in Surjection(S, parts)
  BY <1>1 DEF Surjection
<1>3. IsFiniteSet(parts)
  BY <1>2, FS_Surjection
<1>4. \A T \in parts : IsFiniteSet(T)
  <2>1. ASSUME NEW j \in S PROVE IsFiniteSet({j} \X (1 .. f[j]))
    <3>1. IsFiniteSet({j})
      BY FS_Singleton
    <3>2. f[j] \in Int
      OBVIOUS
    <3>3. IsFiniteSet(1 .. f[j])
      BY <3>2, FS_Interval
    <3> QED
      BY <3>1, <3>3, FS_Product
  <2> QED
    BY <1>1, <2>1
<1>5. IsFiniteSet(UNION parts)
  BY <1>3, <1>4, FS_UNION
<1> QED
  BY <1>1, <1>5, FS_CardinalityType DEF Units, Total

LEMMA TotalWith ==
  ASSUME NEW S, IsFiniteSet(S), NEW x, x \notin S, NEW f, \A j \in S \cup {x} : f[j] \in Nat
  PROVE  Total(f, S \cup {x}) = Total(f, S) + f[x]
<1>1. PICK own : own = {x} \X (1 .. f[x])
  OBVIOUS
<1>2. IsFiniteSet(own) /\ Cardinality(own) = f[x]
  <2>1. IsFiniteSet({x}) /\ Cardinality({x}) = 1
    BY FS_Singleton
  <2>2. IsFiniteSet(1 .. f[x]) /\ Cardinality(1 .. f[x]) = f[x]
    BY FS_Interval
  <2>3. IsFiniteSet(own) /\ Cardinality(own) = 1 * f[x]
    BY <1>1, <2>1, <2>2, FS_Product, SMTT(20)
  <2> QED
    BY <2>3
<1>3. Units(f, S \cup {x}) = Units(f, S) \cup own
  BY <1>1 DEF Units
<1>4. Units(f, S) \cap own = {}
  <2> SUFFICES ASSUME NEW u \in Units(f, S), u \in own PROVE FALSE
    OBVIOUS
  <2>1. PICK j \in S : \E n \in 1 .. f[j] : u = <<j, n>>
    BY UnitOf
  <2> QED
    BY <1>1, <2>1
<1>5. IsFiniteSet(Units(f, S)) /\ Cardinality(Units(f, S)) \in Nat
  BY UnitsFinite DEF Total
<1>6. Cardinality(Units(f, S) \cup own) = Cardinality(Units(f, S)) + Cardinality(own) - Cardinality(Units(f, S) \cap own)
  BY <1>2, <1>5, FS_Union
<1>7. Cardinality(Units(f, S) \cap own) = 0
  BY <1>4, FS_EmptySet
<1>8. Total(f, S \cup {x}) = Cardinality(Units(f, S) \cup own) /\ Total(f, S) = Cardinality(Units(f, S))
  BY <1>3 DEF Total
<1>9. f[x] \in Nat
  OBVIOUS
<1> QED
  BY <1>2, <1>5, <1>6, <1>7, <1>8, <1>9

\* A change of one number changes the sum by as much.
LEMMA TotalChanges ==
  ASSUME NEW S, IsFiniteSet(S), NEW x \in S, NEW f, NEW g,
         \A j \in S : f[j] \in Nat /\ g[j] \in Nat, \A j \in S \ {x} : g[j] = f[j]
  PROVE  Total(g, S) = Total(f, S) + g[x] - f[x]
<1>1. PICK rest : rest = S \ {x}
  OBVIOUS
<1>2. IsFiniteSet(rest) /\ x \notin rest /\ rest \cup {x} = S
  BY <1>1, FS_RemoveElement
<1>3. Total(f, S) = Total(f, rest) + f[x] /\ Total(g, S) = Total(g, rest) + g[x]
  <2>1. \A j \in rest \cup {x} : f[j] \in Nat /\ g[j] \in Nat
    BY <1>2
  <2> QED
    BY <1>2, <2>1, TotalWith
<1>4. Total(f, rest) = Total(g, rest)
  BY <1>1, UnitsSame
<1>5. Total(f, rest) \in Nat
  BY <1>2, UnitsFinite
<1> QED
  BY <1>3, <1>4, <1>5

LEMMA TotalBelow ==
  ASSUME NEW S, IsFiniteSet(S), NEW f, NEW g, \A j \in S : f[j] \in Nat /\ g[j] \in Nat /\ f[j] <= g[j]
  PROVE  Total(f, S) <= Total(g, S)
<1>1. IsFiniteSet(Units(g, S))
  BY UnitsFinite
<1>2. Units(f, S) \in SUBSET Units(g, S)
  <2> SUFFICES ASSUME NEW u \in Units(f, S) PROVE u \in Units(g, S)
    OBVIOUS
  <2>1. PICK j \in S : \E n \in 1 .. f[j] : u = <<j, n>>
    BY UnitOf
  <2>2. PICK n \in 1 .. f[j] : u = <<j, n>>
    BY <2>1
  <2>3. n \in 1 .. g[j]
    OBVIOUS
  <2> QED
    BY <2>2, <2>3, UnitOf
<1> QED
  BY <1>1, <1>2, FS_Subset DEF Total

LEMMA TimesMore ==
  ASSUME NEW a \in Nat, NEW b \in Nat, NEW m \in Nat
  PROVE  /\ a <= b => a * m <= b * m
         /\ (a + 1) * m = a * m + m
         /\ a * m \in Nat
  OBVIOUS

-----------------------------------------------------------------------------
\* The sum of one number over and over.
LEMMA TotalConstant ==
  ASSUME NEW S, IsFiniteSet(S), NEW n \in Nat, NEW f, \A j \in S : f[j] = n
  PROVE  Total(f, S) = Cardinality(S) * n
<1>1. Units(f, S) = S \X (1 .. n)
  <2>1. \A j, m : <<j, m>> \in Units(f, S) <=> <<j, m>> \in S \X (1 .. n)
    BY UnitOf
  <2>2. \A u \in Units(f, S) : u \in S \X (1 .. n)
    <3> SUFFICES ASSUME NEW u \in Units(f, S) PROVE u \in S \X (1 .. n)
      OBVIOUS
    <3>1. \E j \in S : \E m \in 1 .. f[j] : u = <<j, m>>
      BY UnitOf
    <3> QED
      BY <3>1
  <2>3. \A u \in S \X (1 .. n) : u \in Units(f, S)
    BY <2>1
  <2> QED
    BY <2>2, <2>3
<1>2. IsFiniteSet(1 .. n) /\ Cardinality(1 .. n) = n
  BY FS_Interval
<1> QED
  BY <1>1, <1>2, FS_Product DEF Total

-----------------------------------------------------------------------------
(* Steps.                                                                  *)

LEMMA ManyMore ==
  /\ MaxAnswer \in Nat \ {0} /\ MaxCorrections \in Nat /\ Overshoot \in Nat /\ Unstopped \in Nat
  /\ Many(0) = 0
  /\ \A n \in Nat : Many(n) \in Nat /\ Many(n + 1) = Many(n) + MaxAnswer
  /\ \A m, n \in Nat : m <= n => Many(m) <= Many(n)
  /\ MaxAnswer <= Overshoot + 1 /\ MaxAnswer <= Unstopped
  /\ Many(MaxCorrections) <= Overshoot /\ Many(MaxCorrections) <= Unstopped
<1>1. MaxAnswer \in Nat \ {0} /\ MaxCorrections \in Nat
  BY BudgetAssumption
<1>2. Many(0) = 0 /\ \A n \in Nat : Many(n) \in Nat /\ Many(n + 1) = Many(n) + MaxAnswer
  BY <1>1, TimesMore DEF Many
<1>3. \A m, n \in Nat : m <= n => Many(m) <= Many(n)
  BY <1>1, TimesMore DEF Many
<1>4. MaxCorrections # 0 => MaxAnswer <= Many(MaxCorrections)
  <2>1. 1 \in Nat /\ 0 \in Nat /\ Many(1) = MaxAnswer
    BY <1>1 DEF Many
  <2> QED
    BY <1>1, <1>3, <2>1
<1> QED
  BY <1>1, <1>2, <1>3, <1>4 DEF Overshoot, Unstopped, Many

LEMMA RestFacts ==
  ASSUME NEW where, NEW left \in 0 .. MaxCorrections, where = "correcting" => left < MaxCorrections
  PROVE  /\ Rest(where, left) \in Nat /\ Rest(where, left) <= MaxCorrections + 1
         /\ Many(Rest(where, left)) \in Nat /\ Many(Rest(where, left)) <= Many(MaxCorrections + 1)
         /\ Room(where, left) \in Nat /\ Waste(where, left) \in Nat /\ Waste(where, left) <= Unstopped
         /\ where \notin {"asked", "final", "correcting"} =>
              Many(Rest(where, left)) = 0 /\ Room(where, left) = 0 /\ Waste(where, left) = 0
<1>1. Rest(where, left) \in Nat /\ Rest(where, left) <= MaxCorrections + 1
  BY ManyMore DEF Rest
<1>2. MaxCorrections + 1 \in Nat /\ MaxCorrections \in Nat /\ left \in Nat /\ left + 1 \in Nat
  BY ManyMore
<1>3. Many(Rest(where, left)) \in Nat /\ Many(Rest(where, left)) <= Many(MaxCorrections + 1)
  BY <1>1, <1>2, ManyMore
<1>4. where # "asked" => Rest(where, left) <= MaxCorrections
  BY <1>2 DEF Rest
<1>5. where # "asked" => Many(Rest(where, left)) <= Many(MaxCorrections)
  BY <1>1, <1>2, <1>4, ManyMore
<1>6. Many(MaxCorrections) \in Nat
  BY <1>2, ManyMore
<1>7. Room(where, left) \in Nat /\ Waste(where, left) \in Nat /\ Waste(where, left) <= Unstopped
  BY <1>3, <1>5, <1>6, ManyMore DEF Room, Waste
<1>8. where \notin {"asked", "final", "correcting"} => Rest(where, left) = 0
  BY DEF Rest
<1> QED
  BY <1>1, <1>3, <1>7, <1>8, ManyMore DEF Room, Waste

LEMMA BudgetTypes ==
  ASSUME BudgetTypeOK
  PROVE  /\ IsFiniteSet(Spenders) /\ IsFiniteSet(Subtasks)
         /\ Master \in Spenders /\ Master \notin Subtasks /\ Spenders = Subtasks \cup {Master}
         /\ DailyQuota \in Nat \ {0} /\ daily \in Nat /\ Cardinality(Spenders) \in Nat
         /\ \A j \in Spenders : /\ counted[j] \in Nat /\ called[j] \in Nat /\ spent[j] \in Nat /\ late[j] \in Nat
                              /\ claimed[j] \in Nat /\ limit[j].tokens \in Nat /\ limit[j].calls \in Nat
                              /\ pass[j] \in PassType /\ stage[j] \in Stages
                              /\ pass[j].base \in Nat /\ pass[j].tokens \in Nat
                              /\ pass[j].left \in 0 .. MaxCorrections
         /\ stage \in [Spenders -> Stages] /\ counted \in [Spenders -> Nat] /\ called \in [Spenders -> Nat]
         /\ spent \in [Spenders -> Nat] /\ pass \in [Spenders -> PassType] /\ late \in [Spenders -> Nat]
         /\ claimed \in [Spenders -> Nat] /\ retried \in [Spenders -> Nat]
<1>1. /\ stage \in [Spenders -> Stages] /\ counted \in [Spenders -> Nat] /\ called \in [Spenders -> Nat]
      /\ spent \in [Spenders -> Nat] /\ pass \in [Spenders -> PassType] /\ late \in [Spenders -> Nat]
      /\ claimed \in [Spenders -> Nat] /\ retried \in [Spenders -> Nat] /\ daily \in Nat
  BY DEF BudgetTypeOK, Stages, AtRest, PassType
<1>2. limit \in [Spenders -> [tokens : Nat, calls : Nat]]
  <2>1. limit \in [Spenders -> {NoLimit, MasterLimit} \cup Amounts]
    BY DEF BudgetTypeOK
  <2>2. {NoLimit, MasterLimit} \cup Amounts \subseteq [tokens : Nat, calls : Nat]
    BY BudgetAssumption DEF NoLimit
  <2> QED
    BY <2>1, <2>2
<1>3. IsFiniteSet(Subtasks) /\ Master \notin Subtasks /\ DailyQuota \in Nat \ {0}
  BY BudgetAssumption
<1>4. IsFiniteSet(Spenders) /\ Master \in Spenders /\ Cardinality(Spenders) \in Nat
  BY <1>3, FS_AddElement, FS_CardinalityType DEF Spenders
<1>5. \A j \in Spenders : pass[j].base \in Nat /\ pass[j].tokens \in Nat /\ pass[j].left \in 0 .. MaxCorrections
  BY <1>1 DEF PassType
<1> QED
  BY <1>1, <1>2, <1>3, <1>4, <1>5 DEF Spenders

LEMMA ReservedIsNat ==
  ASSUME BudgetTypeOK
  PROVE  \A j \in Spenders, what \in {"tokens", "calls"} : Reserved(j, what) \in Nat
<1>1. ASSUME NEW what \in {"tokens", "calls"} PROVE Total(Shares(what), Subtasks) \in Nat
  <2>1. IsFiniteSet(Subtasks)
    BY BudgetTypes
  <2>2. \A c \in Subtasks : Shares(what)[c] \in Nat
    BY BudgetTypes DEF Shares
  <2> QED
    BY <2>1, <2>2, UnitsFinite
<1> QED
  BY <1>1 DEF Reserved

\* What a job's row is behind its attempt.
LEMMA UnsavedIs ==
  ASSUME BudgetTypeOK, NEW j \in Spenders, AttemptKept(j)
  PROVE  /\ Unsaved(j) \in Nat /\ Unsaved(j) <= MaxAnswer
         /\ stage[j] \in Executing \cup {"head"} /\ j \notin void => Sum(j) = counted[j] + Unsaved(j)
         /\ stage[j] # "final" \/ pass[j].left = MaxCorrections \/ j \in void => Unsaved(j) = 0
<1>1. counted[j] \in Nat /\ Sum(j) \in Nat /\ MaxAnswer \in Nat
  <2>1. counted[j] \in Nat /\ pass[j].base \in Nat /\ pass[j].tokens \in Nat
    BY BudgetTypes
  <2>2. Sum(j) \in Nat
    BY <2>1 DEF Sum
  <2>3. MaxAnswer \in Nat
    BY ManyMore
  <2> QED
    BY <2>1, <2>2, <2>3
<1>2. stage[j] \in {"final", "correcting"} => stage[j] \in Executing
  BY DEF Executing
<1> QED
  BY <1>1, <1>2 DEF AttemptKept, Unsaved

LEMMA OwingIs ==
  ASSUME BudgetTypeOK, NEW j \in Spenders, AttemptKept(j)
  PROVE  Owing(j) \in Nat /\ Owing(j) <= Many(MaxCorrections + 1)
<1>1. pass[j].left \in 0 .. MaxCorrections /\ (stage[j] = "correcting" => pass[j].left < MaxCorrections)
  BY BudgetTypes DEF AttemptKept
<1>2. /\ Many(Rest(stage[j], pass[j].left)) \in Nat
      /\ Many(Rest(stage[j], pass[j].left)) <= Many(MaxCorrections + 1)
  BY <1>1, RestFacts
<1>3. Unsaved(j) \in Nat /\ Unsaved(j) <= MaxAnswer
  BY UnsavedIs
<1>4. MaxCorrections \in Nat /\ MaxCorrections + 1 \in Nat /\ MaxAnswer \in Nat /\ Many(MaxCorrections + 1) \in Nat
  BY ManyMore
<1>5. CASE j \notin void /\ stage[j] = "final" /\ Unsaved(j) # 0
  <2>1. pass[j].left \in Nat /\ pass[j].left + 1 <= MaxCorrections + 1
    BY <1>1, <1>4
  <2>2. Many(pass[j].left) + MaxAnswer <= Many(MaxCorrections + 1) /\ Many(pass[j].left) \in Nat
    <3>1. Many(pass[j].left) \in Nat /\ Many(pass[j].left + 1) = Many(pass[j].left) + MaxAnswer
      BY <2>1, ManyMore
    <3>2. pass[j].left + 1 \in Nat
      BY <2>1
    <3>3. Many(pass[j].left + 1) <= Many(MaxCorrections + 1)
      BY <1>4, <2>1, <3>2, ManyMore
    <3> QED
      BY <3>1, <3>3
  <2>3. Rest(stage[j], pass[j].left) = pass[j].left
    BY <1>5 DEF Rest
  <2> QED
    BY <1>3, <1>4, <1>5, <2>2, <2>3 DEF Owing
<1>6. CASE j \in void
  BY <1>4, <1>6 DEF Owing
<1>7. CASE j \notin void /\ Unsaved(j) = 0
  BY <1>2, <1>7 DEF Owing
<1>8. stage[j] # "final" => Unsaved(j) = 0
  BY UnsavedIs
<1> QED
  BY <1>5, <1>6, <1>7, <1>8

\* A step in which one job moves, and what it owes is no more than it owed, or the
\* day has room for all.
LEMMA SpenderStep ==
  ASSUME BudgetInv, BudgetTypeOK', NEW j \in Spenders, limit' = limit,
         stage[j] # "absent", stage'[j] # "absent", JobKept(j)',
         \A k \in Spenders \ {j} :
           /\ stage'[k] = stage[k] /\ pass'[k] = pass[k] /\ counted'[k] = counted[k] /\ called'[k] = called[k]
           /\ claimed'[k] = claimed[k] /\ spent'[k] = spent[k] /\ late'[k] = late[k]
           /\ (k \in void' <=> k \in void) /\ (k \in dropped' <=> k \in dropped),
         daily' + late'[j] + Unsaved(j)' + spent[j] = daily + late[j] + Unsaved(j) + spent'[j],
         daily' + Owing(j)' <= daily + Owing(j) \/ daily' < DailyQuota
  PROVE  BudgetInv'
<1>1. \A k \in Spenders, what \in {"tokens", "calls"} : Reserved(k, what)' = Reserved(k, what)
  BY DEF Reserved, Shares, Total, Units
<1>2. BudgetTypeOK /\ \A k \in Spenders : JobKept(k)
  BY DEF BudgetInv
<1>3. \A k \in Spenders \ {j} : /\ Sum(k)' = Sum(k) /\ Unsaved(k)' = Unsaved(k)
                               /\ Owing(k)' = Owing(k) /\ Risk(k)' = Risk(k)
  BY DEF Sum, Unsaved, Owing, Risk
<1>4. ASSUME NEW k \in Spenders \ {j} PROVE JobKept(k)'
  <2>1. AttemptKept(k)'
    BY <1>2, <1>3 DEF JobKept, AttemptKept
  <2>2. LimitKept(k)'
    BY <1>1, <1>2, <1>3 DEF JobKept, LimitKept
  <2>3. AnswersKept(k)'
    BY <1>2, <1>3 DEF JobKept, AnswersKept
  <2> QED
    BY <2>1, <2>2, <2>3 DEF JobKept
<1>5. \A k \in Spenders : stage'[k] = "absent" <=> stage[k] = "absent"
  OBVIOUS
<1>6. Existing' = Existing /\ Most' = Most
  <2>1. \A c \in Subtasks : c \in Spenders
    BY DEF Spenders
  <2> QED
    BY <1>5, <2>1 DEF Existing, Most
<1>7. SharesKept'
  <2>1. Master \in Spenders /\ \A c \in Subtasks : c \in Spenders
    BY DEF Spenders
  <2> QED
    BY <1>5, <2>1 DEF BudgetInv, SharesKept
<1>8. MostKept'
  <2>1. Master \in Spenders
    BY DEF Spenders
  <2> QED
    BY <1>1, <1>6, <2>1 DEF BudgetInv, MostKept, Total, Units
<1>9. /\ \A k \in Spenders : Unsaved(k) \in Nat /\ Owing(k) \in Nat /\ Owing(k) <= Many(MaxCorrections + 1)
      /\ \A k \in Spenders \ {j} : Unsaved(k)' \in Nat /\ Owing(k)' \in Nat /\ Owing(k)' <= Many(MaxCorrections + 1)
  BY <1>2, <1>3, UnsavedIs, OwingIs DEF JobKept
<1>10. Unsaved(j)' \in Nat /\ Owing(j)' \in Nat /\ Owing(j)' <= Many(MaxCorrections + 1)
  <2>1. AttemptKept(j)' /\ pass'[j] \in PassType
    BY DEF JobKept, BudgetTypeOK, PassType
  <2>2. counted'[j] \in Nat /\ pass'[j].base \in Nat /\ pass'[j].tokens \in Nat /\ pass'[j].left \in 0 .. MaxCorrections
    BY <2>1 DEF BudgetTypeOK, PassType
  <2>3. PICK now, left, gone : now = stage'[j] /\ left = pass'[j].left /\ gone = (j \in void')
    OBVIOUS
  <2>4. left \in 0 .. MaxCorrections /\ (now = "correcting" => left < MaxCorrections)
    BY <2>1, <2>2, <2>3 DEF AttemptKept
  <2>5. Many(Rest(now, left)) \in Nat /\ Many(Rest(now, left)) <= Many(MaxCorrections + 1)
    BY <2>4, RestFacts
  <2>6. Sum(j)' \in Nat
    BY <2>2 DEF Sum
  <2>7. now \in {"final", "correcting"} => now \in Executing
    BY DEF Executing
  <2>8. MaxAnswer \in Nat /\ MaxCorrections \in Nat /\ MaxCorrections + 1 \in Nat /\ Many(MaxCorrections + 1) \in Nat
    BY ManyMore
  <2>9. /\ Unsaved(j)' \in Nat /\ Unsaved(j)' <= MaxAnswer
        /\ now # "final" \/ left = MaxCorrections \/ j \in void' => Unsaved(j)' = 0
    BY <2>1, <2>2, <2>3, <2>6, <2>7, <2>8 DEF AttemptKept, Unsaved
  <2>10. Owing(j)' = IF j \in void' THEN 0 ELSE Many(Rest(now, left)) + Unsaved(j)'
    BY <2>3 DEF Owing
  <2>11. CASE now = "final" /\ left # MaxCorrections
    <3>1. left \in Nat /\ left + 1 \in Nat /\ left + 1 <= MaxCorrections + 1
      BY <2>4, <2>8, <2>11
    <3>2. Many(left) \in Nat /\ Many(left + 1) = Many(left) + MaxAnswer
      BY <3>1, ManyMore
    <3>3. Many(left + 1) <= Many(MaxCorrections + 1)
      BY <2>8, <3>1, ManyMore
    <3>4. Rest(now, left) = left
      BY <2>11 DEF Rest
    <3> QED
      BY <2>8, <2>9, <2>10, <3>2, <3>3, <3>4
  <2>12. CASE now # "final" \/ left = MaxCorrections
    BY <2>5, <2>8, <2>9, <2>10, <2>12
  <2> QED
    BY <2>9, <2>11, <2>12
<1>11. daily' + Total(Unseen, Spenders)' = Total(spent, Spenders)'
  <2>1. PICK f, g : f = Unseen /\ g = Unseen'
    OBVIOUS
  <2>2. /\ f = [k \in Spenders |-> late[k] + Unsaved(k)]
        /\ g = [k \in Spenders |-> late'[k] + Unsaved(k)']
    BY <2>1 DEF Unseen
  <2>3. \A k \in Spenders : spent[k] \in Nat /\ late[k] \in Nat /\ spent'[k] \in Nat /\ late'[k] \in Nat
    BY <1>2 DEF BudgetTypeOK
  <2>4. \A k \in Spenders : f[k] \in Nat /\ g[k] \in Nat
    BY <1>9, <1>10, <2>2, <2>3
  <2>5. \A k \in Spenders \ {j} : g[k] = f[k] /\ spent'[k] = spent[k]
    BY <1>3, <2>2
  <2>6. IsFiniteSet(Spenders) /\ daily \in Nat
    BY <1>2, BudgetTypes
  <2>7. Total(g, Spenders) = Total(f, Spenders) + g[j] - f[j]
    BY <2>4, <2>5, <2>6, TotalChanges
  <2>8. Total(spent', Spenders) = Total(spent, Spenders) + spent'[j] - spent[j]
    BY <2>3, <2>5, <2>6, TotalChanges
  <2>9. Total(f, Spenders) \in Nat /\ Total(spent, Spenders) \in Nat
    BY <2>3, <2>4, <2>6, UnitsFinite
  <2>10. daily + Total(f, Spenders) = Total(spent, Spenders)
    BY <2>1 DEF BudgetInv
  <2>11. daily' + g[j] + spent[j] = daily + f[j] + spent'[j] /\ daily' \in Nat
    BY <1>9, <1>10, <2>2, <2>3, <2>6 DEF BudgetTypeOK
  <2>12. daily' + Total(g, Spenders) = Total(spent', Spenders)
    BY <2>3, <2>4, <2>6, <2>7, <2>8, <2>9, <2>10, <2>11
  <2>13. Total(Unseen, Spenders)' = Total(g, Spenders) /\ Total(spent, Spenders)' = Total(spent', Spenders)
    BY <2>1 DEF Total, Units
  <2> QED
    BY <2>12, <2>13
<1>12. QuotaKept'
  <2>1. PICK f, g : f = Owings /\ g = Owings'
    OBVIOUS
  <2>2. /\ f = [k \in Spenders |-> Owing(k)]
        /\ g = [k \in Spenders |-> Owing(k)']
    BY <2>1 DEF Owings
  <2>3. \A k \in Spenders : f[k] \in Nat /\ g[k] \in Nat /\ g[k] <= Many(MaxCorrections + 1)
    BY <1>9, <1>10, <2>2
  <2>4. /\ IsFiniteSet(Spenders) /\ daily \in Nat /\ daily' \in Nat /\ DailyQuota \in Nat
        /\ Cardinality(Spenders) \in Nat
    BY <1>2, BudgetTypes DEF BudgetTypeOK
  <2>5. PICK most : most = Cardinality(Spenders) * Many(MaxCorrections + 1)
    OBVIOUS
  <2>6. most \in Nat /\ Many(MaxCorrections + 1) \in Nat
    <3>1. MaxCorrections + 1 \in Nat
      BY ManyMore
    <3>2. Many(MaxCorrections + 1) \in Nat
      BY <3>1, ManyMore
    <3> QED
      BY <2>4, <2>5, <3>2, TimesMore
  <2>7. CASE daily' < DailyQuota
    <3>1. PICK h : h = [k \in Spenders |-> Many(MaxCorrections + 1)]
      OBVIOUS
    <3>2. \A k \in Spenders : h[k] = Many(MaxCorrections + 1) /\ h[k] \in Nat
      BY <2>6, <3>1
    <3>3. Total(h, Spenders) = most
      BY <2>4, <2>5, <2>6, <3>2, TotalConstant
    <3>4. Total(g, Spenders) <= Total(h, Spenders)
      BY <2>3, <2>4, <3>2, TotalBelow
    <3>5. Total(g, Spenders) \in Nat
      BY <2>3, <2>4, UnitsFinite
    <3>6. daily' + Total(g, Spenders) < DailyQuota + most
      BY <2>4, <2>6, <2>7, <3>3, <3>4, <3>5
    <3> QED
      BY <2>1, <2>5, <3>6 DEF QuotaKept, Total, Units
  <2>8. CASE daily' + Owing(j)' <= daily + Owing(j)
    <3>1. \A k \in Spenders \ {j} : g[k] = f[k]
      BY <1>3, <2>2
    <3>2. Total(g, Spenders) = Total(f, Spenders) + g[j] - f[j]
      BY <2>3, <2>4, <3>1, TotalChanges
    <3>3. Total(f, Spenders) \in Nat
      BY <2>3, <2>4, UnitsFinite
    <3>4. daily + Total(f, Spenders) < DailyQuota + most
      BY <2>1, <2>5 DEF BudgetInv, QuotaKept
    <3>5. f[j] = Owing(j) /\ g[j] = Owing(j)' /\ f[j] \in Nat /\ g[j] \in Nat
      BY <2>2, <2>3
    <3>6. daily' + Total(g, Spenders) < DailyQuota + most
      BY <2>4, <2>6, <2>8, <3>2, <3>3, <3>4, <3>5
    <3> QED
      BY <2>1, <2>5, <3>6 DEF QuotaKept, Total, Units
  <2> QED
    BY <2>7, <2>8
<1> QED
  BY <1>4, <1>7, <1>8, <1>11, <1>12 DEF BudgetInv

\* What was counted before nothing new was: counting it again changes nothing.
LEMMA CountAgain ==
  ASSUME BudgetInv, NEW j \in Spenders, stage[j] \in Executing \cup {"head"}, stage[j] # "final",
         UNCHANGED countVars
  PROVE  Count(j, 0, Sum(j))
<1>1. /\ counted' = counted /\ daily' = daily /\ spent' = spent /\ late' = late /\ dropped' = dropped
      /\ BudgetTypeOK /\ AttemptKept(j)
  BY DEF BudgetInv, JobKept, countVars
<1>2. /\ counted \in [Spenders -> Nat] /\ spent \in [Spenders -> Nat] /\ late \in [Spenders -> Nat]
      /\ counted[j] \in Nat /\ spent[j] \in Nat /\ late[j] \in Nat
  BY <1>1, BudgetTypes
<1>3. spent' = [spent EXCEPT ![j] = @ + 0] /\ late' = [late EXCEPT ![j] = @ + 0]
  BY <1>1, <1>2
<1>4. CASE j \in void
  BY <1>1, <1>3, <1>4 DEF Count
<1>5. CASE j \notin void
  <2>1. Sum(j) = counted[j] /\ Sum(j) + 0 = Sum(j)
    BY <1>1, <1>2, <1>5 DEF AttemptKept
  <2>2. counted' = [counted EXCEPT ![j] = Sum(j)] /\ ~(Sum(j) > counted[j]) /\ ~(Sum(j) < Sum(j))
    BY <1>1, <1>2, <2>1
  <2> QED
    BY <1>1, <1>3, <1>5, <2>1, <2>2 DEF Count
<1> QED
  BY <1>4, <1>5

\* What Count does to the row of a job, of the day and of the accounts.
LEMMA CountIs ==
  ASSUME BudgetInv, NEW j \in Spenders, stage[j] \in Executing \cup {"head"},
         NEW took \in Nat, NEW kept \in Nat, kept <= Sum(j) + took, Count(j, took, kept)
  PROVE  /\ counted' \in [Spenders -> Nat] /\ spent' \in [Spenders -> Nat] /\ late' \in [Spenders -> Nat]
         /\ daily' \in Nat /\ dropped' \subseteq Spenders
         /\ \A k \in Spenders \ {j} : /\ counted'[k] = counted[k] /\ spent'[k] = spent[k] /\ late'[k] = late[k]
                                     /\ (k \in dropped' <=> k \in dropped)
         /\ spent'[j] = spent[j] + took
         /\ j \in void => /\ counted'[j] = counted[j] /\ daily' = daily /\ late'[j] = late[j] + took
                          /\ dropped' = dropped
         /\ j \notin void => /\ counted'[j] = kept /\ daily' = daily + took + Unsaved(j) /\ late'[j] = late[j]
                             /\ j \notin dropped' => j \notin dropped /\ kept = Sum(j) + took
<1>1. BudgetTypeOK /\ AttemptKept(j)
  BY DEF BudgetInv, JobKept
<1>2. /\ counted \in [Spenders -> Nat] /\ spent \in [Spenders -> Nat] /\ late \in [Spenders -> Nat]
      /\ counted[j] \in Nat /\ spent[j] \in Nat /\ late[j] \in Nat /\ daily \in Nat /\ dropped \subseteq Spenders
  BY <1>1, BudgetTypes DEF BudgetTypeOK
<1>3. spent' = [spent EXCEPT ![j] = @ + took]
  BY DEF Count
<1>4. CASE j \in void
  <2>1. late' = [late EXCEPT ![j] = @ + took] /\ counted' = counted /\ daily' = daily /\ dropped' = dropped
    BY <1>4 DEF Count
  <2> QED
    BY <1>2, <1>3, <1>4, <2>1
<1>5. CASE j \notin void
  <2>1. PICK sum : sum = Sum(j) + took
    OBVIOUS
  <2>2. Sum(j) = counted[j] + Unsaved(j) /\ Unsaved(j) \in Nat
    BY <1>1, <1>5, UnsavedIs
  <2>3. sum \in Nat /\ sum >= counted[j] /\ sum - counted[j] = took + Unsaved(j)
    BY <1>2, <2>1, <2>2
  <2>4. /\ counted' = [counted EXCEPT ![j] = kept] /\ late' = late
        /\ daily' = IF sum > counted[j] THEN daily + sum - counted[j] ELSE daily
        /\ dropped' = IF kept < sum THEN dropped \cup {j} ELSE dropped
    BY <1>5, <2>1 DEF Count
  <2>5. daily' = daily + took + Unsaved(j)
    BY <1>2, <2>2, <2>3, <2>4
  <2>6. daily' \in Nat
    BY <1>2, <2>2, <2>5
  <2>7. j \notin dropped' => j \notin dropped /\ kept = sum
    BY <2>1, <2>3, <2>4
  <2> QED
    BY <1>2, <1>3, <1>5, <2>1, <2>4, <2>5, <2>6, <2>7
<1> QED
  BY <1>4, <1>5

\* A step of an attempt that counts what an answer took, if any, and what was not saved.
LEMMA CountStep ==
  ASSUME BudgetInv, NEW j \in Spenders, stage[j] \in Executing \cup {"head"},
         NEW took \in 0 .. MaxAnswer, NEW kept \in Nat, kept <= Sum(j) + took, Count(j, took, kept),
         NEW there \in Stages \ {"absent"}, Goto(j, there),
         NEW p \in PassType, pass' = [pass EXCEPT ![j] = p], there \notin Executing \cup {"head"} => p = NoPass,
         there = "correcting" => p.left < MaxCorrections,
         NEW n \in Nat, called' = [called EXCEPT ![j] = n], n + Reserved(j, "calls") <= limit[j].calls,
         there = "call" => n + Reserved(j, "calls") < limit[j].calls,
         claimed' = claimed, retried' \in [Spenders -> Nat], limit' = limit, void' = void,
         j \in void =>
           /\ there \in Executing \cup {"head", "cancelled"}
           /\ took + Waste(there, p.left) <= Waste(stage[j], pass[j].left),
         j \notin void =>
           /\ there \in Executing \cup {"head"} => p.base + p.tokens = kept
           /\ \/ took + Room(there, p.left) <= Room(stage[j], pass[j].left)
              \/ kept + Reserved(j, "tokens") + Room(there, p.left) <= limit[j].tokens + Overshoot
           /\ \/ took + Many(Rest(there, p.left)) <= Many(Rest(stage[j], pass[j].left))
              \/ daily' < DailyQuota
  PROVE  BudgetInv'
<1>1. BudgetTypeOK /\ JobKept(j) /\ AttemptKept(j) /\ LimitKept(j) /\ AnswersKept(j)
  BY DEF BudgetInv, JobKept
<1>2. stage[j] # "absent"
  BY DEF Executing
<1>3. stage' = [stage EXCEPT ![j] = there]
  BY DEF Goto
<1>4. took \in Nat
  BY ManyMore
<1>5. /\ counted' \in [Spenders -> Nat] /\ spent' \in [Spenders -> Nat] /\ late' \in [Spenders -> Nat]
      /\ daily' \in Nat /\ dropped' \subseteq Spenders
      /\ \A k \in Spenders \ {j} : /\ counted'[k] = counted[k] /\ spent'[k] = spent[k] /\ late'[k] = late[k]
                                  /\ (k \in dropped' <=> k \in dropped)
      /\ spent'[j] = spent[j] + took
      /\ j \in void => /\ counted'[j] = counted[j] /\ daily' = daily /\ late'[j] = late[j] + took
                       /\ dropped' = dropped
      /\ j \notin void => /\ counted'[j] = kept /\ daily' = daily + took + Unsaved(j) /\ late'[j] = late[j]
                          /\ j \notin dropped' => j \notin dropped /\ kept = Sum(j) + took
  BY <1>4, CountIs
<1>6. /\ stage \in [Spenders -> Stages] /\ pass \in [Spenders -> PassType] /\ called \in [Spenders -> Nat]
      /\ counted[j] \in Nat /\ spent[j] \in Nat /\ late[j] \in Nat /\ claimed[j] \in Nat /\ daily \in Nat
      /\ limit[j].tokens \in Nat /\ limit[j].calls \in Nat
      /\ pass[j].left \in 0 .. MaxCorrections /\ stage[j] \in Stages
  BY <1>1, BudgetTypes
<1>7. /\ stage' \in [Spenders -> Stages] /\ pass' \in [Spenders -> PassType] /\ called' \in [Spenders -> Nat]
      /\ stage'[j] = there /\ pass'[j] = p /\ called'[j] = n
      /\ \A k \in Spenders \ {j} : stage'[k] = stage[k] /\ pass'[k] = pass[k] /\ called'[k] = called[k]
  BY <1>3, <1>6
<1>8. BudgetTypeOK'
  <2>1. \A k \in Spenders : pass'[k] # NoPass => stage'[k] \in Executing \cup {"head"}
    BY <1>1, <1>7 DEF BudgetTypeOK
  <2>2. claimed' \in [Spenders -> Nat] /\ limit' \in [Spenders -> {NoLimit, MasterLimit} \cup Amounts]
        /\ void' \subseteq Spenders
    BY <1>1 DEF BudgetTypeOK
  <2> QED
    BY <1>5, <1>7, <2>1, <2>2 DEF BudgetTypeOK, Stages, AtRest, PassType
<1>9. /\ Unsaved(j) \in Nat /\ (j \in void => Unsaved(j) = 0)
      /\ j \notin void => Sum(j) = counted[j] + Unsaved(j)
  BY <1>1, UnsavedIs
<1>10. Sum(j)' = p.base + p.tokens /\ p.left \in 0 .. MaxCorrections /\ p.base + p.tokens \in Nat
  BY <1>7 DEF Sum, PassType
<1>11. Unsaved(j)' = 0
  <2>1. there \in {"final", "correcting"} => there \in Executing
    BY DEF Executing
  <2> QED
    BY <1>5, <1>7, <1>10, <2>1 DEF Unsaved
<1>12. /\ Many(Rest(there, p.left)) \in Nat /\ Room(there, p.left) \in Nat /\ Waste(there, p.left) \in Nat
       /\ Many(Rest(stage[j], pass[j].left)) \in Nat /\ Room(stage[j], pass[j].left) \in Nat
       /\ Waste(stage[j], pass[j].left) \in Nat
       /\ MaxAnswer \in Nat /\ Overshoot \in Nat /\ Unstopped \in Nat
  <2>1. stage[j] = "correcting" => pass[j].left < MaxCorrections
    BY <1>1 DEF AttemptKept
  <2> QED
    BY <1>6, <1>10, <2>1, RestFacts, ManyMore
<1>13. \A what \in {"tokens", "calls"} : Reserved(j, what)' = Reserved(j, what) /\ Reserved(j, what) \in Nat
  <2>1. \A what \in {"tokens", "calls"} : Reserved(j, what)' = Reserved(j, what)
    BY DEF Reserved, Shares, Total, Units
  <2> QED
    BY <1>1, <2>1, ReservedIsNat
<1>14. AttemptKept(j)'
  BY <1>5, <1>7, <1>10, <1>12 DEF AttemptKept
<1>15. LimitKept(j)'
  <2>1. counted'[j] + Reserved(j, "tokens") <= limit[j].tokens + Overshoot
        /\ (j \notin void => counted'[j] + Reserved(j, "tokens") + Room(there, p.left) <= limit[j].tokens + Overshoot)
    <3>1. CASE j \in void
      BY <1>1, <1>5, <1>9, <3>1 DEF LimitKept
    <3>2. CASE j \notin void
      <4>1. counted[j] + Unsaved(j) + Reserved(j, "tokens") + Room(stage[j], pass[j].left) <= limit[j].tokens + Overshoot
        BY <1>1, <3>2 DEF LimitKept
      <4>2. counted'[j] = kept /\ kept <= counted[j] + Unsaved(j) + took
        BY <1>5, <1>9, <3>2
      <4>3. counted'[j] + Reserved(j, "tokens") + Room(there, p.left) <= limit[j].tokens + Overshoot
        BY <1>4, <1>6, <1>9, <1>12, <1>13, <3>2, <4>1, <4>2
      <4> QED
        BY <1>6, <1>12, <1>13, <3>2, <4>2, <4>3
    <3> QED
      BY <3>1, <3>2
  <2>2. counted'[j] + Unsaved(j)' + Reserved(j, "tokens") = counted'[j] + Reserved(j, "tokens")
    BY <1>5, <1>11, <1>13
  <2> QED
    BY <1>7, <1>13, <2>1, <2>2 DEF LimitKept
<1>16. AnswersKept(j)'
  <2>1. /\ j \notin dropped => counted[j] + late[j] + Unsaved(j) = spent[j]
        /\ late[j] + Risk(j) <= claimed[j] * Unstopped /\ late[j] + Unsaved(j) <= spent[j]
    BY <1>1 DEF AnswersKept
  <2>2. late'[j] <= spent'[j] /\ (j \notin dropped' => counted'[j] + late'[j] = spent'[j])
    BY <1>4, <1>5, <1>6, <1>9, <2>1
  <2>3. late'[j] + Risk(j)' <= claimed[j] * Unstopped
    <3>1. PICK all : all = claimed[j] * Unstopped
      OBVIOUS
    <3>2. all \in Nat
      BY <1>6, <1>12, <3>1, TimesMore
    <3>3. CASE j \in void
      <4>1. Risk(j) = Waste(stage[j], pass[j].left) /\ Risk(j)' <= Waste(there, p.left) /\ Risk(j)' \in Nat
        BY <1>7, <1>12, <3>3 DEF Risk
      <4> QED
        BY <1>4, <1>5, <1>6, <1>12, <2>1, <3>1, <3>2, <3>3, <4>1
    <3>4. CASE j \notin void
      <4>1. Risk(j) = Unstopped /\ Risk(j)' \in Nat /\ Risk(j)' <= Unstopped
        BY <1>7, <1>12, <3>4 DEF Risk
      <4> QED
        BY <1>5, <1>6, <1>12, <2>1, <3>1, <3>2, <3>4, <4>1
    <3> QED
      BY <3>3, <3>4
  <2>4. counted'[j] + late'[j] + Unsaved(j)' = counted'[j] + late'[j] /\ late'[j] + Unsaved(j)' = late'[j]
    BY <1>5, <1>11
  <2> QED
    BY <2>2, <2>3, <2>4 DEF AnswersKept
<1>17. daily' + late'[j] + Unsaved(j)' + spent[j] = daily + late[j] + Unsaved(j) + spent'[j]
  BY <1>4, <1>5, <1>6, <1>9, <1>11
<1>18. daily' + Owing(j)' <= daily + Owing(j) \/ daily' < DailyQuota
  <2>1. Owing(j)' = IF j \in void THEN 0 ELSE Many(Rest(there, p.left))
    BY <1>7, <1>11, <1>12 DEF Owing
  <2>2. Owing(j) = IF j \in void THEN 0 ELSE Many(Rest(stage[j], pass[j].left)) + Unsaved(j)
    BY DEF Owing
  <2>3. CASE j \in void
    BY <1>5, <1>6, <2>1, <2>2, <2>3
  <2>4. CASE j \notin void /\ took + Many(Rest(there, p.left)) <= Many(Rest(stage[j], pass[j].left))
    <3>1. daily' = daily + took + Unsaved(j)
      BY <1>5, <2>4
    <3> QED
      BY <1>4, <1>6, <1>9, <1>12, <2>1, <2>2, <2>4, <3>1
  <2> QED
    BY <2>3, <2>4
<1> QED
  BY <1>2, <1>5, <1>7, <1>8, <1>14, <1>15, <1>16, <1>17, <1>18, SpenderStep DEF JobKept

LEMMA StageKinds ==
  /\ Executing \cup {"head"} \subseteq Stages \ {"absent"}
  /\ AtRest \subseteq Stages /\ AtRest \cap (Executing \cup {"head"}) = {} /\ "head" \notin Executing
  /\ NoPass \in PassType /\ NoPass.left = 0 /\ NoPass.base = 0 /\ NoPass.tokens = 0
<1>1. NoPass \in PassType
  <2>1. 0 \in 0 .. MaxCorrections
    BY ManyMore
  <2> QED
    BY <2>1 DEF NoPass, NoLimit, PassType
<1> QED
  BY <1>1 DEF Stages, AtRest, Executing, NoPass

LEMMA SumIsNat ==
  ASSUME BudgetTypeOK, NEW j \in Spenders
  PROVE  /\ Sum(j) \in Nat /\ Sum(j) <= Sum(j) + 0 /\ 0 \in 0 .. MaxAnswer
         /\ pass[j] \in PassType /\ pass[j].base \in Nat /\ pass[j].tokens \in Nat
<1>1. pass[j] \in PassType /\ pass[j].base \in Nat /\ pass[j].tokens \in Nat
  BY BudgetTypes
<1>2. Sum(j) \in Nat
  BY <1>1 DEF Sum
<1>3. 0 \in 0 .. MaxAnswer
  BY ManyMore
<1> QED
  BY <1>1, <1>2, <1>3

\* A step that makes no call leaves the calls where they may be.
LEMMA RowsStay ==
  ASSUME BudgetInv, NEW j \in Spenders, called' = called
  PROVE  /\ called[j] \in Nat /\ called' = [called EXCEPT ![j] = called[j]]
         /\ called[j] + Reserved(j, "calls") <= limit[j].calls
<1>1. BudgetTypeOK /\ LimitKept(j)
  BY DEF BudgetInv, JobKept
<1> QED
  BY <1>1, BudgetTypes DEF LimitKept

\* An attempt ends, with what it has counted or less in its row.
LEMMA PassEndStep ==
  ASSUME BudgetInv, NEW j \in Spenders, stage[j] \in Executing \cup {"head"},
         NEW took \in 0 .. MaxAnswer, took = 0 \/ stage[j] = "asked",
         NEW kept \in Nat, kept <= Sum(j) + took, Count(j, took, kept),
         NEW where \in AtRest \ {"absent"}, EndPass(j, where), UNCHANGED rowVars
  PROVE  BudgetInv'
<1>1. BudgetTypeOK /\ AttemptKept(j)
  BY DEF BudgetInv, JobKept
<1>2. PICK there : there = IF j \in void THEN "cancelled" ELSE where
  OBVIOUS
<1>3. /\ there \in AtRest \ {"absent"} /\ there \in Stages \ {"absent"} /\ there \notin Executing \cup {"head"}
      /\ (j \in void => there = "cancelled")
  BY <1>2, StageKinds DEF AtRest
<1>4. Goto(j, there) /\ pass' = [pass EXCEPT ![j] = NoPass] /\ NoPass \in PassType /\ NoPass.left \in 0 .. MaxCorrections
  BY <1>2, StageKinds DEF EndPass, PassType
<1>5. there \notin {"asked", "final", "correcting", "call"}
  BY <1>3 DEF AtRest
<1>6. /\ Many(Rest(there, NoPass.left)) = 0 /\ Room(there, NoPass.left) = 0 /\ Waste(there, NoPass.left) = 0
  BY <1>4, <1>5, RestFacts
<1>7. /\ pass[j].left \in 0 .. MaxCorrections /\ (stage[j] = "correcting" => pass[j].left < MaxCorrections)
  BY <1>1, BudgetTypes DEF AttemptKept
<1>8. /\ took <= Waste(stage[j], pass[j].left) /\ took <= Room(stage[j], pass[j].left)
      /\ took <= Many(Rest(stage[j], pass[j].left))
  <2>1. /\ Many(Rest(stage[j], pass[j].left)) \in Nat /\ Room(stage[j], pass[j].left) \in Nat
        /\ Waste(stage[j], pass[j].left) \in Nat
    BY <1>7, RestFacts
  <2>2. MaxAnswer <= Many(MaxCorrections + 1) /\ MaxAnswer <= Overshoot + 1 /\ MaxAnswer \in Nat /\ took \in Nat
        /\ took <= MaxAnswer
    <3>1. MaxCorrections \in Nat /\ Many(MaxCorrections) \in Nat
          /\ Many(MaxCorrections + 1) = Many(MaxCorrections) + MaxAnswer /\ MaxAnswer \in Nat
      BY ManyMore
    <3> QED
      BY <3>1, ManyMore
  <2>3. CASE took = 0
    BY <2>1, <2>3
  <2>4. CASE stage[j] = "asked"
    <3>1. Many(MaxCorrections + 1) \in Nat /\ Overshoot + 1 \in Nat
      BY ManyMore
    <3> QED
      BY <2>2, <2>4, <3>1 DEF Rest, Room, Waste
  <2> QED
    BY <2>3, <2>4
<1>9. /\ claimed' = claimed /\ limit' = limit /\ void' = void /\ called' = called /\ retried' \in [Spenders -> Nat]
  BY <1>1 DEF rowVars, BudgetTypeOK
<1>10. /\ took + Waste(there, NoPass.left) <= Waste(stage[j], pass[j].left)
       /\ took + Room(there, NoPass.left) <= Room(stage[j], pass[j].left)
       /\ took + Many(Rest(there, NoPass.left)) <= Many(Rest(stage[j], pass[j].left))
  BY <1>6, <1>8
<1> QED
  BY <1>3, <1>4, <1>5, <1>9, <1>10, RowsStay, CountStep

\* An attempt goes on, after it has counted what it had.
LEMMA PassGoesOn ==
  ASSUME BudgetInv, NEW j \in Spenders, stage[j] \in Executing \cup {"head"}, Count(j, 0, Sum(j)),
         NEW there \in Executing \cup {"head"}, Goto(j, there),
         NEW p \in PassType, pass' = [pass EXCEPT ![j] = p], p.base + p.tokens = Sum(j),
         there = "correcting" => p.left < MaxCorrections,
         claimed' = claimed, retried' \in [Spenders -> Nat], limit' = limit, void' = void, called' = called,
         there = "call" => called[j] + Reserved(j, "calls") < limit[j].calls,
         Rest(there, p.left) <= Rest(stage[j], pass[j].left), there # "asked", stage[j] = "asked" => there = "head"
  PROVE  BudgetInv'
<1>1. BudgetTypeOK /\ AttemptKept(j)
  BY DEF BudgetInv, JobKept
<1>2. Sum(j) \in Nat /\ 0 \in 0 .. MaxAnswer /\ Sum(j) <= Sum(j) + 0 /\ limit[j].tokens \in Nat
      /\ Reserved(j, "tokens") \in Nat
  <2>1. pass[j].base \in Nat /\ pass[j].tokens \in Nat
    BY <1>1, BudgetTypes
  <2>2. Sum(j) \in Nat
    BY <2>1 DEF Sum
  <2> QED
    <3>1. limit[j].tokens \in Nat /\ Reserved(j, "tokens") \in Nat /\ MaxAnswer \in Nat
      BY <1>1, BudgetTypes, ReservedIsNat, ManyMore
    <3> QED
      BY <2>2, <3>1
<1>3. there \in Stages \ {"absent"}
  BY StageKinds
<1>4. /\ pass[j].left \in 0 .. MaxCorrections /\ (stage[j] = "correcting" => pass[j].left < MaxCorrections)
      /\ p.left \in 0 .. MaxCorrections
  BY <1>1, BudgetTypes DEF AttemptKept, PassType
<1>5. /\ Rest(there, p.left) \in Nat /\ Rest(stage[j], pass[j].left) \in Nat
      /\ Many(Rest(there, p.left)) \in Nat /\ Room(there, p.left) \in Nat /\ Waste(there, p.left) \in Nat
      /\ Many(Rest(stage[j], pass[j].left)) \in Nat /\ Room(stage[j], pass[j].left) \in Nat
      /\ Waste(stage[j], pass[j].left) \in Nat
  BY <1>4, RestFacts
<1>6. Many(Rest(there, p.left)) <= Many(Rest(stage[j], pass[j].left))
  BY <1>5, ManyMore
<1>7. there = "head" => Room(there, p.left) = 0 /\ Waste(there, p.left) = 0
  BY <1>4, RestFacts
<1>8. /\ 0 + Room(there, p.left) <= Room(stage[j], pass[j].left)
      /\ 0 + Waste(there, p.left) <= Waste(stage[j], pass[j].left)
      /\ 0 + Many(Rest(there, p.left)) <= Many(Rest(stage[j], pass[j].left))
  <2>1. CASE stage[j] = "asked"
    BY <1>5, <1>6, <1>7, <2>1
  <2>2. CASE stage[j] # "asked"
    BY <1>5, <1>6, <2>2 DEF Room, Waste
  <2> QED
    BY <2>1, <2>2
<1>9. j \in void => there \in Executing \cup {"head", "cancelled"}
  OBVIOUS
<1> QED
  BY <1>2, <1>3, <1>8, <1>9, RowsStay, CountStep

\* The model is asked while the job and the day have a token left.
LEMMA Asks ==
  ASSUME BudgetInv, NEW j \in Spenders, stage[j] \in Executing \cup {"head"}, j \notin void, Count(j, 0, Sum(j)),
         NEW there \in Executing \cup {"head"}, there # "call", there # "correcting", Goto(j, there),
         NEW p \in PassType, pass' = [pass EXCEPT ![j] = p], p.base + p.tokens = Sum(j),
         claimed' = claimed, retried' \in [Spenders -> Nat], limit' = limit, void' = void, called' = called,
         daily' < DailyQuota,
         Sum(j) + Reserved(j, "tokens") + Room(there, p.left) <= limit[j].tokens + Overshoot
  PROVE  BudgetInv'
<1>1. BudgetTypeOK
  BY DEF BudgetInv
<1>2. Sum(j) \in Nat /\ 0 \in 0 .. MaxAnswer /\ Sum(j) <= Sum(j) + 0
  BY <1>1, SumIsNat
<1>3. there \in Stages \ {"absent"}
  BY StageKinds
<1> QED
  BY <1>2, <1>3, RowsStay, CountStep

\* Where nobody executes, a job moves on without a change of what it has used.
LEMMA RestsOn ==
  ASSUME BudgetInv, NEW j \in Spenders, NEW there \in AtRest \ {"absent", "cancelled"},
         stage[j] \in AtRest \ {"absent", "cancelled"},
         Stay(j, there), UNCHANGED <<rowVars, countVars>>
  PROVE  BudgetInv'
<1>1. BudgetTypeOK /\ JobKept(j) /\ AttemptKept(j) /\ LimitKept(j) /\ AnswersKept(j)
  BY DEF BudgetInv, JobKept
<1>2. /\ stage' = [stage EXCEPT ![j] = there] /\ pass' = pass /\ limit' = limit /\ void' = void
      /\ called' = called /\ claimed' = claimed /\ retried' = retried /\ counted' = counted
      /\ daily' = daily /\ spent' = spent /\ late' = late /\ dropped' = dropped
  BY DEF Stay, Goto, rowVars, countVars
<1>3. /\ stage \in [Spenders -> Stages] /\ stage' \in [Spenders -> Stages] /\ stage'[j] = there
      /\ \A k \in Spenders \ {j} : stage'[k] = stage[k]
  BY <1>1, <1>2, StageKinds, BudgetTypes
<1>4. /\ stage[j] \notin Executing \cup {"head"} /\ there \notin Executing \cup {"head"}
      /\ stage[j] \notin {"asked", "final", "correcting", "call", "absent", "cancelled"}
      /\ there \notin {"asked", "final", "correcting", "call", "absent", "cancelled"}
  BY StageKinds DEF AtRest
<1>5. BudgetTypeOK'
  <2>1. \A k \in Spenders : pass'[k] # NoPass => stage'[k] \in Executing \cup {"head"}
    BY <1>1, <1>2, <1>3, <1>4 DEF BudgetTypeOK
  <2> QED
    BY <1>1, <1>2, <1>3, <2>1 DEF BudgetTypeOK, Stages, AtRest
<1>6. j \notin void
  BY <1>1, <1>4 DEF AttemptKept
<1>7. \A what \in {"tokens", "calls"} : Reserved(j, what)' = Reserved(j, what)
  BY <1>2 DEF Reserved, Shares, Total, Units
<1>8. /\ Unsaved(j) = 0 /\ Unsaved(j)' = 0 /\ Risk(j) = 0 /\ Risk(j)' = 0
      /\ Rest(there, pass[j].left) = 0 /\ Rest(stage[j], pass[j].left) = 0
      /\ Room(there, pass[j].left) = Room(stage[j], pass[j].left)
  BY <1>2, <1>3, <1>4 DEF Unsaved, Risk, Rest, Room
<1>9. Owing(j)' = Owing(j)
  BY <1>2, <1>3, <1>8 DEF Owing
<1>10. AttemptKept(j)'
  BY <1>2, <1>3, <1>4, <1>6 DEF AttemptKept
<1>11. LimitKept(j)'
  BY <1>1, <1>2, <1>3, <1>4, <1>7, <1>8 DEF LimitKept
<1>12. AnswersKept(j)'
  BY <1>1, <1>2, <1>8 DEF AnswersKept
<1>13. daily \in Nat /\ spent[j] \in Nat /\ late[j] \in Nat /\ Owing(j) \in Nat
  BY <1>1, BudgetTypes, OwingIs
<1>14. daily' + late'[j] + Unsaved(j)' + spent[j] = daily + late[j] + Unsaved(j) + spent'[j]
  BY <1>2, <1>8, <1>13
<1>15. daily' + Owing(j)' <= daily + Owing(j)
  BY <1>2, <1>9, <1>13
<1> QED
  BY <1>2, <1>3, <1>4, <1>5, <1>10, <1>11, <1>12, <1>14, <1>15, SpenderStep DEF JobKept

\* The beginning of an attempt.
LEMMA ClaimsStep ==
  ASSUME BudgetInv, NEW j \in Spenders, ClaimSpender(j)
  PROVE  BudgetInv'
<1>1. BudgetTypeOK /\ JobKept(j) /\ AttemptKept(j) /\ LimitKept(j) /\ AnswersKept(j)
  BY DEF BudgetInv, JobKept
<1>2. PICK p : p = [NoPass EXCEPT !.base = counted[j]]
  OBVIOUS
<1>3. /\ stage[j] = "queued" /\ stage' = [stage EXCEPT ![j] = "head"] /\ pass' = [pass EXCEPT ![j] = p]
      /\ claimed' = [claimed EXCEPT ![j] = @ + 1] /\ limit' = limit /\ void' = void
      /\ called' = called /\ retried' = retried /\ counted' = counted /\ daily' = daily /\ spent' = spent
      /\ late' = late /\ dropped' = dropped /\ daily < DailyQuota
  BY <1>2 DEF ClaimSpender, At, Goto, countVars
<1>4. /\ stage \in [Spenders -> Stages] /\ pass \in [Spenders -> PassType] /\ claimed \in [Spenders -> Nat]
      /\ counted[j] \in Nat /\ spent[j] \in Nat /\ late[j] \in Nat /\ claimed[j] \in Nat /\ daily \in Nat
  BY <1>1, BudgetTypes
<1>5. p \in PassType /\ p.base = counted[j] /\ p.tokens = 0 /\ p.left = 0
  <2>1. NoPass \in PassType /\ NoPass.left = 0 /\ NoPass.tokens = 0
    BY StageKinds
  <2> QED
    BY <1>2, <1>4, <2>1 DEF PassType
<1>6. /\ stage' \in [Spenders -> Stages] /\ pass' \in [Spenders -> PassType] /\ claimed' \in [Spenders -> Nat]
      /\ stage'[j] = "head" /\ pass'[j] = p /\ claimed'[j] = claimed[j] + 1
      /\ \A k \in Spenders \ {j} : stage'[k] = stage[k] /\ pass'[k] = pass[k] /\ claimed'[k] = claimed[k]
  BY <1>3, <1>4, <1>5, StageKinds
<1>7. BudgetTypeOK'
  <2>1. \A k \in Spenders : pass'[k] # NoPass => stage'[k] \in Executing \cup {"head"}
    BY <1>1, <1>6 DEF BudgetTypeOK
  <2> QED
    BY <1>1, <1>3, <1>6, <2>1 DEF BudgetTypeOK, Stages, AtRest, PassType
<1>8. j \notin void
  BY <1>1, <1>3 DEF AttemptKept, Executing
<1>9. \A what \in {"tokens", "calls"} : Reserved(j, what)' = Reserved(j, what)
  BY <1>3 DEF Reserved, Shares, Total, Units
<1>10. Sum(j)' = counted[j]
  BY <1>4, <1>5, <1>6 DEF Sum
<1>11. /\ Unsaved(j) = 0 /\ Unsaved(j)' = 0 /\ Risk(j) = 0 /\ Risk(j)' = Unstopped
       /\ Rest(stage[j], pass[j].left) = 0 /\ Rest("head", 0) = 0
  BY <1>3, <1>6, <1>8 DEF Unsaved, Risk, Rest, Executing
<1>12. Room("head", 0) = 0 /\ Room(stage[j], pass[j].left) = 0
  BY <1>3, <1>11, ManyMore DEF Room
<1>13. Owing(j)' = Owing(j)
  BY <1>3, <1>5, <1>6, <1>11 DEF Owing
<1>14. MaxAnswer \in Nat /\ MaxCorrections \in Nat /\ Unstopped \in Nat
  BY ManyMore
<1>15. AttemptKept(j)'
  BY <1>3, <1>4, <1>6, <1>8, <1>10, <1>14 DEF AttemptKept
<1>16. LimitKept(j)'
  BY <1>1, <1>3, <1>5, <1>6, <1>8, <1>9, <1>11, <1>12 DEF LimitKept
<1>17. AnswersKept(j)'
  <2>1. (claimed[j] + 1) * Unstopped = claimed[j] * Unstopped + Unstopped /\ claimed[j] * Unstopped \in Nat
    BY <1>4, <1>14, TimesMore
  <2>2. late[j] + 0 <= claimed[j] * Unstopped
    BY <1>1, <1>11 DEF AnswersKept
  <2>3. late[j] + Unstopped <= (claimed[j] + 1) * Unstopped
    BY <1>4, <1>14, <2>1, <2>2
  <2> QED
    BY <1>1, <1>3, <1>6, <1>11, <2>3 DEF AnswersKept
<1>18. daily' + late'[j] + Unsaved(j)' + spent[j] = daily + late[j] + Unsaved(j) + spent'[j]
  BY <1>3, <1>4, <1>11
<1>19. stage[j] # "absent" /\ stage'[j] # "absent" /\ daily' < DailyQuota
  BY <1>3, <1>6
<1> QED
  BY <1>3, <1>6, <1>7, <1>15, <1>16, <1>17, <1>18, <1>19, SpenderStep DEF JobKept

\* Before an attempt, a request and a call, the budget is looked at.
LEMMA BeginsStep ==
  ASSUME BudgetInv, NEW j \in Spenders, BeginPass(j)
  PROVE  BudgetInv'
<1>1. BudgetTypeOK /\ stage[j] = "head" /\ UNCHANGED <<rowVars, countVars>>
  BY DEF BeginPass, At, BudgetInv
<1>2. stage[j] \in Executing \cup {"head"} /\ stage[j] # "final" /\ Count(j, 0, Sum(j))
  BY <1>1, CountAgain
<1>3. /\ Sum(j) \in Nat /\ Sum(j) <= Sum(j) + 0 /\ 0 \in 0 .. MaxAnswer /\ pass[j] \in PassType
  BY <1>1, SumIsNat
<1>4. CASE EndPass(j, "blocked")
  <2>1. "blocked" \in AtRest \ {"absent"} /\ UNCHANGED rowVars
    BY <1>1 DEF AtRest
  <2> QED
    BY <1>2, <1>3, <1>4, <2>1, PassEndStep
<1>5. CASE ~EndPass(j, "blocked")
  <2>1. PICK left : left = [tokens |-> limit[j].tokens - pass[j].base - Reserved(j, "tokens"),
                            calls  |-> limit[j].calls - called[j] - Reserved(j, "calls")]
    OBVIOUS
  <2>2. ~(left.tokens <= 0) /\ ~(left.calls <= 0) /\ Goto(j, "turn") /\ pass' = [pass EXCEPT ![j].allowance = left]
    BY <1>5, <2>1 DEF BeginPass
  <2>3. left \in [tokens : Nat, calls : Nat]
    <3>1. /\ limit[j].tokens \in Nat /\ limit[j].calls \in Nat /\ pass[j].base \in Nat /\ called[j] \in Nat
          /\ Reserved(j, "tokens") \in Nat /\ Reserved(j, "calls") \in Nat
      BY <1>1, BudgetTypes, ReservedIsNat
    <3>2. left.tokens \in Int /\ left.calls \in Int
      BY <2>1, <3>1
    <3>3. left.tokens \in Nat /\ left.calls \in Nat
      BY <2>2, <3>2
    <3> QED
      BY <2>1, <3>3
  <2>4. PICK p : p = [pass[j] EXCEPT !.allowance = left]
    OBVIOUS
  <2>5. p \in PassType /\ p.base + p.tokens = Sum(j) /\ p.left = pass[j].left
    BY <1>3, <2>3, <2>4 DEF PassType, Sum
  <2>6. pass' = [pass EXCEPT ![j] = p]
    BY <2>2, <2>4
  <2>7. PICK there : there = "turn"
    OBVIOUS
  <2>8. /\ Rest(there, p.left) <= Rest(stage[j], pass[j].left) /\ there \in Executing \cup {"head"}
        /\ there \notin {"correcting", "call", "asked"} /\ stage[j] # "asked" /\ Goto(j, there)
    BY <1>1, <2>2, <2>7 DEF Rest, Executing
  <2>9. /\ claimed' = claimed /\ retried' \in [Spenders -> Nat] /\ limit' = limit /\ void' = void /\ called' = called
    BY <1>1 DEF rowVars, BudgetTypeOK
  <2> QED
    BY <1>2, <2>5, <2>6, <2>8, <2>9, PassGoesOn
<1> QED
  BY <1>4, <1>5

LEMMA ChecksStep ==
  ASSUME BudgetInv, NEW j \in Spenders, AskWithinBudget(j) \/ CallWithinBudget(j)
  PROVE  BudgetInv'
<1>1. BudgetTypeOK /\ AttemptKept(j) /\ stage[j] \in {"turn", "tool"} /\ UNCHANGED <<rowVars, countVars>>
  BY DEF AskWithinBudget, CallWithinBudget, At, BudgetInv, JobKept
<1>2. stage[j] \in Executing \cup {"head"} /\ stage[j] # "final" /\ Count(j, 0, Sum(j))
  <2>1. stage[j] \in Executing \cup {"head"} /\ stage[j] # "final"
    BY <1>1 DEF Executing
  <2> QED
    BY <1>1, <2>1, CountAgain
<1>3. /\ counted[j] \in Nat /\ called[j] \in Nat /\ limit[j].tokens \in Nat /\ limit[j].calls \in Nat
      /\ Reserved(j, "tokens") \in Nat /\ Reserved(j, "calls") \in Nat /\ daily \in Nat /\ DailyQuota \in Nat
      /\ pass[j] \in PassType /\ pass \in [Spenders -> PassType] /\ pass[j].base \in Nat /\ pass[j].tokens \in Nat
  BY <1>1, BudgetTypes, ReservedIsNat
<1>4. Sum(j) \in Nat /\ Sum(j) <= Sum(j) + 0 /\ 0 \in 0 .. MaxAnswer
  BY <1>1, SumIsNat
<1>5. /\ claimed' = claimed /\ retried' \in [Spenders -> Nat] /\ limit' = limit /\ void' = void /\ called' = called
      /\ daily' = daily
  BY <1>1 DEF rowVars, countVars, BudgetTypeOK
<1>6. CASE EndPass(j, "blocked")
  <2>1. "blocked" \in AtRest \ {"absent"} /\ UNCHANGED rowVars
    BY <1>1 DEF AtRest
  <2> QED
    BY <1>2, <1>4, <1>6, <2>1, PassEndStep
<1>7. CASE AskWithinBudget(j) /\ ~EndPass(j, "blocked")
  <2>1. Goto(j, "asked") /\ pass' = pass /\ ~Exhausted(j, 0, 1) /\ j \notin void
    BY <1>7 DEF AskWithinBudget, Stay
  <2>2. /\ ~(counted[j] + Reserved(j, "tokens") + 1 > limit[j].tokens) /\ ~(daily + 1 > DailyQuota)
    BY <2>1 DEF Exhausted
  <2>3. Sum(j) = counted[j]
    BY <1>1, <1>2, <2>1 DEF AttemptKept
  <2>4. Sum(j) + Reserved(j, "tokens") < limit[j].tokens /\ daily' < DailyQuota
    BY <1>3, <1>5, <2>2, <2>3
  <2>5. PICK there, p : there = "asked" /\ p = pass[j]
    OBVIOUS
  <2>6. /\ there \in Executing \cup {"head"} /\ there # "call" /\ there # "correcting" /\ Goto(j, there)
        /\ p \in PassType /\ pass' = [pass EXCEPT ![j] = p] /\ p.base + p.tokens = Sum(j)
    BY <1>3, <2>1, <2>5 DEF Sum, Executing
  <2>7. Sum(j) + Reserved(j, "tokens") + Room(there, p.left) <= limit[j].tokens + Overshoot
    <3>1. Room(there, p.left) = Overshoot + 1 /\ Overshoot \in Nat
      BY <2>5, ManyMore DEF Room
    <3> QED
      BY <1>3, <1>4, <2>4, <3>1
  <2>8. j \notin void /\ daily' < DailyQuota
    BY <2>1, <2>4
  <2> QED
    BY <1>2, <1>5, <2>6, <2>7, <2>8, Asks
<1>8. CASE CallWithinBudget(j) /\ ~EndPass(j, "blocked")
  <2>1. Goto(j, "call") /\ pass' = [pass EXCEPT ![j].calls = @ + 1] /\ ~Exhausted(j, 1, 0)
    BY <1>8 DEF CallWithinBudget
  <2>2. ~(called[j] + 1 + Reserved(j, "calls") > limit[j].calls)
    BY <2>1 DEF Exhausted
  <2>3. called[j] + Reserved(j, "calls") < limit[j].calls
    BY <1>3, <2>2
  <2>4. PICK p : p = [pass[j] EXCEPT !.calls = @ + 1]
    OBVIOUS
  <2>5. p \in PassType /\ p.base + p.tokens = Sum(j) /\ pass' = [pass EXCEPT ![j] = p]
    BY <1>3, <2>1, <2>4 DEF PassType, Sum
  <2>6. PICK there : there = "call"
    OBVIOUS
  <2>7. /\ Rest(there, p.left) <= Rest(stage[j], pass[j].left) /\ there \in Executing \cup {"head"}
        /\ there \notin {"correcting", "asked"} /\ stage[j] # "asked" /\ Goto(j, there)
    BY <1>1, <2>1, <2>6 DEF Rest, Executing
  <2> QED
    BY <1>2, <1>5, <2>3, <2>5, <2>7, PassGoesOn
<1> QED
  BY <1>6, <1>7, <1>8

\* An answer is counted, and what may follow without a look at the budget has room.
LEMMA AnswerStepCounts ==
  ASSUME BudgetInv, NEW j \in Spenders, NEW tokens \in 1 .. MaxAnswer, AnswerCosts(j, tokens)
  PROVE  BudgetInv'
<1>1. BudgetTypeOK /\ stage[j] = "asked" /\ UNCHANGED rowVars
  BY DEF BudgetInv, AnswerCosts, At
<1>2. PICK kept : kept = Sum(j) + tokens
  OBVIOUS
<1>3. /\ tokens \in Nat /\ tokens \in 0 .. MaxAnswer /\ tokens <= MaxAnswer /\ Sum(j) \in Nat /\ kept \in Nat
      /\ kept <= Sum(j) + tokens
      /\ pass[j] \in PassType /\ pass \in [Spenders -> PassType] /\ pass[j].base \in Nat /\ pass[j].tokens \in Nat
  <2>1. Sum(j) \in Nat /\ pass[j] \in PassType /\ pass[j].base \in Nat /\ pass[j].tokens \in Nat
    BY <1>1, SumIsNat
  <2>2. pass \in [Spenders -> PassType]
    BY <1>1, BudgetTypes
  <2>3. tokens \in Nat /\ tokens \in 0 .. MaxAnswer /\ tokens <= MaxAnswer
    BY ManyMore
  <2> QED
    BY <1>2, <2>1, <2>2, <2>3
<1>4. stage[j] \in Executing \cup {"head"} /\ Count(j, tokens, kept)
  BY <1>1, <1>2 DEF AnswerCosts, Executing
<1>5. CASE EndPass(j, "blocked")
  <2>1. "blocked" \in AtRest \ {"absent"}
    BY DEF AtRest
  <2> QED
    BY <1>1, <1>3, <1>4, <1>5, <2>1, PassEndStep
<1>6. CASE ~EndPass(j, "blocked")
  <2>1. /\ j \notin void /\ ~(Sum(j) + tokens + Reserved(j, "tokens") > limit[j].tokens)
        /\ pass' = [pass EXCEPT ![j].tokens = @ + tokens, ![j].left = MaxCorrections]
        /\ \E next \in {"tool", "final"} : Goto(j, next)
    BY <1>6 DEF AnswerCosts
  <2>2. PICK there \in {"tool", "final"} : Goto(j, there)
    BY <2>1
  <2>3. PICK p : p = [pass[j] EXCEPT !.tokens = @ + tokens, !.left = MaxCorrections]
    OBVIOUS
  <2>4. p \in PassType /\ p.base + p.tokens = kept /\ p.left = MaxCorrections /\ pass' = [pass EXCEPT ![j] = p]
    <3>5. MaxCorrections \in Nat
      BY ManyMore
    <3>1. pass[j].tokens + tokens \in Nat /\ MaxCorrections \in 0 .. MaxCorrections
      BY <1>3, <3>5
    <3>2. p \in PassType /\ p.base = pass[j].base /\ p.tokens = pass[j].tokens + tokens /\ p.left = MaxCorrections
      BY <1>3, <2>3, <3>1 DEF PassType
    <3>3. p.base + p.tokens = kept
      BY <1>2, <1>3, <3>2 DEF Sum
    <3>4. pass' = [pass EXCEPT ![j] = p]
      BY <1>3, <2>1, <2>3
    <3> QED
      BY <3>2, <3>3, <3>4
  <2>5. there \in Executing /\ there \in Stages \ {"absent"} /\ there \notin {"correcting", "call", "asked"}
    BY StageKinds DEF Executing
  <2>6. /\ Room(there, p.left) \in Nat /\ Room(there, p.left) <= Overshoot
        /\ tokens + Many(Rest(there, p.left)) <= Many(Rest(stage[j], pass[j].left))
    <3>1. /\ MaxCorrections \in Nat /\ Many(MaxCorrections) \in Nat /\ Overshoot \in Nat /\ MaxAnswer \in Nat
          /\ Many(MaxCorrections + 1) = Many(MaxCorrections) + MaxAnswer
          /\ Many(MaxCorrections) <= Overshoot /\ Many(0) = 0
      BY ManyMore
    <3>2. Rest(there, p.left) \in {0, MaxCorrections} /\ Rest(stage[j], pass[j].left) = MaxCorrections + 1
      BY <1>1, <2>4, <2>5 DEF Rest
    <3>3. Many(Rest(there, p.left)) \in Nat /\ Many(Rest(there, p.left)) <= Many(MaxCorrections)
      BY <3>1, <3>2
    <3>4. Many(Rest(stage[j], pass[j].left)) = Many(MaxCorrections) + MaxAnswer
      BY <3>1, <3>2
    <3>5. Room(there, p.left) = Many(Rest(there, p.left))
      BY <2>5 DEF Room
    <3> QED
      BY <1>3, <3>1, <3>3, <3>4, <3>5
  <2>7. kept + Reserved(j, "tokens") + Room(there, p.left) <= limit[j].tokens + Overshoot
    <3>1. Reserved(j, "tokens") \in Nat /\ limit[j].tokens \in Nat /\ Overshoot \in Nat
      BY <1>1, BudgetTypes, ReservedIsNat, ManyMore
    <3>2. kept + Reserved(j, "tokens") <= limit[j].tokens
      BY <1>2, <1>3, <2>1, <3>1
    <3> QED
      BY <1>3, <2>6, <3>1, <3>2
  <2>8. /\ claimed' = claimed /\ retried' \in [Spenders -> Nat] /\ limit' = limit /\ void' = void /\ called' = called
    BY <1>1 DEF rowVars, BudgetTypeOK
  <2>9. called[j] \in Nat /\ called' = [called EXCEPT ![j] = called[j]] /\ called[j] + Reserved(j, "calls") <= limit[j].calls
    BY <2>8, RowsStay
  <2>10. j \notin void
    BY <2>1
  <2> QED
    BY <1>3, <1>4, <2>2, <2>4, <2>5, <2>6, <2>7, <2>8, <2>9, <2>10, CountStep
<1> QED
  BY <1>5, <1>6

\* What was counted is saved before the model is asked for a correction, and by the heartbeat.
LEMMA SavesStep ==
  ASSUME BudgetInv, NEW j \in Spenders, AskCorrection(j) \/ Heartbeat(j)
  PROVE  BudgetInv'
<1>1. BudgetTypeOK /\ AttemptKept(j) /\ stage[j] \in {"final", "correcting"} /\ UNCHANGED rowVars /\ Count(j, 0, Sum(j))
  BY DEF BudgetInv, JobKept, AskCorrection, Heartbeat, At, Save
<1>2. /\ pass[j] \in PassType /\ pass \in [Spenders -> PassType] /\ pass[j].base + pass[j].tokens = Sum(j)
      /\ stage \in [Spenders -> Stages] /\ pass[j].left \in 0 .. MaxCorrections
      /\ (stage[j] = "correcting" => pass[j].left < MaxCorrections)
  BY <1>1, BudgetTypes DEF Sum, AttemptKept
<1>3. stage[j] \in Executing \cup {"head"} /\ stage[j] # "asked"
  BY <1>1 DEF Executing
<1>4. /\ claimed' = claimed /\ retried' \in [Spenders -> Nat] /\ limit' = limit /\ void' = void /\ called' = called
  BY <1>1 DEF rowVars, BudgetTypeOK
<1>5. CASE AskCorrection(j)
  <2>1. stage[j] = "final" /\ pass[j].left > 0 /\ pass' = [pass EXCEPT ![j].left = @ - 1] /\ Goto(j, "correcting")
    BY <1>5 DEF AskCorrection, At
  <2>2. PICK there, p : there = "correcting" /\ p = [pass[j] EXCEPT !.left = @ - 1]
    OBVIOUS
  <2>3. MaxCorrections \in Nat
    BY ManyMore
  <2>4. pass[j].left - 1 \in 0 .. MaxCorrections /\ pass[j].left - 1 < MaxCorrections
        /\ (pass[j].left - 1) + 1 = pass[j].left
    BY <1>2, <2>1, <2>3
  <2>5. /\ p \in PassType /\ p.base + p.tokens = Sum(j) /\ pass' = [pass EXCEPT ![j] = p]
        /\ p.left < MaxCorrections /\ p.left + 1 = pass[j].left
    BY <1>2, <2>1, <2>2, <2>4 DEF PassType, Sum
  <2>6. Rest(there, p.left) = p.left + 1 /\ Rest(stage[j], pass[j].left) = pass[j].left
    BY <2>1, <2>2 DEF Rest
  <2>7. Rest(there, p.left) <= Rest(stage[j], pass[j].left)
    BY <1>2, <2>5, <2>6
  <2>8. there \in Executing \cup {"head"} /\ there # "call" /\ there # "asked" /\ Goto(j, there)
    BY <2>1, <2>2 DEF Executing
  <2> QED
    BY <1>1, <1>3, <1>4, <2>5, <2>7, <2>8, PassGoesOn
<1>6. CASE Heartbeat(j)
  <2>1. stage' = stage /\ pass' = pass
    BY <1>6 DEF Heartbeat
  <2>2. PICK there, p : there = stage[j] /\ p = pass[j]
    OBVIOUS
  <2>3. /\ Goto(j, there) /\ pass' = [pass EXCEPT ![j] = p] /\ p \in PassType /\ p.base + p.tokens = Sum(j)
        /\ there \in Executing \cup {"head"} /\ there # "call" /\ there # "asked"
        /\ (there = "correcting" => p.left < MaxCorrections)
    BY <1>1, <1>2, <1>3, <2>1, <2>2 DEF Goto
  <2>4. Rest(there, p.left) <= Rest(stage[j], pass[j].left)
    <3>1. Rest(stage[j], pass[j].left) \in Nat
      BY <1>2, RestFacts
    <3> QED
      BY <2>2, <3>1
  <2> QED
    BY <1>1, <1>3, <1>4, <2>3, <2>4, PassGoesOn
<1> QED
  BY <1>5, <1>6

\* The provider fails, and what was counted stays counted.
LEMMA UnavailableStep ==
  ASSUME BudgetInv, NEW j \in Spenders, NEW transient \in BOOLEAN, ModelUnavailable(j, transient)
  PROVE  BudgetInv'
<1>1. /\ BudgetTypeOK /\ stage[j] \in {"asked", "correcting"} /\ Count(j, 0, Sum(j))
      /\ UNCHANGED <<limit, void, called, claimed>>
  BY DEF BudgetInv, ModelUnavailable, Save
<1>2. stage[j] \in Executing \cup {"head"}
  BY <1>1 DEF Executing
<1>3. Sum(j) \in Nat /\ Sum(j) <= Sum(j) + 0 /\ 0 \in 0 .. MaxAnswer
  BY <1>1, SumIsNat
<1>4. CASE EndPass(j, "failed") /\ UNCHANGED retried
  <2>1. "failed" \in AtRest \ {"absent"} /\ UNCHANGED rowVars
    BY <1>1, <1>4 DEF AtRest, rowVars
  <2> QED
    BY <1>1, <1>2, <1>3, <1>4, <2>1, PassEndStep
<1>5. CASE ~(EndPass(j, "failed") /\ UNCHANGED retried)
  <2>1. PICK there, p : there = "head" /\ p = [NoPass EXCEPT !.base = Sum(j)]
    OBVIOUS
  <2>2. /\ Goto(j, there) /\ pass' = [pass EXCEPT ![j] = p]
        /\ retried' = IF j \in void THEN retried ELSE [retried EXCEPT ![j] = @ + 1]
    BY <1>5, <2>1 DEF ModelUnavailable
  <2>3. retried' \in [Spenders -> Nat]
    BY <1>1, <2>2 DEF BudgetTypeOK
  <2>4. p \in PassType /\ p.base + p.tokens = Sum(j) /\ p.left = 0
    <3>1. NoPass \in PassType /\ NoPass.left = 0 /\ NoPass.tokens = 0
      BY StageKinds
    <3>2. p \in PassType /\ p.base = Sum(j) /\ p.tokens = 0 /\ p.left = 0
      BY <1>3, <2>1, <3>1 DEF PassType
    <3> QED
      BY <1>3, <3>2
  <2>5. there \in Executing \cup {"head"} /\ there \notin {"call", "asked", "correcting"}
    BY <2>1
  <2>6. Rest(there, p.left) <= Rest(stage[j], pass[j].left)
    <3>1. stage[j] = "correcting" => pass[j].left < MaxCorrections
      BY DEF BudgetInv, JobKept, AttemptKept
    <3>2. pass[j].left \in 0 .. MaxCorrections
      BY <1>1, BudgetTypes
    <3>3. Rest(stage[j], pass[j].left) \in Nat
      BY <3>1, <3>2, RestFacts
    <3>4. Rest(there, p.left) = 0
      BY <2>1 DEF Rest
    <3> QED
      BY <3>3, <3>4
  <2>7. stage[j] = "asked" => there = "head"
    BY <2>1
  <2>8. claimed' = claimed /\ limit' = limit /\ void' = void /\ called' = called
    BY <1>1
  <2> QED
    BY <1>1, <1>2, <2>2, <2>3, <2>4, <2>5, <2>6, <2>7, <2>8, PassGoesOn
<1> QED
  BY <1>4, <1>5

\* A call that ends is one more of the calls that were made.
LEMMA CallEndsStep ==
  ASSUME BudgetInv, NEW j \in Spenders, CallEnds(j)
  PROVE  BudgetInv'
<1>1. /\ BudgetTypeOK /\ LimitKept(j) /\ stage[j] = "call" /\ called' = [called EXCEPT ![j] = @ + 1] /\ pass' = pass
      /\ UNCHANGED <<limit, void, claimed, retried, countVars>>
      /\ \E next \in {"tool", "turn"} : Goto(j, next)
  BY DEF BudgetInv, JobKept, CallEnds, At, Stay
<1>2. PICK there \in {"tool", "turn"} : Goto(j, there)
  BY <1>1
<1>3. PICK p, n : p = pass[j] /\ n = called[j] + 1
  OBVIOUS
<1>4. stage[j] \in Executing \cup {"head"} /\ stage[j] # "final"
  BY <1>1 DEF Executing
<1>5. Count(j, 0, Sum(j))
  BY <1>1, <1>4, CountAgain
<1>6. Sum(j) \in Nat /\ Sum(j) <= Sum(j) + 0 /\ 0 \in 0 .. MaxAnswer
  BY <1>1, SumIsNat
<1>7. /\ pass[j].left \in 0 .. MaxCorrections /\ pass \in [Spenders -> PassType] /\ called[j] \in Nat
      /\ limit[j].calls \in Nat /\ Reserved(j, "calls") \in Nat
  BY <1>1, BudgetTypes, ReservedIsNat
<1>8. /\ p \in PassType /\ p.left \in 0 .. MaxCorrections /\ p.base + p.tokens = Sum(j) /\ pass' = [pass EXCEPT ![j] = p]
      /\ n \in Nat /\ called' = [called EXCEPT ![j] = n]
  BY <1>1, <1>3, <1>7 DEF Sum
<1>9. n + Reserved(j, "calls") <= limit[j].calls
  <2>1. called[j] + Reserved(j, "calls") < limit[j].calls
    BY <1>1 DEF LimitKept
  <2> QED
    BY <1>3, <1>7, <2>1
<1>10. there \in Executing /\ there \in Stages \ {"absent"} /\ there \notin {"asked", "final", "correcting", "call"}
  BY StageKinds DEF Executing
<1>11. /\ 0 + Waste(there, p.left) <= Waste(stage[j], pass[j].left)
       /\ 0 + Room(there, p.left) <= Room(stage[j], pass[j].left)
       /\ 0 + Many(Rest(there, p.left)) <= Many(Rest(stage[j], pass[j].left))
  <2>1. Waste(there, p.left) = 0 /\ Room(there, p.left) = 0 /\ Many(Rest(there, p.left)) = 0
    BY <1>8, <1>10, RestFacts
  <2>2. /\ Waste(stage[j], pass[j].left) \in Nat /\ Room(stage[j], pass[j].left) \in Nat
        /\ Many(Rest(stage[j], pass[j].left)) \in Nat
    BY <1>1, <1>7, RestFacts
  <2> QED
    BY <2>1, <2>2
<1>12. claimed' = claimed /\ retried' \in [Spenders -> Nat] /\ limit' = limit /\ void' = void
  BY <1>1 DEF BudgetTypeOK
<1> QED
  BY <1>2, <1>4, <1>5, <1>6, <1>8, <1>9, <1>10, <1>11, <1>12, CountStep

\* The ends of an attempt.
LEMMA EndingsStep ==
  ASSUME BudgetInv, NEW j \in Spenders,
         \/ CallSuspended(j) \/ AttemptCompletes(j) \/ AttemptTimesOut(j) \/ AttemptRaises(j)
         \/ AttemptInterrupted(j) \/ \E how \in {"failed", "blocked"} : AttemptStops(j, how)
  PROVE  BudgetInv'
<1>1. BudgetTypeOK
  BY DEF BudgetInv
<1>2. stage[j] \in Executing \cup {"head"} /\ UNCHANGED rowVars
  BY DEF CallSuspended, AttemptCompletes, AttemptTimesOut, AttemptRaises, AttemptInterrupted, AttemptStops, At, Executing
<1>3. PICK there \in AtRest \ {"absent"} : EndPass(j, there)
  BY DEF CallSuspended, AttemptCompletes, AttemptTimesOut, AttemptRaises, AttemptInterrupted, AttemptStops, AtRest
<1>4. /\ Sum(j) \in Nat /\ Sum(j) <= Sum(j) + 0 /\ 0 \in 0 .. MaxAnswer
      /\ pass[j].base \in Nat /\ pass[j].tokens \in Nat
  BY <1>1, SumIsNat
<1>5. \/ CallSuspended(j) \/ Count(j, 0, Sum(j)) \/ Count(j, 0, pass[j].base) \/ Count(j, 0, 0)
  BY DEF AttemptCompletes, AttemptTimesOut, AttemptRaises, AttemptInterrupted, AttemptStops, Save
<1>6. PICK kept \in Nat : kept <= Sum(j) + 0 /\ Count(j, 0, kept)
  <2>1. CASE CallSuspended(j)
    <3>1. stage[j] # "final" /\ UNCHANGED countVars
      BY <2>1 DEF CallSuspended, At
    <3> QED
      BY <1>2, <1>4, <3>1, CountAgain
  <2>2. CASE Count(j, 0, Sum(j))
    BY <1>4, <2>2
  <2>3. CASE Count(j, 0, pass[j].base)
    <3>1. pass[j].base <= Sum(j) + 0
      BY <1>4 DEF Sum
    <3> QED
      BY <1>4, <2>3, <3>1
  <2>4. CASE Count(j, 0, 0)
    BY <1>4, <2>4
  <2> QED
    BY <1>5, <2>1, <2>2, <2>3, <2>4
<1> QED
  BY <1>2, <1>3, <1>4, <1>6, PassEndStep

LEMMA WaitersStep ==
  ASSUME BudgetInv, JoinShares \/ \E j \in Spenders : RequeueSpender(j)
  PROVE  BudgetInv'
<1>1. Master \in Spenders
  BY DEF Spenders
<1>2. PICK j \in Spenders, there \in AtRest \ {"absent", "cancelled"} :
        /\ stage[j] \in AtRest \ {"absent", "cancelled"}
        /\ Stay(j, there) /\ UNCHANGED <<rowVars, countVars>>
  BY <1>1 DEF JoinShares, RequeueSpender, At, AtRest
<1> QED
  BY <1>2, RestsOn

\* The answer to a correction is counted by the attempt and not by its row.
LEMMA CorrectionStep ==
  ASSUME BudgetInv, NEW j \in Spenders, NEW tokens \in 1 .. MaxAnswer, CorrectionCosts(j, tokens)
  PROVE  BudgetInv'
<1>1. BudgetTypeOK /\ JobKept(j) /\ AttemptKept(j) /\ LimitKept(j) /\ AnswersKept(j)
  BY DEF BudgetInv, JobKept
<1>2. /\ stage[j] = "correcting" /\ stage' = [stage EXCEPT ![j] = "final"]
      /\ pass' = [pass EXCEPT ![j].tokens = @ + tokens] /\ spent' = [spent EXCEPT ![j] = @ + tokens]
      /\ late' = (IF j \in void THEN [late EXCEPT ![j] = @ + tokens] ELSE late)
      /\ limit' = limit /\ void' = void /\ called' = called /\ claimed' = claimed /\ retried' = retried
      /\ counted' = counted /\ daily' = daily /\ dropped' = dropped
  BY DEF CorrectionCosts, At, Goto, rowVars
<1>3. /\ stage \in [Spenders -> Stages] /\ pass \in [Spenders -> PassType]
      /\ spent \in [Spenders -> Nat] /\ late \in [Spenders -> Nat]
      /\ counted[j] \in Nat /\ spent[j] \in Nat /\ late[j] \in Nat /\ claimed[j] \in Nat /\ daily \in Nat
      /\ pass[j].base \in Nat /\ pass[j].tokens \in Nat /\ limit[j].tokens \in Nat
  BY <1>1, BudgetTypes
<1>4. PICK left : left = pass[j].left
  OBVIOUS
<1>5. MaxCorrections \in Nat /\ MaxAnswer \in Nat /\ Overshoot \in Nat /\ Unstopped \in Nat
  BY ManyMore
<1>6. left \in 0 .. MaxCorrections /\ left \in Nat /\ left < MaxCorrections
  <2>1. pass[j].left \in 0 .. MaxCorrections
    BY <1>1, BudgetTypes
  <2> QED
    BY <1>1, <1>2, <1>4, <1>5, <2>1 DEF AttemptKept
<1>7. Many(left) \in Nat /\ Many(left + 1) = Many(left) + MaxAnswer
  BY <1>6, ManyMore
<1>8. tokens \in Nat /\ tokens <= MaxAnswer
  BY <1>5
<1>9. PICK p : p = [pass[j] EXCEPT !.tokens = @ + tokens]
  OBVIOUS
<1>10. p \in PassType /\ p.base = pass[j].base /\ p.tokens = pass[j].tokens + tokens /\ p.left = left
  <2>1. pass[j].tokens + tokens \in Nat /\ pass[j] \in PassType
    BY <1>3, <1>8
  <2> QED
    BY <1>4, <1>9, <2>1 DEF PassType
<1>11. /\ stage' \in [Spenders -> Stages] /\ pass' \in [Spenders -> PassType]
       /\ spent' \in [Spenders -> Nat] /\ late' \in [Spenders -> Nat]
       /\ stage'[j] = "final" /\ pass'[j] = p /\ spent'[j] = spent[j] + tokens
       /\ late'[j] = (IF j \in void THEN late[j] + tokens ELSE late[j])
       /\ \A k \in Spenders \ {j} : /\ stage'[k] = stage[k] /\ pass'[k] = pass[k]
                                   /\ spent'[k] = spent[k] /\ late'[k] = late[k]
  <2>1. "final" \in Stages
    BY DEF Stages, Executing
  <2>2. stage' \in [Spenders -> Stages] /\ stage'[j] = "final" /\ \A k \in Spenders \ {j} : stage'[k] = stage[k]
    BY <1>2, <1>3, <2>1
  <2>3. pass' = [pass EXCEPT ![j] = p]
    BY <1>2, <1>3, <1>9
  <2>4. pass' \in [Spenders -> PassType] /\ pass'[j] = p /\ \A k \in Spenders \ {j} : pass'[k] = pass[k]
    BY <1>3, <1>10, <2>3
  <2>5. /\ spent' \in [Spenders -> Nat] /\ spent'[j] = spent[j] + tokens
        /\ \A k \in Spenders \ {j} : spent'[k] = spent[k]
    BY <1>2, <1>3, <1>8
  <2>6. /\ late' \in [Spenders -> Nat] /\ late'[j] = (IF j \in void THEN late[j] + tokens ELSE late[j])
        /\ \A k \in Spenders \ {j} : late'[k] = late[k]
    BY <1>2, <1>3, <1>8
  <2> QED
    BY <2>2, <2>4, <2>5, <2>6
<1>12. BudgetTypeOK'
  <2>1. \A k \in Spenders : pass'[k] # NoPass => stage'[k] \in Executing \cup {"head"}
    BY <1>1, <1>11 DEF BudgetTypeOK, Executing
  <2> QED
    BY <1>1, <1>2, <1>11, <2>1 DEF BudgetTypeOK, Stages, AtRest, PassType
<1>13. \A what \in {"tokens", "calls"} : Reserved(j, what)' = Reserved(j, what) /\ Reserved(j, what) \in Nat
  <2>1. \A what \in {"tokens", "calls"} : Reserved(j, what)' = Reserved(j, what)
    BY <1>2 DEF Reserved, Shares, Total, Units
  <2> QED
    BY <1>1, <2>1, ReservedIsNat
<1>14. "final" \in Executing /\ "correcting" \in Executing
  BY DEF Executing
<1>15. Sum(j) \in Nat /\ Sum(j)' = Sum(j) + tokens /\ (j \notin void => Sum(j) = counted[j])
  <2>1. Sum(j) \in Nat /\ Sum(j)' = Sum(j) + tokens
    BY <1>3, <1>8, <1>10, <1>11 DEF Sum
  <2> QED
    BY <1>1, <1>2, <1>14, <2>1 DEF AttemptKept
<1>16. Unsaved(j) = 0 /\ Unsaved(j)' = (IF j \in void THEN 0 ELSE tokens)
  <2>1. Unsaved(j) = 0
    BY <1>1, <1>2, UnsavedIs
  <2>2. Unsaved(j)' = (IF j \in void THEN 0 ELSE Sum(j)' - counted[j])
    BY <1>2, <1>11 DEF Unsaved
  <2> QED
    BY <1>3, <1>8, <1>15, <2>1, <2>2
<1>17. /\ Room("correcting", left) = Many(left) + MaxAnswer /\ Room("final", left) = Many(left)
       /\ Waste("correcting", left) = Many(left) + MaxAnswer /\ Waste("final", left) = Many(left)
       /\ Many(Rest("correcting", left)) = Many(left) + MaxAnswer /\ Many(Rest("final", left)) = Many(left)
  <2>1. Rest("correcting", left) = left + 1 /\ Rest("final", left) = left
    BY DEF Rest
  <2> QED
    BY <1>7, <2>1 DEF Room, Waste
<1>18. AttemptKept(j)'
  <2>1. PICK there, more : there = stage'[j] /\ more = pass'[j].left
    OBVIOUS
  <2>2. there = "final" /\ more = left /\ there \in Executing
    BY <1>10, <1>11, <1>14, <2>1
  <2>3. j \notin void => counted[j] <= Sum(j)' /\ Sum(j)' <= counted[j] + MaxAnswer
    BY <1>3, <1>5, <1>8, <1>15
  <2>4. there # "correcting" /\ ~(there # "final" \/ more = MaxCorrections)
    BY <1>5, <1>6, <2>2
  <2> QED
    BY <1>2, <2>1, <2>2, <2>3, <2>4 DEF AttemptKept
<1>19. LimitKept(j)'
  <2>1. called[j] + Reserved(j, "calls") <= limit[j].calls
    BY <1>1 DEF LimitKept
  <2>2. counted[j] + Reserved(j, "tokens") <= limit[j].tokens + Overshoot
    BY <1>1, <1>3, <1>13, <1>16 DEF LimitKept
  <2>3. ASSUME j \notin void
        PROVE  counted[j] + tokens + Reserved(j, "tokens") + Many(left) <= limit[j].tokens + Overshoot
    <3>1. counted[j] + Unsaved(j) + Reserved(j, "tokens") + Room(stage[j], pass[j].left) <= limit[j].tokens + Overshoot
      BY <1>1, <2>3 DEF LimitKept
    <3>2. counted[j] + 0 + Reserved(j, "tokens") + (Many(left) + MaxAnswer) <= limit[j].tokens + Overshoot
      BY <1>2, <1>4, <1>16, <1>17, <3>1
    <3> QED
      BY <1>3, <1>5, <1>7, <1>8, <1>13, <3>2
  <2>4. counted'[j] + Unsaved(j)' + Reserved(j, "tokens") <= limit[j].tokens + Overshoot
    BY <1>2, <1>3, <1>5, <1>7, <1>8, <1>13, <1>16, <2>2, <2>3
  <2>5. j \notin void => counted'[j] + Unsaved(j)' + Reserved(j, "tokens") + Room("final", left)
                           <= limit[j].tokens + Overshoot
    BY <1>2, <1>16, <1>17, <2>3
  <2> QED
    BY <1>2, <1>10, <1>11, <1>13, <2>1, <2>4, <2>5 DEF LimitKept
<1>20. AnswersKept(j)'
  <2>1. /\ j \notin dropped => counted[j] + late[j] + 0 = spent[j]
        /\ late[j] + Risk(j) <= claimed[j] * Unstopped /\ late[j] + 0 <= spent[j]
    BY <1>1, <1>16 DEF AnswersKept
  <2>2. /\ j \notin dropped => counted[j] + late'[j] + Unsaved(j)' = spent'[j]
        /\ late'[j] + Unsaved(j)' <= spent'[j]
    BY <1>3, <1>8, <1>11, <1>16, <2>1
  <2>3. late'[j] + Risk(j)' <= claimed[j] * Unstopped
    <3>1. PICK all : all = claimed[j] * Unstopped
      OBVIOUS
    <3>2. all \in Nat
      BY <1>3, <1>5, <3>1, TimesMore
    <3>3. CASE j \in void
      <4>1. Risk(j) = Many(left) + MaxAnswer /\ Risk(j)' = Many(left)
        BY <1>2, <1>4, <1>10, <1>11, <1>14, <1>17, <3>3 DEF Risk
      <4> QED
        BY <1>3, <1>5, <1>7, <1>8, <1>11, <2>1, <3>1, <3>2, <3>3, <4>1
    <3>4. CASE j \notin void
      <4>1. Risk(j) = Unstopped /\ Risk(j)' = Unstopped
        BY <1>2, <1>11, <1>14, <3>4 DEF Risk
      <4> QED
        BY <1>11, <2>1, <3>4, <4>1
    <3> QED
      BY <3>3, <3>4
  <2> QED
    BY <1>2, <2>2, <2>3 DEF AnswersKept
<1>21. daily' + late'[j] + Unsaved(j)' + spent[j] = daily + late[j] + Unsaved(j) + spent'[j]
  BY <1>2, <1>3, <1>8, <1>11, <1>16
<1>22. daily' + Owing(j)' <= daily + Owing(j)
  <2>1. Owing(j) = (IF j \in void THEN 0 ELSE (Many(left) + MaxAnswer) + 0)
    BY <1>2, <1>4, <1>16, <1>17 DEF Owing
  <2>2. Owing(j)' = (IF j \in void THEN 0 ELSE Many(left) + tokens)
    <3>1. Owing(j)' = (IF j \in void' THEN 0 ELSE Many(Rest(stage'[j], pass'[j].left)) + Unsaved(j)')
      BY DEF Owing, Many, Rest
    <3>2. stage'[j] = "final" /\ pass'[j].left = left /\ (j \in void' <=> j \in void)
      BY <1>2, <1>10, <1>11
    <3> QED
      BY <1>16, <1>17, <3>1, <3>2
  <2> QED
    BY <1>2, <1>3, <1>5, <1>7, <1>8, <2>1, <2>2
<1>23. stage[j] # "absent" /\ stage'[j] # "absent"
  BY <1>2, <1>11
<1> QED
  BY <1>2, <1>11, <1>12, <1>18, <1>19, <1>20, <1>21, <1>22, <1>23, SpenderStep DEF JobKept

\* What an attempt has not saved, and what it may still get, is at risk.
LEMMA WasteFits ==
  ASSUME BudgetTypeOK, NEW j \in Spenders, AttemptKept(j)
  PROVE  /\ Waste(stage[j], pass[j].left) \in Nat
         /\ Unsaved(j) + Waste(stage[j], pass[j].left) <= Unstopped
<1>1. pass[j].left \in 0 .. MaxCorrections /\ (stage[j] = "correcting" => pass[j].left < MaxCorrections)
  BY BudgetTypes DEF AttemptKept
<1>2. Waste(stage[j], pass[j].left) \in Nat /\ Waste(stage[j], pass[j].left) <= Unstopped
  BY <1>1, RestFacts
<1>3. /\ Unsaved(j) \in Nat /\ Unsaved(j) <= MaxAnswer
      /\ stage[j] # "final" \/ pass[j].left = MaxCorrections => Unsaved(j) = 0
  BY UnsavedIs
<1>4. CASE stage[j] = "final" /\ pass[j].left # MaxCorrections
  <2>1. PICK left : left = pass[j].left
    OBVIOUS
  <2>2. MaxCorrections \in Nat /\ left \in Nat /\ left + 1 \in Nat /\ left + 1 <= MaxCorrections
    <3>1. MaxCorrections \in Nat
      BY ManyMore
    <3> QED
      BY <1>1, <1>4, <2>1, <3>1
  <2>3. Many(left) \in Nat /\ Many(left + 1) = Many(left) + MaxAnswer
    BY <2>2, ManyMore
  <2>4. Many(left + 1) <= Many(MaxCorrections)
    BY <2>2, ManyMore
  <2>5. Many(MaxCorrections) <= Unstopped /\ Many(MaxCorrections) \in Nat /\ Unstopped \in Nat /\ MaxAnswer \in Nat
    BY <2>2, ManyMore
  <2>6. Waste(stage[j], pass[j].left) = Many(left)
    BY <1>4, <2>1 DEF Waste, Rest
  <2> QED
    BY <1>2, <1>3, <2>3, <2>4, <2>5, <2>6
<1>5. CASE stage[j] # "final" \/ pass[j].left = MaxCorrections
  BY <1>2, <1>3, <1>5
<1> QED
  BY <1>2, <1>4, <1>5

\* A worker that dies takes what it has not saved with it.
LEMMA WorkerDiesStep ==
  ASSUME BudgetInv, NEW j \in Spenders, AttemptDies(j)
  PROVE  BudgetInv'
<1>1. BudgetTypeOK /\ JobKept(j) /\ AttemptKept(j) /\ LimitKept(j) /\ AnswersKept(j)
  BY DEF BudgetInv, JobKept
<1>2. PICK there : there = IF j \in void THEN "cancelled" ELSE "interrupted"
  OBVIOUS
<1>3. /\ stage[j] \in Executing /\ stage' = [stage EXCEPT ![j] = there] /\ pass' = [pass EXCEPT ![j] = NoPass]
      /\ late' = [late EXCEPT ![j] = @ + Unsaved(j)]
      /\ limit' = limit /\ void' = void /\ called' = called /\ claimed' = claimed /\ retried' = retried
      /\ counted' = counted /\ daily' = daily /\ spent' = spent /\ dropped' = dropped
  BY <1>2 DEF AttemptDies, EndPass, Goto, rowVars
<1>4. /\ there \in Stages \ {"absent"} /\ there \notin Executing \cup {"head"} /\ (j \in void => there = "cancelled")
      /\ there \notin {"asked", "final", "correcting", "call", "absent"}
  BY <1>2 DEF Stages, AtRest, Executing
<1>5. /\ stage \in [Spenders -> Stages] /\ pass \in [Spenders -> PassType] /\ late \in [Spenders -> Nat]
      /\ counted[j] \in Nat /\ spent[j] \in Nat /\ late[j] \in Nat /\ claimed[j] \in Nat /\ daily \in Nat
      /\ limit[j].tokens \in Nat
  BY <1>1, BudgetTypes
<1>6. Unsaved(j) \in Nat /\ (j \in void => Unsaved(j) = 0)
  BY <1>1, UnsavedIs
<1>7. NoPass \in PassType /\ NoPass.left = 0
  BY StageKinds
<1>8. /\ stage' \in [Spenders -> Stages] /\ pass' \in [Spenders -> PassType] /\ late' \in [Spenders -> Nat]
      /\ stage'[j] = there /\ pass'[j] = NoPass /\ late'[j] = late[j] + Unsaved(j)
      /\ \A k \in Spenders \ {j} : stage'[k] = stage[k] /\ pass'[k] = pass[k] /\ late'[k] = late[k]
  <2>1. late' \in [Spenders -> Nat] /\ late'[j] = late[j] + Unsaved(j) /\ \A k \in Spenders \ {j} : late'[k] = late[k]
    BY <1>3, <1>5, <1>6
  <2> QED
    BY <1>3, <1>4, <1>5, <1>7, <2>1
<1>9. BudgetTypeOK'
  <2>1. \A k \in Spenders : pass'[k] # NoPass => stage'[k] \in Executing \cup {"head"}
    BY <1>1, <1>8 DEF BudgetTypeOK
  <2> QED
    BY <1>1, <1>3, <1>8, <2>1 DEF BudgetTypeOK, Stages, AtRest, PassType
<1>10. \A what \in {"tokens", "calls"} : Reserved(j, what)' = Reserved(j, what) /\ Reserved(j, what) \in Nat
  <2>1. \A what \in {"tokens", "calls"} : Reserved(j, what)' = Reserved(j, what)
    BY <1>3 DEF Reserved, Shares, Total, Units
  <2> QED
    BY <1>1, <2>1, ReservedIsNat
<1>11. Unsaved(j)' = 0 /\ Risk(j)' = 0
  BY <1>4, <1>8 DEF Unsaved, Risk
<1>12. Many(Rest(there, 0)) = 0 /\ Room(there, 0) = 0
  BY <1>4, ManyMore DEF Room, Rest
<1>13. AttemptKept(j)'
  BY <1>3, <1>4, <1>8 DEF AttemptKept
<1>14. Overshoot \in Nat /\ Unstopped \in Nat
  BY ManyMore
<1>15. LimitKept(j)'
  <2>1. called[j] + Reserved(j, "calls") <= limit[j].calls
    BY <1>1 DEF LimitKept
  <2>2. counted[j] + 0 + Reserved(j, "tokens") <= limit[j].tokens + Overshoot
    BY <1>1, <1>5, <1>6, <1>10, <1>14 DEF LimitKept
  <2>3. counted[j] + 0 + Reserved(j, "tokens") + 0 <= limit[j].tokens + Overshoot
    BY <1>5, <1>10, <2>2
  <2> QED
    BY <1>3, <1>4, <1>7, <1>8, <1>10, <1>11, <1>12, <2>1, <2>2, <2>3 DEF LimitKept
<1>16. AnswersKept(j)'
  <2>1. /\ j \notin dropped => counted[j] + late[j] + Unsaved(j) = spent[j]
        /\ late[j] + Risk(j) <= claimed[j] * Unstopped /\ late[j] + Unsaved(j) <= spent[j]
    BY <1>1 DEF AnswersKept
  <2>2. Risk(j) \in Nat /\ Unsaved(j) <= Risk(j)
    BY <1>1, <1>3, <1>6, <1>14, WasteFits DEF Risk
  <2>3. late[j] + Unsaved(j) <= claimed[j] * Unstopped
    <3>1. PICK all : all = claimed[j] * Unstopped
      OBVIOUS
    <3>2. all \in Nat
      BY <1>5, <1>14, <3>1, TimesMore
    <3> QED
      BY <1>5, <1>6, <2>1, <2>2, <3>1, <3>2
  <2>4. /\ j \notin dropped => counted[j] + (late[j] + Unsaved(j)) + 0 = spent[j]
        /\ late[j] + Unsaved(j) + 0 <= claimed[j] * Unstopped /\ late[j] + Unsaved(j) + 0 <= spent[j]
    BY <1>5, <1>6, <2>1, <2>3
  <2> QED
    BY <1>3, <1>8, <1>11, <2>4 DEF AnswersKept
<1>17. daily' + late'[j] + Unsaved(j)' + spent[j] = daily + late[j] + Unsaved(j) + spent'[j]
  BY <1>3, <1>5, <1>6, <1>8, <1>11
<1>18. daily' + Owing(j)' <= daily + Owing(j)
  <2>1. Owing(j)' = 0
    BY <1>7, <1>8, <1>11, <1>12 DEF Owing
  <2>2. Owing(j) \in Nat
    BY <1>1, OwingIs
  <2> QED
    BY <1>3, <1>5, <2>1, <2>2
<1>19. stage[j] # "absent" /\ stage'[j] # "absent"
  BY <1>3, <1>4, <1>8 DEF Executing
<1> QED
  BY <1>3, <1>8, <1>9, <1>13, <1>15, <1>16, <1>17, <1>18, <1>19, SpenderStep DEF JobKept

\* A cancelled job and its subtasks: what their attempts have not saved, no row will count.
LEMMA CancelStep ==
  ASSUME BudgetInv, NEW j \in Spenders, CancelSpender(j)
  PROVE  BudgetInv'
<1>1. BudgetTypeOK /\ SharesKept /\ \A k \in Spenders : AttemptKept(k) /\ LimitKept(k) /\ AnswersKept(k)
  BY DEF BudgetInv, JobKept
<1>2. PICK V : V = Voided(j)
  OBVIOUS
<1>3. /\ void' = void \cup V
      /\ stage' = [k \in Spenders |-> IF k \in V /\ stage[k] \notin Executing \cup {"head"} THEN "cancelled" ELSE stage[k]]
      /\ late' = [k \in Spenders |-> IF k \in V THEN late[k] + Unsaved(k) ELSE late[k]]
      /\ pass' = pass /\ limit' = limit /\ called' = called /\ claimed' = claimed /\ retried' = retried
      /\ counted' = counted /\ daily' = daily /\ spent' = spent /\ dropped' = dropped
  BY <1>2 DEF CancelSpender
<1>4. /\ V \subseteq Spenders
      /\ \A k \in V : k \notin void /\ stage[k] # "absent"
  BY <1>2 DEF Voided, Executing
<1>5. \A k \in Spenders : /\ stage[k] \in Stages /\ counted[k] \in Nat /\ late[k] \in Nat /\ spent[k] \in Nat
                        /\ claimed[k] \in Nat /\ limit[k].tokens \in Nat /\ Unsaved(k) \in Nat
                        /\ (k \in void => Unsaved(k) = 0)
  BY <1>1, BudgetTypes, UnsavedIs
<1>6. /\ \A k \in Spenders : stage'[k] = (IF k \in V /\ stage[k] \notin Executing \cup {"head"} THEN "cancelled" ELSE stage[k])
      /\ \A k \in V : late'[k] = late[k] + Unsaved(k)
      /\ \A k \in Spenders \ V : late'[k] = late[k]
  BY <1>3, <1>4
<1>7. "cancelled" \in Stages /\ "cancelled" \notin Executing \cup {"head", "absent", "call", "asked", "final", "correcting"}
  BY DEF Stages, AtRest, Executing
<1>8. BudgetTypeOK'
  <2>1. stage' \in [Spenders -> Stages] /\ late' \in [Spenders -> Nat]
    BY <1>3, <1>5, <1>7
  <2>2. \A k \in Spenders : pass'[k] # NoPass => stage'[k] \in Executing \cup {"head"}
    BY <1>1, <1>3, <1>6 DEF BudgetTypeOK
  <2> QED
    BY <1>1, <1>3, <1>4, <2>1, <2>2 DEF BudgetTypeOK, Stages, AtRest
<1>9. \A k \in Spenders, what \in {"tokens", "calls"} : Reserved(k, what)' = Reserved(k, what) /\ Reserved(k, what) \in Nat
  <2>1. \A k \in Spenders, what \in {"tokens", "calls"} : Reserved(k, what)' = Reserved(k, what)
    BY <1>3 DEF Reserved, Shares, Total, Units
  <2> QED
    BY <1>1, <2>1, ReservedIsNat
<1>10. Overshoot \in Nat /\ Unstopped \in Nat
  BY ManyMore
<1>11. ASSUME NEW k \in V PROVE JobKept(k)' /\ Unsaved(k)' = 0 /\ Owing(k)' = 0
  <2>1. k \in Spenders /\ k \notin void /\ k \in void' /\ late'[k] = late[k] + Unsaved(k)
    BY <1>3, <1>4, <1>6
  <2>2. Unsaved(k)' = 0 /\ Owing(k)' = 0
    BY <2>1 DEF Unsaved, Owing
  <2>3. /\ stage'[k] \in Executing \cup {"head", "cancelled"}
        /\ \A s \in {"correcting", "call"} : stage'[k] = s => stage[k] = s
    BY <1>6, <1>7, <2>1
  <2>4. AttemptKept(k)'
    BY <1>1, <1>3, <2>1, <2>3 DEF AttemptKept
  <2>5. LimitKept(k)'
    <3>1. /\ called[k] + Reserved(k, "calls") <= limit[k].calls
          /\ stage[k] = "call" => called[k] + Reserved(k, "calls") < limit[k].calls
          /\ counted[k] + Unsaved(k) + Reserved(k, "tokens") <= limit[k].tokens + Overshoot
      BY <1>1, <2>1 DEF LimitKept
    <3>2. counted[k] + 0 + Reserved(k, "tokens") <= limit[k].tokens + Overshoot
      BY <1>5, <1>9, <1>10, <2>1, <3>1
    <3> QED
      BY <1>3, <1>9, <2>1, <2>2, <2>3, <3>1, <3>2 DEF LimitKept
  <2>6. AnswersKept(k)'
    <3>1. /\ k \notin dropped => counted[k] + late[k] + Unsaved(k) = spent[k]
          /\ late[k] + Risk(k) <= claimed[k] * Unstopped /\ late[k] + Unsaved(k) <= spent[k]
      BY <1>1, <2>1 DEF AnswersKept
    <3>2. Risk(k)' \in Nat /\ Risk(k) \in Nat /\ Unsaved(k) + Risk(k)' <= Risk(k)
      <4>1. CASE stage[k] \in Executing \cup {"head"}
        <5>1. stage'[k] = stage[k]
          BY <1>6, <2>1, <4>1
        <5>2. Risk(k) = Unstopped /\ Risk(k)' = Waste(stage[k], pass[k].left)
          BY <1>3, <2>1, <4>1, <5>1 DEF Risk
        <5>3. Waste(stage[k], pass[k].left) \in Nat /\ Unsaved(k) + Waste(stage[k], pass[k].left) <= Unstopped
          BY <1>1, <2>1, WasteFits
        <5> QED
          BY <1>10, <5>2, <5>3
      <4>2. CASE stage[k] \notin Executing \cup {"head"}
        <5>1. stage'[k] = "cancelled"
          BY <1>6, <2>1, <4>2
        <5>2. Risk(k) = 0 /\ Risk(k)' = 0
          BY <1>7, <4>2, <5>1 DEF Risk
        <5>3. Unsaved(k) = 0
          BY <4>2 DEF Unsaved, Executing
        <5> QED
          BY <5>2, <5>3
      <4> QED
        BY <4>1, <4>2
    <3>3. (late[k] + Unsaved(k)) + Risk(k)' <= claimed[k] * Unstopped
      <4>1. PICK all : all = claimed[k] * Unstopped
        OBVIOUS
      <4>2. all \in Nat
        BY <1>5, <1>10, <2>1, <4>1, TimesMore
      <4> QED
        BY <1>5, <2>1, <3>1, <3>2, <4>1, <4>2
    <3>4. /\ k \notin dropped => counted[k] + (late[k] + Unsaved(k)) + 0 = spent[k]
          /\ (late[k] + Unsaved(k)) + 0 <= spent[k]
      BY <1>5, <2>1, <3>1
    <3> QED
      BY <1>3, <2>1, <2>2, <3>3, <3>4 DEF AnswersKept
  <2> QED
    BY <2>2, <2>4, <2>5, <2>6 DEF JobKept
<1>12. ASSUME NEW k \in Spenders \ V PROVE JobKept(k)' /\ Unsaved(k)' = Unsaved(k) /\ Owing(k)' = Owing(k)
  <2>1. stage'[k] = stage[k] /\ late'[k] = late[k] /\ (k \in void' <=> k \in void) /\ pass'[k] = pass[k]
    BY <1>3, <1>6
  <2>2. Sum(k)' = Sum(k) /\ Unsaved(k)' = Unsaved(k) /\ Owing(k)' = Owing(k) /\ Risk(k)' = Risk(k)
    BY <1>3, <2>1 DEF Sum, Unsaved, Owing, Risk
  <2>3. AttemptKept(k)'
    BY <1>1, <1>3, <2>1, <2>2 DEF AttemptKept
  <2>4. LimitKept(k)'
    BY <1>1, <1>3, <1>9, <2>1, <2>2 DEF LimitKept
  <2>5. AnswersKept(k)'
    BY <1>1, <1>3, <2>1, <2>2 DEF AnswersKept
  <2> QED
    BY <2>2, <2>3, <2>4, <2>5 DEF JobKept
<1>13. \A k \in Spenders : stage'[k] = "absent" <=> stage[k] = "absent"
  BY <1>4, <1>6, <1>7
<1>14. Existing' = Existing /\ Most' = Most
  <2>1. \A c \in Subtasks : c \in Spenders
    BY DEF Spenders
  <2> QED
    BY <1>3, <1>13, <2>1 DEF Existing, Most
<1>15. SharesKept'
  <2>1. Master \in Spenders /\ \A c \in Subtasks : c \in Spenders
    BY DEF Spenders
  <2> QED
    BY <1>1, <1>3, <1>13, <2>1 DEF SharesKept
<1>16. MostKept'
  <2>1. Master \in Spenders
    BY DEF Spenders
  <2> QED
    BY <1>9, <1>14, <2>1 DEF BudgetInv, MostKept, Total, Units
<1>17. IsFiniteSet(Spenders) /\ daily \in Nat /\ Cardinality(Spenders) \in Nat /\ DailyQuota \in Nat
  BY <1>1, BudgetTypes
<1>18. QuotaKept'
  <2>1. PICK f, g : f = Owings /\ g = Owings'
    OBVIOUS
  <2>2. f = [k \in Spenders |-> Owing(k)] /\ g = [k \in Spenders |-> Owing(k)']
    BY <2>1 DEF Owings
  <2>3. \A k \in Spenders : Owing(k) \in Nat
    BY <1>1, OwingIs
  <2>4. \A k \in Spenders : f[k] \in Nat /\ g[k] \in Nat /\ g[k] <= f[k]
    BY <1>11, <1>12, <2>2, <2>3
  <2>5. Total(g, Spenders) <= Total(f, Spenders) /\ Total(f, Spenders) \in Nat /\ Total(g, Spenders) \in Nat
    BY <1>17, <2>4, TotalBelow, UnitsFinite
  <2>6. PICK most : most = DailyQuota + Cardinality(Spenders) * Many(MaxCorrections + 1)
    OBVIOUS
  <2>7. most \in Nat
    <3>1. MaxCorrections + 1 \in Nat
      BY ManyMore
    <3>2. Many(MaxCorrections + 1) \in Nat
      BY <3>1, ManyMore
    <3>3. Cardinality(Spenders) * Many(MaxCorrections + 1) \in Nat
      BY <1>17, <3>2, TimesMore
    <3> QED
      BY <1>17, <2>6, <3>3
  <2>8. daily + Total(f, Spenders) < most
    BY <2>1, <2>6 DEF BudgetInv, QuotaKept
  <2>9. daily + Total(g, Spenders) < most
    BY <1>17, <2>5, <2>7, <2>8
  <2> QED
    BY <1>3, <2>1, <2>6, <2>9 DEF QuotaKept, Total, Units
<1>19. daily' + Total(Unseen, Spenders)' = Total(spent, Spenders)'
  <2>1. PICK f, g : f = Unseen /\ g = Unseen'
    OBVIOUS
  <2>2. f = [k \in Spenders |-> late[k] + Unsaved(k)] /\ g = [k \in Spenders |-> late'[k] + Unsaved(k)']
    BY <2>1 DEF Unseen
  <2>3. \A k \in Spenders : f[k] = g[k]
    <3>1. \A k \in V : f[k] = g[k]
      BY <1>4, <1>5, <1>6, <1>11, <2>2
    <3>2. \A k \in Spenders \ V : f[k] = g[k]
      BY <1>6, <1>12, <2>2
    <3> QED
      BY <3>1, <3>2
  <2>4. Total(f, Spenders) = Total(g, Spenders)
    BY <2>3, UnitsSame
  <2>5. daily + Total(f, Spenders) = Total(spent, Spenders)
    BY <2>1 DEF BudgetInv
  <2> QED
    BY <1>3, <2>1, <2>4, <2>5 DEF Total, Units
<1> QED
  BY <1>8, <1>11, <1>12, <1>15, <1>16, <1>18, <1>19 DEF BudgetInv

LEMMA ExistingFinite ==
  ASSUME BudgetTypeOK
  PROVE  IsFiniteSet(Existing) /\ Cardinality(Existing) \in Nat
<1>1. Existing \in SUBSET Subtasks /\ IsFiniteSet(Subtasks)
  BY BudgetTypes DEF Existing
<1> QED
  BY <1>1, FS_Subset, FS_CardinalityType

\* A subtask gets what its parent has not used and not given away.
LEMMA ShareStep ==
  ASSUME BudgetInv, NEW c \in Subtasks, NEW amount \in Amounts, CreateShare(c, amount)
  PROVE  BudgetInv'
<1>1. /\ stage[Master] = "call" /\ stage[c] = "absent" /\ Master \notin void
      /\ stage' = [stage EXCEPT ![c] = "queued"] /\ limit' = [limit EXCEPT ![c] = amount] /\ pass' = pass
      /\ void' = void /\ called' = called /\ claimed' = claimed /\ retried' = retried /\ counted' = counted
      /\ daily' = daily /\ spent' = spent /\ late' = late /\ dropped' = dropped
  BY DEF CreateShare, At, Stay, Goto, countVars
<1>2. amount.tokens \in Nat \ {0} /\ amount.calls \in Nat \ {0} /\ amount \in [tokens : Nat \ {0}, calls : Nat \ {0}]
  BY BudgetAssumption
<1>3. /\ amount.tokens + Reserved(Master, "tokens") + counted[Master] < limit[Master].tokens
      /\ amount.calls + Reserved(Master, "calls") + (called[Master] + 1) < limit[Master].calls
  <2>1. "tokens" \in DOMAIN amount /\ "calls" \in DOMAIN amount
    BY <1>2
  <2>2. \A what \in DOMAIN amount :
       amount[what] + Reserved(Master, what) + [tokens |-> counted[Master], calls |-> called[Master] + 1][what]
         < limit[Master][what]
    BY DEF CreateShare
  <2> QED
    BY <2>1, <2>2
<1>4. BudgetTypeOK /\ SharesKept /\ \A k \in Spenders : JobKept(k) /\ AttemptKept(k) /\ LimitKept(k) /\ AnswersKept(k)
  BY DEF BudgetInv, JobKept
<1>5. /\ c \in Spenders /\ c # Master /\ Master \in Spenders
      /\ limit[c] = NoLimit /\ counted[c] = 0 /\ called[c] = 0 /\ spent[c] = 0
      /\ stage \in [Spenders -> Stages] /\ pass \in [Spenders -> PassType]
      /\ IsFiniteSet(Subtasks) /\ limit \in [Spenders -> {NoLimit, MasterLimit} \cup Amounts]
  BY <1>1, <1>4, BudgetTypes DEF SharesKept, BudgetTypeOK
<1>6. Overshoot \in Nat /\ Unstopped \in Nat
  BY ManyMore
<1>7. "queued" \notin Executing \cup {"head", "absent", "call", "asked", "final", "correcting"}
      /\ "absent" \notin Executing \cup {"head", "cancelled", "final", "correcting"} /\ "queued" \in Stages
  BY DEF Executing, Stages, AtRest
<1>8. /\ stage' \in [Spenders -> Stages] /\ limit' \in [Spenders -> {NoLimit, MasterLimit} \cup Amounts]
      /\ stage'[c] = "queued" /\ limit'[c] = amount
      /\ \A k \in Spenders \ {c} : stage'[k] = stage[k] /\ limit'[k] = limit[k]
  BY <1>1, <1>5, <1>7
<1>9. pass[c] = NoPass /\ c \notin void /\ late[c] = 0
  <2>1. pass[c] = NoPass
    BY <1>1, <1>4, <1>5, <1>7 DEF BudgetTypeOK
  <2>2. c \notin void
    BY <1>1, <1>4, <1>5, <1>7 DEF AttemptKept
  <2>3. late[c] + Unsaved(c) <= 0 /\ late[c] \in Nat /\ Unsaved(c) \in Nat
    BY <1>4, <1>5, BudgetTypes, UnsavedIs DEF AnswersKept
  <2> QED
    BY <2>1, <2>2, <2>3
<1>10. BudgetTypeOK'
  <2>1. \A k \in Spenders : pass'[k] # NoPass => stage'[k] \in Executing \cup {"head"}
    BY <1>1, <1>4, <1>8, <1>9 DEF BudgetTypeOK
  <2> QED
    BY <1>1, <1>4, <1>8, <2>1 DEF BudgetTypeOK, Stages, AtRest
<1>11. /\ Reserved(Master, "tokens")' = Reserved(Master, "tokens") + amount.tokens
       /\ Reserved(Master, "calls")' = Reserved(Master, "calls") + amount.calls
       /\ \A k \in Spenders \ {Master}, what \in {"tokens", "calls"} : Reserved(k, what)' = 0 /\ Reserved(k, what) = 0
  <2>1. ASSUME NEW what \in {"tokens", "calls"}
        PROVE  Reserved(Master, what)' = Reserved(Master, what) + amount[what]
    <3>1. PICK old, new : old = Shares(what) /\ new = Shares(what)'
      OBVIOUS
    <3>2. old = [k \in Subtasks |-> limit[k][what]] /\ new = [k \in Subtasks |-> limit'[k][what]]
      BY <3>1 DEF Shares
    <3>3. (\A k \in Subtasks \ {c} : new[k] = old[k]) /\ new[c] = amount[what] /\ old[c] = 0
      BY <1>5, <1>8, <3>2 DEF NoLimit, Spenders
    <3>4. \A k \in Subtasks : old[k] \in Nat
      BY <1>4, <3>2, BudgetTypes
    <3>5. amount[what] \in Nat
      BY <1>2
    <3>6. \A k \in Subtasks : old[k] \in Nat /\ new[k] \in Nat
      BY <3>3, <3>4, <3>5
    <3>7. Total(new, Subtasks) = Total(old, Subtasks) + new[c] - old[c]
      BY <1>5, <3>3, <3>6, TotalChanges
    <3>8. Reserved(Master, what) = Total(old, Subtasks) /\ Reserved(Master, what)' = Total(new, Subtasks)
      BY <3>1 DEF Reserved, Total, Units
    <3>9. Total(old, Subtasks) \in Nat /\ new[c] \in Nat
      BY <1>5, <3>6, UnitsFinite
    <3> QED
      BY <3>3, <3>7, <3>8, <3>9
  <2> QED
    BY <2>1 DEF Reserved
<1>12. SharesKept'
  BY <1>1, <1>4, <1>5, <1>8 DEF SharesKept, Spenders
<1>13. \A k \in Spenders : Sum(k)' = Sum(k) /\ Unsaved(k)' = Unsaved(k) /\ Owing(k)' = Owing(k) /\ Risk(k)' = Risk(k)
  <2>1. \A k \in Spenders \ {c} : Sum(k)' = Sum(k) /\ Unsaved(k)' = Unsaved(k) /\ Owing(k)' = Owing(k) /\ Risk(k)' = Risk(k)
    BY <1>1, <1>8 DEF Sum, Unsaved, Owing, Risk
  <2>2. Sum(c)' = Sum(c) /\ Unsaved(c)' = Unsaved(c) /\ Risk(c)' = Risk(c)
    BY <1>1, <1>7, <1>8 DEF Sum, Unsaved, Risk
  <2>3. Rest("queued", pass[c].left) = 0 /\ Rest("absent", pass[c].left) = 0
    BY DEF Rest
  <2>4. Owing(c)' = Owing(c)
    BY <1>1, <1>8, <2>2, <2>3 DEF Owing
  <2> QED
    BY <2>1, <2>2, <2>4
<1>14. ASSUME NEW k \in Spenders PROVE JobKept(k)'
  <2>1. AttemptKept(k)'
    <3>1. CASE k = c
      BY <1>1, <1>7, <1>8, <1>9, <3>1 DEF AttemptKept
    <3>2. CASE k # c
      BY <1>1, <1>4, <1>8, <1>13, <3>2 DEF AttemptKept
    <3> QED
      BY <3>1, <3>2
  <2>2. AnswersKept(k)'
    BY <1>1, <1>4, <1>13 DEF AnswersKept
  <2>3. LimitKept(k)'
    <3>1. CASE k = c
      <4>1. Unsaved(k)' = 0 /\ Room("queued", pass[k].left) = 0
        <5>1. Rest("queued", pass[k].left) = 0
          BY DEF Rest
        <5> QED
          BY <1>7, <1>8, <3>1, <5>1, ManyMore DEF Unsaved, Room
      <4>2. called[k] + 0 <= amount.calls /\ counted[k] + 0 + 0 + 0 <= amount.tokens + Overshoot
            /\ counted[k] + 0 + 0 <= amount.tokens + Overshoot
        BY <1>2, <1>5, <1>6, <3>1
      <4> QED
        BY <1>1, <1>5, <1>7, <1>8, <1>11, <3>1, <4>1, <4>2 DEF LimitKept
    <3>2. CASE k = Master
      <4>1. /\ Reserved(Master, "tokens") \in Nat /\ Reserved(Master, "calls") \in Nat
            /\ counted[Master] \in Nat /\ called[Master] \in Nat
            /\ limit[Master].tokens \in Nat /\ limit[Master].calls \in Nat
        BY <1>4, <1>5, BudgetTypes, ReservedIsNat
      <4>2. limit'[Master] = limit[Master] /\ stage'[Master] = "call"
        BY <1>1, <1>5, <1>8
      <4>3. Unsaved(Master)' = 0 /\ Room("call", pass[Master].left) = 0
        <5>1. Rest("call", pass[Master].left) = 0
          BY DEF Rest
        <5> QED
          BY <4>2, <5>1, ManyMore DEF Unsaved, Room
      <4>4. /\ called[Master] + (Reserved(Master, "calls") + amount.calls) < limit[Master].calls
            /\ called[Master] + (Reserved(Master, "calls") + amount.calls) <= limit[Master].calls
            /\ counted[Master] + 0 + (Reserved(Master, "tokens") + amount.tokens) <= limit[Master].tokens + Overshoot
            /\ counted[Master] + 0 + (Reserved(Master, "tokens") + amount.tokens) + 0 <= limit[Master].tokens + Overshoot
        BY <1>2, <1>3, <1>6, <4>1
      <4> QED
        BY <1>1, <1>11, <3>2, <4>2, <4>3, <4>4 DEF LimitKept
    <3>3. CASE k \notin {c, Master}
      <4>1. Reserved(k, "calls")' = Reserved(k, "calls") /\ Reserved(k, "tokens")' = Reserved(k, "tokens")
        BY <1>11, <3>3
      <4>2. stage'[k] = stage[k] /\ limit'[k] = limit[k]
        BY <1>8, <3>3
      <4> QED
        BY <1>1, <1>4, <1>13, <4>1, <4>2 DEF LimitKept
    <3> QED
      BY <3>1, <3>2, <3>3
  <2> QED
    BY <2>1, <2>2, <2>3 DEF JobKept
<1>15. MostKept'
  <2>1. PICK old, new : old = Most /\ new = Most'
    OBVIOUS
  <2>2. /\ old = [k \in Subtasks |-> IF stage[k] = "absent" THEN 0 ELSE limit[k].tokens + Overshoot]
        /\ new = [k \in Subtasks |-> IF stage'[k] = "absent" THEN 0 ELSE limit'[k].tokens + Overshoot]
    BY <2>1 DEF Most, Overshoot
  <2>3. (\A k \in Subtasks \ {c} : new[k] = old[k]) /\ new[c] = amount.tokens + Overshoot /\ old[c] = 0
    BY <1>1, <1>8, <2>2 DEF Spenders
  <2>4. \A k \in Subtasks : old[k] \in Nat /\ new[k] \in Nat
    <3>1. \A k \in Subtasks : limit[k].tokens + Overshoot \in Nat
      BY <1>4, <1>6, BudgetTypes
    <3>2. \A k \in Subtasks : old[k] \in Nat
      BY <2>2, <3>1
    <3>3. new[c] \in Nat
      BY <1>2, <1>6, <2>3
    <3> QED
      BY <2>3, <3>2, <3>3
  <2>5. Total(new, Subtasks) = Total(old, Subtasks) + new[c] - old[c]
    BY <1>5, <2>3, <2>4, TotalChanges
  <2>6. PICK few, more : few = Cardinality(Existing) /\ more = Cardinality(Existing')
    OBVIOUS
  <2>7. few \in Nat /\ more = few + 1
    <3>1. Existing' = Existing \cup {c} /\ c \notin Existing
      BY <1>1, <1>8 DEF Existing, Spenders
    <3>2. IsFiniteSet(Existing) /\ Cardinality(Existing) \in Nat
      BY <1>4, ExistingFinite
    <3>3. Cardinality(Existing \cup {c}) = Cardinality(Existing) + 1
      BY <3>1, <3>2, FS_AddElement
    <3> QED
      BY <2>6, <3>1, <3>2, <3>3
  <2>8. more * Overshoot = few * Overshoot + Overshoot /\ few * Overshoot \in Nat
    BY <1>6, <2>7, TimesMore
  <2>9. Total(old, Subtasks) = Reserved(Master, "tokens") + few * Overshoot
    BY <2>1, <2>6 DEF BudgetInv, MostKept
  <2>10. Reserved(Master, "tokens") \in Nat
    BY <1>4, <1>5, ReservedIsNat
  <2>11. Total(new, Subtasks) = Reserved(Master, "tokens")' + more * Overshoot
    BY <1>2, <1>6, <1>11, <2>3, <2>5, <2>8, <2>9, <2>10
  <2> QED
    BY <2>1, <2>6, <2>11 DEF MostKept, Total, Units, Overshoot
<1>16. QuotaKept' /\ daily' + Total(Unseen, Spenders)' = Total(spent, Spenders)'
  <2>1. Owings' = Owings /\ Unseen' = Unseen
    BY <1>1, <1>13 DEF Owings, Unseen
  <2> QED
    BY <1>1, <2>1 DEF BudgetInv, QuotaKept, Total, Units
<1> QED
  BY <1>10, <1>12, <1>14, <1>15, <1>16 DEF BudgetInv

LEMMA BudgetStart ==
  ASSUME BudgetInit
  PROVE  BudgetInv
<1>1. /\ Master \notin Subtasks /\ IsFiniteSet(Subtasks) /\ DailyQuota \in Nat \ {0}
      /\ MasterLimit.tokens \in Nat \ {0} /\ MasterLimit.calls \in Nat \ {0}
  BY BudgetAssumption
<1>2. /\ stage = [j \in Spenders |-> IF j = Master THEN "queued" ELSE "absent"]
      /\ limit = [j \in Spenders |-> IF j = Master THEN MasterLimit ELSE NoLimit]
      /\ pass = [j \in Spenders |-> NoPass] /\ counted = [j \in Spenders |-> 0] /\ called = [j \in Spenders |-> 0]
      /\ claimed = [j \in Spenders |-> 0] /\ retried = [j \in Spenders |-> 0] /\ spent = [j \in Spenders |-> 0]
      /\ late = [j \in Spenders |-> 0] /\ daily = 0 /\ dropped = {} /\ void = {}
  BY DEF BudgetInit
<1>3. /\ Master \in Spenders /\ IsFiniteSet(Spenders) /\ Cardinality(Spenders) \in Nat
      /\ \A c \in Subtasks : c \in Spenders /\ c # Master
  BY <1>1, FS_AddElement, FS_CardinalityType DEF Spenders
<1>4. NoPass \in PassType /\ NoPass.left = 0
  BY StageKinds
<1>5. BudgetTypeOK
  BY <1>2, <1>4 DEF BudgetTypeOK, PassType
<1>6. SharesKept
  BY <1>2, <1>3 DEF SharesKept
<1>7. \A what \in {"tokens", "calls"}, j \in Spenders : Reserved(j, what) = 0
  <2>1. ASSUME NEW what \in {"tokens", "calls"} PROVE Total(Shares(what), Subtasks) = 0
    <3>1. \A c \in Subtasks : Shares(what)[c] = 0
      BY <1>2, <1>3 DEF Shares, NoLimit
    <3> QED
      BY <3>1, TotalNone
  <2> QED
    BY <2>1 DEF Reserved
<1>8. Overshoot \in Nat /\ Unstopped \in Nat /\ Many(0) = 0
  BY ManyMore
<1>9. ASSUME NEW j \in Spenders PROVE JobKept(j) /\ Unsaved(j) = 0 /\ Owing(j) = 0
  <2>1. stage[j] \notin Executing \cup {"head", "asked", "final", "correcting", "call"} /\ j \notin void
    BY <1>2 DEF Executing
  <2>2. Unsaved(j) = 0 /\ Risk(j) = 0 /\ Rest(stage[j], pass[j].left) = 0 /\ pass[j].left = 0
    BY <1>2, <1>4, <2>1 DEF Unsaved, Risk, Rest
  <2>3. Room(stage[j], pass[j].left) = 0 /\ Owing(j) = 0
    BY <1>8, <2>1, <2>2 DEF Room, Owing
  <2>4. AttemptKept(j)
    BY <2>1 DEF AttemptKept
  <2>5. LimitKept(j)
    <3>1. limit[j].tokens \in Nat /\ limit[j].calls \in Nat
      BY <1>1, <1>2 DEF NoLimit
    <3>2. counted[j] = 0 /\ called[j] = 0 /\ Reserved(j, "tokens") = 0 /\ Reserved(j, "calls") = 0
      BY <1>2, <1>7
    <3> QED
      BY <1>8, <2>1, <2>2, <2>3, <3>1, <3>2 DEF LimitKept
  <2>6. AnswersKept(j)
    <3>1. counted[j] = 0 /\ late[j] = 0 /\ claimed[j] = 0 /\ spent[j] = 0
      BY <1>2
    <3> QED
      BY <1>8, <2>2, <3>1 DEF AnswersKept
  <2> QED
    BY <2>2, <2>3, <2>4, <2>5, <2>6 DEF JobKept
<1>10. MostKept
  <2>1. Existing = {}
    BY <1>2, <1>3 DEF Existing
  <2>2. Cardinality(Existing) * Overshoot = 0
    BY <1>8, <2>1, FS_EmptySet
  <2>3. \A c \in Subtasks : Most[c] = 0
    BY <1>2, <1>3 DEF Most
  <2>4. Total(Most, Subtasks) = 0
    BY <2>3, TotalNone
  <2> QED
    BY <1>3, <1>7, <2>2, <2>4 DEF MostKept
<1>11. QuotaKept
  <2>1. \A j \in Spenders : Owings[j] = 0
    BY <1>9 DEF Owings
  <2>2. Total(Owings, Spenders) = 0
    BY <2>1, TotalNone
  <2>3. MaxCorrections + 1 \in Nat
    BY ManyMore
  <2>4. Many(MaxCorrections + 1) \in Nat
    BY <2>3, ManyMore
  <2>5. Cardinality(Spenders) * Many(MaxCorrections + 1) \in Nat
    BY <1>3, <2>4, TimesMore
  <2> QED
    BY <1>1, <1>2, <2>2, <2>5 DEF QuotaKept
<1>12. daily + Total(Unseen, Spenders) = Total(spent, Spenders)
  <2>1. \A j \in Spenders : Unseen[j] = 0 /\ spent[j] = 0
    BY <1>2, <1>9 DEF Unseen
  <2> QED
    BY <1>2, <2>1, TotalNone
<1> QED
  BY <1>5, <1>6, <1>9, <1>10, <1>11, <1>12 DEF BudgetInv

LEMMA BudgetStep ==
  ASSUME BudgetInv, [BudgetNext]_budgetVars
  PROVE  BudgetInv'
<1>1. CASE \E j \in Spenders : ClaimSpender(j) \/ BeginPass(j)
  BY <1>1, ClaimsStep, BeginsStep
<1>2. CASE \E j \in Spenders : AskWithinBudget(j) \/ CallWithinBudget(j)
  BY <1>2, ChecksStep
<1>3. CASE \E j \in Spenders : \E tokens \in 1 .. MaxAnswer : AnswerCosts(j, tokens) \/ CorrectionCosts(j, tokens)
  BY <1>3, AnswerStepCounts, CorrectionStep
<1>4. CASE \E j \in Spenders : AskCorrection(j) \/ Heartbeat(j)
  BY <1>4, SavesStep
<1>5. CASE \E j \in Spenders : \E transient \in BOOLEAN : ModelUnavailable(j, transient)
  BY <1>5, UnavailableStep
<1>6. CASE \E j \in Spenders : CallEnds(j)
  BY <1>6, CallEndsStep
<1>7. CASE \E j \in Spenders : \/ CallSuspended(j) \/ AttemptCompletes(j) \/ AttemptTimesOut(j)
                             \/ AttemptRaises(j) \/ AttemptInterrupted(j)
                             \/ \E how \in {"failed", "blocked"} : AttemptStops(j, how)
  BY <1>7, EndingsStep
<1>8. CASE \E j \in Spenders : AttemptDies(j) \/ CancelSpender(j)
  BY <1>8, WorkerDiesStep, CancelStep
<1>9. CASE JoinShares \/ \E j \in Spenders : RequeueSpender(j)
  BY <1>9, WaitersStep
<1>10. CASE \E c \in Subtasks, amount \in Amounts : CreateShare(c, amount)
  BY <1>10, ShareStep
<1>11. CASE UNCHANGED budgetVars
  <2>1. /\ stage' = stage /\ pass' = pass /\ limit' = limit /\ void' = void /\ called' = called /\ claimed' = claimed
        /\ retried' = retried /\ counted' = counted /\ daily' = daily /\ spent' = spent /\ late' = late
        /\ dropped' = dropped
    BY <1>11 DEF budgetVars, rowVars, countVars
  <2>2. /\ Existing' = Existing /\ Unseen' = Unseen /\ Owings' = Owings /\ Most' = Most
        /\ \A j \in Spenders : /\ Sum(j)' = Sum(j) /\ Unsaved(j)' = Unsaved(j) /\ Risk(j)' = Risk(j)
                             /\ Reserved(j, "tokens")' = Reserved(j, "tokens")
                             /\ Reserved(j, "calls")' = Reserved(j, "calls")
    BY <2>1 DEF Existing, Unseen, Owings, Owing, Most, Sum, Unsaved, Risk, Reserved, Shares, Total, Units
  <2>3. BudgetTypeOK' /\ SharesKept'
    BY <2>1 DEF BudgetInv, BudgetTypeOK, SharesKept
  <2>4. ASSUME NEW j \in Spenders PROVE JobKept(j)'
    <3>1. AttemptKept(j) /\ LimitKept(j) /\ AnswersKept(j)
      BY DEF BudgetInv, JobKept
    <3> QED
      BY <2>1, <2>2, <3>1 DEF JobKept, AttemptKept, LimitKept, AnswersKept
  <2>5. MostKept' /\ QuotaKept' /\ daily' + Total(Unseen, Spenders)' = Total(spent, Spenders)'
    <3>1. Master \in Spenders
      BY DEF Spenders
    <3> QED
      BY <2>1, <2>2, <3>1 DEF BudgetInv, MostKept, QuotaKept, Total, Units
  <2> QED
    BY <2>3, <2>4, <2>5 DEF BudgetInv
<1> QED
  BY <1>1, <1>2, <1>3, <1>4, <1>5, <1>6, <1>7, <1>8, <1>9, <1>10, <1>11 DEF BudgetNext

\* The bounds of a family of jobs follow from those of its members.
LEMMA BudgetsFollow ==
  ASSUME BudgetInv
  PROVE  BudgetsHold
<1>1. BudgetTypeOK /\ SharesKept /\ \A j \in Spenders : AttemptKept(j) /\ LimitKept(j) /\ AnswersKept(j)
  BY DEF BudgetInv, JobKept
<1>2. /\ IsFiniteSet(Spenders) /\ IsFiniteSet(Subtasks) /\ Master \in Spenders /\ Master \notin Subtasks
      /\ Spenders = Subtasks \cup {Master} /\ limit[Master] = MasterLimit
      /\ daily \in Nat /\ DailyQuota \in Nat /\ Cardinality(Spenders) \in Nat
      /\ \A j \in Spenders : /\ counted[j] \in Nat /\ called[j] \in Nat /\ spent[j] \in Nat /\ late[j] \in Nat
                           /\ claimed[j] \in Nat /\ limit[j].tokens \in Nat /\ limit[j].calls \in Nat
                           /\ Unsaved(j) \in Nat
  BY <1>1, BudgetTypes, UnsavedIs DEF SharesKept
<1>3. Reserved(Master, "tokens") \in Nat /\ Reserved(Master, "calls") \in Nat
      /\ \A c \in Subtasks : Reserved(c, "tokens") = 0 /\ Reserved(c, "calls") = 0
  BY <1>1, <1>2, ReservedIsNat DEF Reserved
<1>4. Overshoot \in Nat /\ Unstopped \in Nat /\ MaxCorrections + 1 \in Nat
  BY ManyMore
<1>5. Total(called, Spenders) <= MasterLimit.calls
  <2>1. \A c \in Subtasks : Shares("calls")[c] \in Nat /\ called[c] <= Shares("calls")[c]
    BY <1>1, <1>2, <1>3 DEF Shares, LimitKept
  <2>2. Total(called, Subtasks) <= Total(Shares("calls"), Subtasks)
    BY <1>2, <2>1, TotalBelow
  <2>3. Total(Shares("calls"), Subtasks) = Reserved(Master, "calls")
    BY DEF Reserved
  <2>4. Total(called, Spenders) = Total(called, Subtasks) + called[Master]
    BY <1>2, TotalWith
  <2>5. Total(called, Subtasks) \in Nat
    BY <1>2, UnitsFinite
  <2>6. called[Master] + Reserved(Master, "calls") <= MasterLimit.calls /\ MasterLimit.calls \in Nat
    BY <1>1, <1>2 DEF LimitKept
  <2> QED
    BY <1>2, <1>3, <2>2, <2>3, <2>4, <2>5, <2>6
<1>6. ASSUME dropped = {}
      PROVE  Total([j \in Spenders |-> spent[j] - late[j]], Spenders)
               <= MasterLimit.tokens + (Cardinality(Existing) + 1) * Overshoot
  <2>1. PICK took : took = [j \in Spenders |-> spent[j] - late[j]]
    OBVIOUS
  <2>2. \A j \in Spenders : took[j] = counted[j] + Unsaved(j) /\ took[j] \in Nat
    <3> SUFFICES ASSUME NEW j \in Spenders PROVE took[j] = counted[j] + Unsaved(j) /\ took[j] \in Nat
      OBVIOUS
    <3>1. counted[j] + late[j] + Unsaved(j) = spent[j]
      BY <1>1, <1>6 DEF AnswersKept
    <3> QED
      BY <1>2, <2>1, <3>1
  <2>3. \A c \in Subtasks : Most[c] \in Nat /\ took[c] <= Most[c]
    <3> SUFFICES ASSUME NEW c \in Subtasks PROVE Most[c] \in Nat /\ took[c] <= Most[c]
      OBVIOUS
    <3>1. CASE stage[c] = "absent"
      <4>1. counted[c] = 0 /\ Most[c] = 0
        BY <1>1, <3>1 DEF SharesKept, Most
      <4>2. Unsaved(c) = 0
        BY <3>1 DEF Unsaved
      <4> QED
        BY <1>2, <2>2, <4>1, <4>2
    <3>2. CASE stage[c] # "absent"
      <4>1. Most[c] = limit[c].tokens + Overshoot
        BY <3>2 DEF Most
      <4>2. counted[c] + Unsaved(c) + 0 <= limit[c].tokens + Overshoot
        BY <1>1, <1>2, <1>3 DEF LimitKept
      <4> QED
        BY <1>2, <1>4, <2>2, <4>1, <4>2
    <3> QED
      BY <3>1, <3>2
  <2>4. Total(took, Subtasks) <= Total(Most, Subtasks)
    BY <1>2, <2>2, <2>3, TotalBelow
  <2>5. PICK few : few = Cardinality(Existing)
    OBVIOUS
  <2>6. few \in Nat
    BY <1>1, <2>5, ExistingFinite
  <2>7. (few + 1) * Overshoot = few * Overshoot + Overshoot /\ few * Overshoot \in Nat
    BY <1>4, <2>6, TimesMore
  <2>8. Total(Most, Subtasks) = Reserved(Master, "tokens") + few * Overshoot
    BY <2>5 DEF BudgetInv, MostKept
  <2>9. Total(took, Spenders) = Total(took, Subtasks) + took[Master]
    BY <1>2, <2>2, TotalWith
  <2>10. Total(took, Subtasks) \in Nat
    BY <1>2, <2>2, UnitsFinite
  <2>11. took[Master] + Reserved(Master, "tokens") <= MasterLimit.tokens + Overshoot /\ MasterLimit.tokens \in Nat
    <3>1. counted[Master] + Unsaved(Master) + Reserved(Master, "tokens") <= MasterLimit.tokens + Overshoot
      BY <1>1, <1>2 DEF LimitKept
    <3> QED
      BY <1>2, <2>2, <3>1
  <2>12. took[Master] \in Nat
    BY <1>2, <2>2
  <2>13. PICK extra, more : extra = few * Overshoot /\ more = (few + 1) * Overshoot
    OBVIOUS
  <2>14. Total(took, Spenders) <= MasterLimit.tokens + more
    BY <1>3, <1>4, <2>4, <2>7, <2>8, <2>9, <2>10, <2>11, <2>12, <2>13
  <2> QED
    BY <2>1, <2>5, <2>13, <2>14
<1>7. UsageAccounted
  <2>1. PICK unseen : unseen = [j \in Spenders |-> late[j] + Unsaved(j)]
    OBVIOUS
  <2>2. unseen = Unseen
    BY <2>1 DEF Unseen
  <2>3. daily + Total(unseen, Spenders) = Total(spent, Spenders)
    BY <2>2 DEF BudgetInv
  <2>4. daily < DailyQuota + Cardinality(Spenders) * ((MaxCorrections + 1) * MaxAnswer)
    <3>1. \A j \in Spenders : Owings[j] \in Nat
      BY <1>1, OwingIs DEF Owings
    <3>2. Total(Owings, Spenders) \in Nat
      BY <1>2, <3>1, UnitsFinite
    <3>3. Many(MaxCorrections + 1) = (MaxCorrections + 1) * MaxAnswer
      BY DEF Many
    <3>4. PICK most : most = Cardinality(Spenders) * Many(MaxCorrections + 1)
      OBVIOUS
    <3>5. Many(MaxCorrections + 1) \in Nat
      BY <1>4, ManyMore
    <3>6. most \in Nat
      BY <1>2, <3>4, <3>5, TimesMore
    <3>7. daily + Total(Owings, Spenders) < DailyQuota + most
      BY <3>4 DEF BudgetInv, QuotaKept
    <3>8. daily < DailyQuota + most
      BY <1>2, <3>2, <3>6, <3>7
    <3> QED
      BY <3>3, <3>4, <3>8
  <2>5. \A j \in Spenders \ dropped : counted[j] + unseen[j] = spent[j]
    <3> SUFFICES ASSUME NEW j \in Spenders \ dropped PROVE counted[j] + unseen[j] = spent[j]
      OBVIOUS
    <3>1. counted[j] + late[j] + Unsaved(j) = spent[j]
      BY <1>1 DEF AnswersKept
    <3> QED
      BY <1>2, <2>1, <3>1
  <2>6. \A j \in Spenders : late[j] <= claimed[j] * Unstopped
    <3> SUFFICES ASSUME NEW j \in Spenders PROVE late[j] <= claimed[j] * Unstopped
      OBVIOUS
    <3>1. late[j] + Risk(j) <= claimed[j] * Unstopped
      BY <1>1 DEF AnswersKept
    <3>2. Risk(j) \in Nat
      BY <1>1, <1>4, WasteFits DEF Risk
    <3>3. PICK all : all = claimed[j] * Unstopped
      OBVIOUS
    <3>4. all \in Nat
      BY <1>2, <1>4, <3>3, TimesMore
    <3> QED
      BY <1>2, <3>1, <3>2, <3>3, <3>4
  <2> QED
    BY <2>1, <2>3, <2>4, <2>5, <2>6 DEF UsageAccounted
<1> QED
  BY <1>5, <1>6, <1>7 DEF BudgetsHold, FamilyWithinLimits

\* For any limits, number of subtasks, quota and corrections an answer may have,
\* and any order of claims, answers, corrections, cancels, failures, timeouts,
\* retries and deaths of workers: a job and its subtasks make no more calls than
\* the job alone may; what their rows count or are about to passes its tokens by
\* the last answer of each, or the corrections of that, at most, unless a counter
\* was overwritten; and the day counts every answer but those of cancelled jobs and
\* dead workers, which are no more than what one attempt has under way for each
\* claim (reserved_budget, create_subtask, budget_check, enforce_reply_language,
\* update_job_usage, job_token_usage).
THEOREM FamiliesStayWithin == BudgetSpec => [](BudgetTypeOK /\ BudgetsHold)
<1>1. BudgetInit => BudgetInv
  BY BudgetStart
<1>2. BudgetInv /\ [BudgetNext]_budgetVars => BudgetInv'
  BY BudgetStep
<1>3. BudgetInv => BudgetTypeOK /\ BudgetsHold
  BY BudgetsFollow DEF BudgetInv
<1> QED
  BY <1>1, <1>2, <1>3, PTL DEF BudgetSpec
=============================================================================
