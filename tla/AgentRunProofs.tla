--------------------------- MODULE AgentRunProofs ----------------------------
(***************************************************************************)
(* Theorems about interactive runs. The runs of the HTTP API: any number   *)
(* of servers on one database, sessions and runs, whichever of them crash, *)
(* restart and recover, and whichever of their writes raise. One run of    *)
(* the agent loop: any tools, rules, limits and answers. The tools of a    *)
(* request: any servers, names, skills, roles and failures.                *)
(***************************************************************************)
EXTENDS AgentRuns, AgentRuntime, ToolAccess, SequenceTheorems, FiniteSetTheorems,
        WellFoundedInduction, TLAPS

\* A set of numbers has a least one.
LEMMA LeastIndex ==
  ASSUME NEW T, T \subseteq Nat, T # {}
  PROVE  \E x \in T : \A y \in T : x <= y
<1> DEFINE R == OpToRel(<, Nat)
<1>1. IsWellFoundedOn(R, Nat)
  BY NatLessThanWellFounded
<1> HIDE DEF R
<1>2. PICK x \in T : \A y \in T : ~(<<y, x>> \in R)
  BY <1>1, WFMin, Zenon
<1>3. \A y \in T : y < x => <<y, x>> \in R
  BY DEF R, OpToRel
<1>4. \A y \in T : ~(y < x)
  BY <1>2, <1>3
<1> QED
  BY <1>4

-----------------------------------------------------------------------------
TaskType == [phase : {"none", "created", "awaiting", "delegating", "ended", "dropped", "over"}, cancel : BOOLEAN]

-----------------------------------------------------------------------------
(* The inductive invariant.                                                *)

\* A task is that of a top-level run of a process that lives.
TaskRows ==
  \A r \in RunIds : runTasks[r].phase # "none" =>
    /\ runRows[r].status # "none" /\ runRows[r].parent = NoRun
    /\ runRows[r].session \in Sessions /\ OwnerAlive(runRows[r])

\* A child belongs to the process of its parent, and is its only one.
Families ==
  /\ \A c \in RunIds : runRows[c].parent # NoRun =>
       LET p == runRows[c].parent IN
       /\ p \in RunIds /\ runRows[p].parent = NoRun
       /\ runRows[p].status # "none" /\ runRows[c].status # "none"
       /\ runRows[p].server = runRows[c].server /\ runRows[p].epoch = runRows[c].epoch
  /\ \A c, d \in RunIds : runRows[c].parent # NoRun /\ runRows[c].parent = runRows[d].parent => c = d

\* What agent_runs_active_session_idx enforces.
OneActiveRow ==
  \A r, o \in RunIds :
    /\ runRows[r].parent = NoRun /\ runRows[o].parent = NoRun
    /\ runRows[r].status \in ACTIVE /\ runRows[o].status \in ACTIVE
    /\ runRows[r].session = runRows[o].session
    => r = o

ExecutedRows ==
  \A r \in RunIds : Executes(r) =>
    runRows[r].status \in ACTIVE /\ active[runRows[r].server][runRows[r].session] = r

HeldRows ==
  \A s \in Servers, x \in Sessions : active[s][x] # NoRun =>
    LET r == active[s][x] IN
    /\ r \in RunIds /\ runTasks[r].phase \notin {"none", "over"}
    /\ runRows[r].server = s /\ runRows[r].session = x

\* Only a parent that waits for its child has one that is active in the table.
ChildrenClosed ==
  \A c \in RunIds :
    /\ runRows[c].parent # NoRun
    /\ runTasks[runRows[c].parent].phase \notin {"none", "delegating"}
    => runRows[c].status \notin ACTIVE \/ c \in unrecorded

\* A handler that is about to insert belongs to a process that lives.
BeginsAlive == \A s \in Servers : beginning[s] # NoSession => life[s] # "down"

RunsInv ==
  /\ AgentRunsTypeOK /\ BeginsAlive /\ TaskRows /\ Families /\ OneActiveRow
  /\ ExecutedRows /\ HeldRows /\ ChildrenClosed /\ ChildrenEndFirst /\ NoneIsOrphaned

-----------------------------------------------------------------------------
(* What the operations on the table leave alone.                           *)

\* Tables of the same runs, with other statuses.
SameRuns(t, u) ==
  \A r \in RunIds :
    /\ u[r].session = t[r].session /\ u[r].parent = t[r].parent
    /\ u[r].server = t[r].server /\ u[r].epoch = t[r].epoch
    /\ u[r].status = "none" <=> t[r].status = "none"

\* Some of the active runs are given another status.
Restated(t, X, status) == [r \in RunIds |-> IF r \in X THEN [t[r] EXCEPT !.status = status] ELSE t[r]]

LEMMA StatusesChange ==
  ASSUME NEW t \in [RunIds -> RowType], NEW X \in SUBSET RunIds, NEW status \in TERMINAL,
         \A r \in X : t[r].status \in ACTIVE
  PROVE  /\ Restated(t, X, status) \in [RunIds -> RowType] /\ SameRuns(t, Restated(t, X, status))
         /\ \A r \in RunIds : Restated(t, X, status)[r].status = IF r \in X THEN status ELSE t[r].status
<1> DEFINE u == Restated(t, X, status)
<1>1. status # "none" /\ status \in ACTIVE \cup TERMINAL /\ "none" \notin ACTIVE
  BY DEF TERMINAL, ACTIVE
<1>2. ASSUME NEW r \in RunIds
      PROVE  /\ u[r] \in RowType
             /\ u[r].session = t[r].session /\ u[r].parent = t[r].parent
             /\ u[r].server = t[r].server /\ u[r].epoch = t[r].epoch
             /\ u[r].status = IF r \in X THEN status ELSE t[r].status
  <2>1. t[r] \in RowType
    BY <1>2
  <2>2. CASE r \in X
    <3>1. u[r] = [t[r] EXCEPT !.status = status]
      BY <1>2, <2>2 DEF Restated
    <3> QED
      BY <1>1, <2>1, <2>2, <3>1 DEF RowType
  <2>3. CASE r \notin X
    BY <1>2, <2>1, <2>3 DEF Restated
  <2> QED
    BY <2>2, <2>3
<1>3. u \in [RunIds -> RowType]
  BY <1>2 DEF Restated
<1> HIDE DEF u
<1>4. SameRuns(t, u)
  BY <1>1, <1>2 DEF SameRuns
<1> QED
  BY <1>2, <1>3, <1>4 DEF u

LEMMA RecoveredFacts ==
  ASSUME AgentRunsTypeOK
  PROVE  /\ Recovered \in [RunIds -> RowType] /\ SameRuns(runRows, Recovered)
         /\ \A r \in RunIds : Recovered[r].status =
              IF runRows[r].status \in ACTIVE /\ ~OwnerAlive(runRows[r]) THEN "interrupted"
              ELSE runRows[r].status
<1>1. /\ runRows \in [RunIds -> RowType] /\ "interrupted" \in TERMINAL
      /\ StaleRun \in SUBSET RunIds /\ \A r \in StaleRun : runRows[r].status \in ACTIVE
  BY DEF AgentRunsTypeOK, TERMINAL, StaleRun
<1>2. Recovered = Restated(runRows, StaleRun, "interrupted")
  BY DEF Recovered, Restated
<1>3. \A r \in RunIds : r \in StaleRun <=> runRows[r].status \in ACTIVE /\ ~OwnerAlive(runRows[r])
  BY DEF StaleRun
<1>4. /\ Recovered \in [RunIds -> RowType] /\ SameRuns(runRows, Recovered)
      /\ \A r \in RunIds : Recovered[r].status = IF r \in StaleRun THEN "interrupted" ELSE runRows[r].status
  BY <1>1, <1>2, StatusesChange
<1> QED
  BY <1>3, <1>4

LEMMA FinishedFacts ==
  ASSUME NEW t \in [RunIds -> RowType], NEW r \in RunIds, NEW status \in TERMINAL
  PROVE  /\ Finished(t, r, status) \in [RunIds -> RowType] /\ SameRuns(t, Finished(t, r, status))
         /\ \A q \in RunIds : Finished(t, r, status)[q].status =
              IF q = r /\ t[r].status \in ACTIVE THEN status ELSE t[q].status
<1> DEFINE X == {q \in RunIds : q = r /\ t[r].status \in ACTIVE}
<1>1. Finished(t, r, status) = Restated(t, X, status)
  BY DEF Finished, Restated
<1>2. /\ X \in SUBSET RunIds /\ \A q \in X : t[q].status \in ACTIVE
      /\ t \in [RunIds -> RowType] /\ status \in TERMINAL
  OBVIOUS
<1> HIDE DEF X
<1>3. /\ Finished(t, r, status) \in [RunIds -> RowType] /\ SameRuns(t, Finished(t, r, status))
      /\ \A q \in RunIds : Finished(t, r, status)[q].status = IF q \in X THEN status ELSE t[q].status
  BY <1>1, <1>2, StatusesChange
<1> QED
  BY <1>3 DEF X

LEMMA ChildCancelledFacts ==
  ASSUME AgentRunsTypeOK, NEW r \in RunIds
  PROVE  /\ ChildCancelled(r) \in [RunIds -> RowType] /\ SameRuns(runRows, ChildCancelled(r))
         /\ \A q \in RunIds : ChildCancelled(r)[q].status =
              IF runRows[q].parent = r /\ runRows[q].status \in ACTIVE /\ runTasks[r].phase = "delegating"
              THEN "cancelled" ELSE runRows[q].status
<1> DEFINE X == {q \in RunIds : /\ runRows[q].parent = r /\ runRows[q].status \in ACTIVE
                                /\ runTasks[r].phase = "delegating"}
<1>1. ChildCancelled(r) = Restated(runRows, X, "cancelled")
  BY DEF ChildCancelled, Child, Restated
<1>2. /\ X \in SUBSET RunIds /\ \A q \in X : runRows[q].status \in ACTIVE
      /\ runRows \in [RunIds -> RowType] /\ "cancelled" \in TERMINAL
  BY DEF AgentRunsTypeOK, TERMINAL
<1> HIDE DEF X
<1>3. /\ ChildCancelled(r) \in [RunIds -> RowType] /\ SameRuns(runRows, ChildCancelled(r))
      /\ \A q \in RunIds : ChildCancelled(r)[q].status = IF q \in X THEN "cancelled" ELSE runRows[q].status
  BY <1>1, <1>2, StatusesChange
<1> QED
  BY <1>3 DEF X

-----------------------------------------------------------------------------
(* Steps that leave the phases of all tasks alone.                         *)

\* The table may be recovered, and servers may start: what executes lives.
LEMMA PhasesStay ==
  ASSUME RunsInv, AgentRunsTypeOK', BeginsAlive', runRows' = runRows \/ runRows' = Recovered,
         \A r \in RunIds : runTasks'[r].phase = runTasks[r].phase,
         UNCHANGED <<active, unrecorded>>,
         \A r \in RunIds : OwnerAlive(runRows[r]) => OwnerAlive(runRows[r])',
         \A r \in RunIds : runRows'[r].status \in ACTIVE /\ OwnerAlive(runRows[r])' => OwnerAlive(runRows[r])
  PROVE  RunsInv'
<1>1. /\ SameRuns(runRows, runRows')
      /\ \A r \in RunIds : runRows'[r].status \in ACTIVE => runRows[r].status \in ACTIVE
      /\ \A r \in RunIds : runRows[r].status \in ACTIVE /\ OwnerAlive(runRows[r]) =>
           runRows'[r].status \in ACTIVE
      /\ \A r \in RunIds : OwnerAlive(runRows[r]) => OwnerAlive(runRows[r])'
  <2>1. CASE runRows' = runRows
    BY <2>1 DEF SameRuns
  <2>2. CASE runRows' = Recovered
    <3>1. "interrupted" \notin ACTIVE /\ AgentRunsTypeOK
      BY DEF ACTIVE, RunsInv
    <3>2. /\ SameRuns(runRows, runRows')
          /\ \A r \in RunIds : runRows'[r].status =
               IF runRows[r].status \in ACTIVE /\ ~OwnerAlive(runRows[r]) THEN "interrupted"
               ELSE runRows[r].status
      BY <2>2, <3>1, RecoveredFacts
    <3> QED
      BY <3>1, <3>2
  <2> QED
    BY <2>1, <2>2
<1>2. \A r \in RunIds : Executes(r)' <=> Executes(r)
  BY DEF Executes
<1>3. TaskRows'
  BY <1>1 DEF RunsInv, TaskRows, SameRuns
<1>4. Families'
  BY <1>1 DEF RunsInv, Families, SameRuns
<1>5. OneActiveRow'
  BY <1>1 DEF RunsInv, OneActiveRow, SameRuns
<1>6. ExecutedRows'
  <2> SUFFICES ASSUME NEW r \in RunIds, Executes(r)
               PROVE  runRows'[r].status \in ACTIVE /\ active[runRows'[r].server][runRows'[r].session] = r
    BY <1>2 DEF ExecutedRows
  <2>1. OwnerAlive(runRows[r])
    BY DEF RunsInv, TaskRows, Executes
  <2> QED
    BY <1>1, <2>1 DEF RunsInv, ExecutedRows, SameRuns
<1>7. HeldRows'
  BY <1>1 DEF RunsInv, HeldRows, SameRuns
<1>8. ChildrenClosed'
  BY <1>1 DEF RunsInv, ChildrenClosed, Families, SameRuns
<1>9. ChildrenEndFirst'
  <2> SUFFICES ASSUME NEW c \in RunIds, runRows'[c].parent # NoRun, runRows'[c].status \in ACTIVE,
                      c \notin unrecorded, runRows'[c].parent \notin unrecorded
               PROVE  runRows'[runRows'[c].parent].status \in ACTIVE
    BY DEF ChildrenEndFirst
  <2> DEFINE p == runRows[c].parent
  <2>1. /\ p = runRows'[c].parent /\ p \in RunIds
        /\ runRows[p].status \in ACTIVE
        /\ runRows[p].server = runRows[c].server /\ runRows[p].epoch = runRows[c].epoch
    BY <1>1 DEF RunsInv, ChildrenEndFirst, Families, SameRuns
  <2>2. CASE runRows' = Recovered
    <3>1. OwnerAlive(runRows[c])
      BY <2>2, RecoveredFacts DEF RunsInv, ACTIVE
    <3>2. OwnerAlive(runRows[p])
      BY <2>1, <3>1 DEF OwnerAlive
    <3> QED
      BY <1>1, <2>1, <3>2
  <2> QED
    BY <2>1, <2>2
<1>10. NoneIsOrphaned'
  BY <1>1, <1>2 DEF RunsInv, NoneIsOrphaned, Families, SameRuns
<1> QED
  BY <1>3, <1>4, <1>5, <1>6, <1>7, <1>8, <1>9, <1>10 DEF RunsInv

LEMMA QuietStep ==
  ASSUME RunsInv, NEW s \in Servers,
         \/ \E x \in Sessions : CreateRun(s, x)
         \/ RefuseRun(s)
         \/ \E r \in RunIds : AskCancel(s, r)
         \/ StartServer(s) \/ StopServer(s)
  PROVE  RunsInv'
<1>1. AgentRunsTypeOK
  BY DEF RunsInv
<1>2. \A r \in RunIds : runTasks[r] \in TaskType
  BY <1>1 DEF AgentRunsTypeOK, TaskType
<1>3. CASE \E x \in Sessions : CreateRun(s, x)
  <2>1. /\ runRows' = Recovered /\ beginning' \in [Servers -> Sessions \cup {NoSession}]
        /\ UNCHANGED <<life, epoch, active, runTasks, unrecorded, lostWrites>>
    BY <1>1, <1>3 DEF CreateRun, processVars, faultVars, AgentRunsTypeOK
  <2>2. AgentRunsTypeOK'
    BY <1>1, <2>1, RecoveredFacts DEF AgentRunsTypeOK
  <2>3. \A r \in RunIds : OwnerAlive(runRows[r])' <=> OwnerAlive(runRows[r])
    BY <1>1, <2>1, RecoveredFacts DEF OwnerAlive, SameRuns
  <2>4. BeginsAlive'
    BY <1>1, <1>3, <2>1 DEF CreateRun, ServerFree, RunsInv, BeginsAlive, AgentRunsTypeOK
  <2> QED
    BY <2>1, <2>2, <2>3, <2>4, PhasesStay
<1>4. CASE RefuseRun(s)
  <2>1. /\ beginning' \in [Servers -> Sessions \cup {NoSession}]
        /\ UNCHANGED <<runRows, life, epoch, active, runTasks, unrecorded, lostWrites>>
    BY <1>1, <1>4 DEF RefuseRun, processVars, faultVars, AgentRunsTypeOK
  <2>2. AgentRunsTypeOK'
    BY <1>1, <2>1 DEF AgentRunsTypeOK
  <2>3. BeginsAlive'
    BY <1>1, <1>4, <2>1 DEF RefuseRun, RunsInv, BeginsAlive, AgentRunsTypeOK
  <2> QED
    BY <2>1, <2>2, <2>3, PhasesStay DEF OwnerAlive
<1>5. ASSUME NEW r \in RunIds, AskCancel(s, r) PROVE RunsInv'
  <2>1. /\ runTasks' = [runTasks EXCEPT ![r] = [runTasks[r] EXCEPT !.cancel = TRUE]]
        /\ UNCHANGED <<runRows, life, epoch, active, beginning, unrecorded, lostWrites>>
    BY <1>5 DEF AskCancel, processVars, faultVars
  <2>2. [runTasks[r] EXCEPT !.cancel = TRUE] \in TaskType
    BY <1>2 DEF TaskType
  <2>3. AgentRunsTypeOK'
    BY <1>1, <2>1, <2>2 DEF AgentRunsTypeOK, TaskType
  <2>4. \A q \in RunIds : runTasks'[q].phase = runTasks[q].phase
    BY <1>1, <1>2, <2>1 DEF AgentRunsTypeOK, TaskType
  <2>5. BeginsAlive'
    BY <2>1 DEF RunsInv, BeginsAlive
  <2> QED
    BY <2>1, <2>3, <2>4, <2>5, PhasesStay DEF OwnerAlive
<1>6. CASE StartServer(s)
  <2>1. /\ life[s] = "down" /\ epoch[s] < MaxStarts
        /\ life' = [life EXCEPT ![s] = "up"] /\ epoch' = [epoch EXCEPT ![s] = epoch[s] + 1]
        /\ runRows' = Recovered
        /\ UNCHANGED <<active, beginning, runTasks, unrecorded, lostWrites>>
    BY <1>6 DEF StartServer, faultVars
  <2>2. epoch[s] + 1 \in 0 .. MaxStarts
    BY <1>1, <2>1, AgentRunAssumption DEF AgentRunsTypeOK
  <2>3. AgentRunsTypeOK'
    BY <1>1, <2>1, <2>2, RecoveredFacts DEF AgentRunsTypeOK
  <2>4. ASSUME NEW r \in RunIds
        PROVE  /\ OwnerAlive(runRows[r]) => OwnerAlive(runRows[r])'
               /\ runRows'[r].status \in ACTIVE /\ OwnerAlive(runRows[r])' => OwnerAlive(runRows[r])
    <3>1. runRows'[r].server = runRows[r].server /\ runRows'[r].epoch = runRows[r].epoch
      BY <1>1, <2>1, <2>4, RecoveredFacts DEF SameRuns
    <3>2. CASE runRows[r].server = s
      <4>1. ~OwnerAlive(runRows[r])
        BY <2>1, <3>2 DEF OwnerAlive
      <4>2. runRows'[r].status \notin ACTIVE
        BY <1>1, <2>1, <2>4, <4>1, RecoveredFacts DEF ACTIVE
      <4> QED
        BY <4>1, <4>2
    <3>3. CASE runRows[r].server # s
      BY <1>1, <2>1, <3>1, <3>3 DEF OwnerAlive, AgentRunsTypeOK
    <3> QED
      BY <3>2, <3>3
  <2>5. BeginsAlive'
    BY <1>1, <2>1 DEF RunsInv, BeginsAlive, AgentRunsTypeOK
  <2> QED
    BY <2>1, <2>3, <2>4, <2>5, PhasesStay
<1>7. CASE StopServer(s)
  <2>1. /\ life[s] = "up" /\ life' = [life EXCEPT ![s] = "stopping"]
        /\ runTasks' = [r \in RunIds |->
              IF r \in TasksOf(s) /\ runTasks[r].phase \in {"created", "awaiting", "delegating"}
              THEN [runTasks[r] EXCEPT !.cancel = TRUE] ELSE runTasks[r]]
        /\ UNCHANGED <<runRows, epoch, active, beginning, unrecorded, lostWrites>>
    BY <1>7 DEF StopServer, faultVars
  <2>2. \A r \in RunIds : [runTasks[r] EXCEPT !.cancel = TRUE] \in TaskType
                          /\ [runTasks[r] EXCEPT !.cancel = TRUE].phase = runTasks[r].phase
    BY <1>2 DEF TaskType
  <2>3. \A r \in RunIds : runTasks'[r] \in TaskType /\ runTasks'[r].phase = runTasks[r].phase
    BY <1>2, <2>1, <2>2
  <2>4. runTasks' \in [RunIds -> TaskType]
    BY <2>1, <2>3
  <2>5. AgentRunsTypeOK'
    BY <1>1, <2>1, <2>4 DEF AgentRunsTypeOK, TaskType
  <2>6. \A r \in RunIds : OwnerAlive(runRows[r])' <=> OwnerAlive(runRows[r])
    BY <1>1, <2>1 DEF OwnerAlive, AgentRunsTypeOK
  <2>7. BeginsAlive'
    BY <1>1, <2>1 DEF RunsInv, BeginsAlive, AgentRunsTypeOK
  <2> QED
    BY <2>1, <2>3, <2>5, <2>6, <2>7, PhasesStay
<1> QED
  BY <1>3, <1>4, <1>5, <1>6, <1>7

-----------------------------------------------------------------------------
(* Steps that add a row.                                                   *)

LEMMA NewRowFacts ==
  ASSUME AgentRunsTypeOK, NEW s \in Servers, NEW x \in Sessions \cup {NoSession},
         NEW p \in RunIds \cup {NoRun}, NEW status \in ACTIVE \cup TERMINAL
  PROVE  /\ NewRow(s, x, p, status) \in RowType /\ status # "none"
         /\ NewRow(s, x, p, status).status = status /\ NewRow(s, x, p, status).session = x
         /\ NewRow(s, x, p, status).parent = p /\ NewRow(s, x, p, status).server = s
         /\ NewRow(s, x, p, status).epoch = epoch[s]
BY DEF NewRow, RowType, AgentRunsTypeOK, ACTIVE, TERMINAL

\* An unused id has no task, no parent and no children, and is held by nobody.
LEMMA NewIdFacts ==
  ASSUME RunsInv, NEW r \in RunIds, IsNewId(r)
  PROVE  /\ runRows[r].status = "none" /\ runTasks[r].phase = "none" /\ runRows[r].parent = NoRun
         /\ runRows[r].status \notin ACTIVE
         /\ \A c \in RunIds : runRows[c].parent # r
         /\ \A s \in Servers, x \in Sessions : active[s][x] # r
<1>1. runRows[r].status = "none"
  BY DEF IsNewId
<1>2. r # NoRun
  BY AgentRunAssumption
<1> QED
  BY <1>1, <1>2 DEF RunsInv, TaskRows, Families, HeldRows, ACTIVE

LEMMA InsertStep ==
  ASSUME RunsInv, NEW s \in Servers, NEW r \in RunIds, InsertRun(s, r)
  PROVE  RunsInv'
<1> DEFINE x == beginning[s]
           row == NewRow(s, x, NoRun, "queued")
           task == [phase |-> "created", cancel |-> FALSE]
<1>0. AgentRunsTypeOK /\ NoRun \notin RunIds
  BY AgentRunAssumption DEF RunsInv
<1>1. /\ x \in Sessions /\ ~SessionReserved(x) /\ IsNewId(r)
      /\ runRows' = [runRows EXCEPT ![r] = row]
      /\ active' = [active EXCEPT ![s][x] = r]
      /\ runTasks' = [runTasks EXCEPT ![r] = task]
      /\ beginning' = [beginning EXCEPT ![s] = NoSession]
      /\ UNCHANGED <<life, epoch, unrecorded, lostWrites>>
  BY <1>0 DEF InsertRun, processVars, faultVars, AgentRunsTypeOK
<1>2. life[s] # "down"
  BY DEF InsertRun, RunsInv, BeginsAlive
<1>3. /\ row \in RowType /\ row.status = "queued" /\ row.session = x /\ row.parent = NoRun
      /\ row.server = s /\ row.epoch = epoch[s] /\ "queued" \in ACTIVE
  BY <1>0, <1>1, NewRowFacts DEF ACTIVE
<1> HIDE DEF row
<1>4. /\ task \in TaskType /\ task.phase = "created"
  BY DEF TaskType
<1> HIDE DEF task
<1>5. /\ runRows'[r] = row /\ \A q \in RunIds \ {r} : runRows'[q] = runRows[q]
      /\ runTasks'[r] = task /\ \A q \in RunIds \ {r} : runTasks'[q] = runTasks[q]
      /\ active'[s][x] = r
      /\ \A p \in Servers, y \in Sessions : <<p, y>> # <<s, x>> => active'[p][y] = active[p][y]
  BY <1>0, <1>1 DEF AgentRunsTypeOK
<1>6. AgentRunsTypeOK'
  <2>1. runRows' \in [RunIds -> RowType] /\ runTasks' \in [RunIds -> TaskType]
    BY <1>0, <1>1, <1>3, <1>4 DEF AgentRunsTypeOK, TaskType
  <2>2. active' \in [Servers -> [Sessions -> RunIds \cup {NoRun}]]
    BY <1>0, <1>1 DEF AgentRunsTypeOK
  <2> QED
    BY <1>0, <1>1, <2>1, <2>2 DEF AgentRunsTypeOK, TaskType
<1>7. /\ \A c \in RunIds : runRows[c].parent # r
      /\ runRows[r].status = "none" /\ runTasks[r].phase = "none" /\ runRows[r].parent = NoRun
      /\ \A p \in Servers, y \in Sessions : active[p][y] # r
  BY <1>1, NewIdFacts
<1>8. \A q \in RunIds : OwnerAlive(runRows[q])' <=> q = r \/ OwnerAlive(runRows[q])
  <2>1. OwnerAlive(runRows[r])'
    BY <1>1, <1>2, <1>3, <1>5 DEF OwnerAlive
  <2> QED
    BY <1>1, <1>5, <2>1 DEF OwnerAlive
<1>9. \A q \in RunIds : Executes(q)' <=> q = r \/ Executes(q)
  BY <1>4, <1>5 DEF Executes
<1>10. BeginsAlive'
  BY <1>0, <1>1 DEF RunsInv, BeginsAlive, AgentRunsTypeOK
<1>11. TaskRows'
  BY <1>1, <1>3, <1>5, <1>8 DEF RunsInv, TaskRows
<1>12. Families'
  BY <1>0, <1>3, <1>5, <1>7 DEF RunsInv, Families
<1>13. OneActiveRow'
  BY <1>1, <1>3, <1>5 DEF RunsInv, OneActiveRow, SessionReserved
<1>14. ExecutedRows'
  <2> SUFFICES ASSUME NEW q \in RunIds, Executes(q)'
               PROVE  runRows'[q].status \in ACTIVE /\ active'[runRows'[q].server][runRows'[q].session] = q
    BY DEF ExecutedRows
  <2>1. CASE q = r
    BY <1>3, <1>5, <2>1
  <2>2. CASE q # r
    <3>1. /\ Executes(q) /\ runRows'[q] = runRows[q]
          /\ runRows[q].status \in ACTIVE /\ active[runRows[q].server][runRows[q].session] = q
          /\ runRows[q].parent = NoRun /\ runRows[q].session \in Sessions
          /\ runRows[q].server \in Servers
      BY <1>5, <1>9, <2>2 DEF RunsInv, ExecutedRows, TaskRows, Executes, OwnerAlive
    <3>2. runRows[q].session # x
      BY <1>1, <3>1 DEF SessionReserved
    <3> QED
      BY <1>5, <3>1, <3>2
  <2> QED
    BY <2>1, <2>2
<1>15. HeldRows'
  <2> SUFFICES ASSUME NEW p \in Servers, NEW y \in Sessions, active'[p][y] # NoRun
               PROVE  LET q == active'[p][y] IN
                      /\ q \in RunIds /\ runTasks'[q].phase \notin {"none", "over"}
                      /\ runRows'[q].server = p /\ runRows'[q].session = y
    BY DEF HeldRows
  <2>1. CASE <<p, y>> = <<s, x>>
    BY <1>3, <1>4, <1>5, <2>1
  <2>2. CASE <<p, y>> # <<s, x>>
    <3>1. active'[p][y] = active[p][y] /\ active[p][y] # r
      BY <1>5, <1>7, <2>2
    <3> QED
      BY <1>5, <3>1 DEF RunsInv, HeldRows
  <2> QED
    BY <2>1, <2>2
<1>16. ChildrenClosed'
  BY <1>1, <1>3, <1>5, <1>7 DEF RunsInv, ChildrenClosed, Families
<1>17. ChildrenEndFirst'
  BY <1>1, <1>3, <1>5, <1>7 DEF RunsInv, ChildrenEndFirst, Families
<1>18. NoneIsOrphaned'
  BY <1>0, <1>1, <1>3, <1>5, <1>7, <1>8, <1>9 DEF RunsInv, NoneIsOrphaned, Families
<1> QED
  BY <1>6, <1>10, <1>11, <1>12, <1>13, <1>14, <1>15, <1>16, <1>17, <1>18 DEF RunsInv

LEMMA SkillsRaiseStep ==
  ASSUME RunsInv, NEW s \in Servers, NEW r \in RunIds, SkillsRaise(s, r)
  PROVE  RunsInv'
<1> DEFINE x == beginning[s]
           row == NewRow(s, x, NoRun, "failed")
<1>0. AgentRunsTypeOK /\ NoRun \notin RunIds
  BY AgentRunAssumption DEF RunsInv
<1>1. /\ x \in Sessions /\ IsNewId(r)
      /\ runRows' = [runRows EXCEPT ![r] = row]
      /\ beginning' = [beginning EXCEPT ![s] = NoSession]
      /\ lostWrites' \in 0 .. MaxLostWrites
      /\ UNCHANGED <<life, epoch, active, runTasks, unrecorded>>
  BY <1>0, AgentRunAssumption DEF SkillsRaise, processVars, AgentRunsTypeOK
<1>2. /\ row \in RowType /\ row.status = "failed" /\ row.parent = NoRun /\ "failed" \notin ACTIVE
  BY <1>0, <1>1, NewRowFacts DEF ACTIVE, TERMINAL
<1> HIDE DEF row
<1>3. runRows'[r] = row /\ \A q \in RunIds \ {r} : runRows'[q] = runRows[q]
  BY <1>0, <1>1 DEF AgentRunsTypeOK
<1>4. /\ \A c \in RunIds : runRows[c].parent # r
      /\ runRows[r].status = "none" /\ runTasks[r].phase = "none" /\ runRows[r].parent = NoRun
      /\ \A p \in Servers, y \in Sessions : active[p][y] # r
  BY <1>1, NewIdFacts
<1>5. AgentRunsTypeOK'
  BY <1>0, <1>1, <1>2 DEF AgentRunsTypeOK
<1>6. BeginsAlive'
  BY <1>0, <1>1 DEF RunsInv, BeginsAlive, AgentRunsTypeOK
<1>7. \A q \in RunIds \ {r} : OwnerAlive(runRows[q])' <=> OwnerAlive(runRows[q])
  BY <1>1, <1>3 DEF OwnerAlive
<1>8. \A q \in RunIds : Executes(q)' <=> Executes(q)
  BY <1>1 DEF Executes
<1>9. TaskRows' /\ HeldRows'
  BY <1>1, <1>3, <1>4, <1>7 DEF RunsInv, TaskRows, HeldRows
<1>10. Families'
  BY <1>0, <1>2, <1>3, <1>4 DEF RunsInv, Families
<1>11. OneActiveRow' /\ ExecutedRows'
  BY <1>1, <1>2, <1>3, <1>4, <1>8 DEF RunsInv, OneActiveRow, ExecutedRows, Executes
<1>12. ChildrenClosed'
  BY <1>1, <1>2, <1>3, <1>4 DEF RunsInv, ChildrenClosed, Families
<1>13. ChildrenEndFirst'
  BY <1>1, <1>2, <1>3, <1>4 DEF RunsInv, ChildrenEndFirst, Families
<1>14. NoneIsOrphaned'
  BY <1>1, <1>2, <1>3, <1>4, <1>7, <1>8 DEF RunsInv, NoneIsOrphaned, Families
<1> QED
  BY <1>5, <1>6, <1>9, <1>10, <1>11, <1>12, <1>13, <1>14 DEF RunsInv

\* A run that delegates lives, so that the recovery with which the child's row
\* is added leaves it alone.
LEMMA DelegateStep ==
  ASSUME RunsInv, NEW s \in Servers, NEW r \in RunIds, NEW c \in RunIds, Delegate(s, r, c)
  PROVE  RunsInv'
<1> DEFINE row == NewRow(s, runRows[r].session, r, "running")
           task == [runTasks[r] EXCEPT !.phase = "delegating"]
<1>0. AgentRunsTypeOK /\ NoRun \notin RunIds
  BY AgentRunAssumption DEF RunsInv
<1>1. /\ runTasks[r].phase = "awaiting" /\ runRows[r].server = s /\ IsNewId(c)
      /\ \A q \in RunIds : runRows[q].parent # r
      /\ runRows' = [Recovered EXCEPT ![c] = row]
      /\ runTasks' = [runTasks EXCEPT ![r] = task]
      /\ UNCHANGED <<life, epoch, active, beginning, unrecorded, lostWrites>>
  BY DEF Delegate, Runs, processVars, faultVars, Child
<1>2. /\ runRows[r].parent = NoRun /\ runRows[r].status \in ACTIVE /\ runRows[r].status # "none"
      /\ OwnerAlive(runRows[r]) /\ runRows[r].epoch = epoch[s] /\ r # c
      /\ runRows[r].session \in Sessions
  BY <1>1, NewIdFacts DEF RunsInv, TaskRows, ExecutedRows, Executes, OwnerAlive
<1>3. /\ row \in RowType /\ row.status = "running" /\ row.parent = r
      /\ row.server = s /\ row.epoch = epoch[s] /\ "running" \in ACTIVE
  BY <1>0, <1>2, NewRowFacts DEF ACTIVE
<1>4. task \in TaskType /\ task.phase = "delegating"
  BY <1>0 DEF AgentRunsTypeOK, TaskType
<1>5. /\ \A q \in RunIds : runRows[q].parent # c
      /\ runRows[c].status = "none" /\ runTasks[c].phase = "none" /\ runRows[c].parent = NoRun
      /\ \A p \in Servers, y \in Sessions : active[p][y] # c
  BY <1>1, NewIdFacts
<1> HIDE DEF row, task
<1>6. /\ Recovered \in [RunIds -> RowType] /\ SameRuns(runRows, Recovered)
      /\ \A q \in RunIds : Recovered[q].status =
           IF runRows[q].status \in ACTIVE /\ ~OwnerAlive(runRows[q]) THEN "interrupted"
           ELSE runRows[q].status
  BY <1>0, RecoveredFacts
<1>7. /\ runRows'[c] = row /\ \A q \in RunIds \ {c} : runRows'[q] = Recovered[q]
      /\ runTasks'[r] = task /\ \A q \in RunIds \ {r} : runTasks'[q] = runTasks[q]
  BY <1>0, <1>1, <1>6 DEF AgentRunsTypeOK
<1>8. \A q \in RunIds \ {c} :
        /\ runRows'[q].session = runRows[q].session /\ runRows'[q].parent = runRows[q].parent
        /\ runRows'[q].server = runRows[q].server /\ runRows'[q].epoch = runRows[q].epoch
        /\ runRows'[q].status = "none" <=> runRows[q].status = "none"
        /\ OwnerAlive(runRows[q])' <=> OwnerAlive(runRows[q])
        /\ runRows'[q].status \in ACTIVE => runRows[q].status \in ACTIVE /\ OwnerAlive(runRows[q])
        /\ runRows[q].status \in ACTIVE /\ OwnerAlive(runRows[q]) => runRows'[q].status = runRows[q].status
  <2>1. "interrupted" \notin ACTIVE
    BY DEF ACTIVE
  <2> QED
    BY <1>1, <1>6, <1>7, <2>1 DEF SameRuns, OwnerAlive
<1>9. \A q \in RunIds : Executes(q)' <=> Executes(q)
  BY <1>1, <1>4, <1>7 DEF Executes
<1>10. AgentRunsTypeOK'
  <2>1. runRows' \in [RunIds -> RowType] /\ runTasks' \in [RunIds -> TaskType]
    BY <1>0, <1>1, <1>3, <1>4, <1>6 DEF AgentRunsTypeOK, TaskType
  <2> QED
    BY <1>0, <1>1, <2>1 DEF AgentRunsTypeOK, TaskType
<1>11. BeginsAlive'
  BY <1>1 DEF RunsInv, BeginsAlive
<1>12. TaskRows'
  BY <1>1, <1>2, <1>4, <1>5, <1>7, <1>8 DEF RunsInv, TaskRows
<1>13. Families'
  BY <1>0, <1>1, <1>2, <1>3, <1>5, <1>7, <1>8 DEF RunsInv, Families
<1>14. OneActiveRow'
  BY <1>0, <1>3, <1>7, <1>8 DEF RunsInv, OneActiveRow
<1>15. ExecutedRows'
  <2> SUFFICES ASSUME NEW q \in RunIds, Executes(q)
               PROVE  runRows'[q].status \in ACTIVE /\ active[runRows'[q].server][runRows'[q].session] = q
    BY <1>1, <1>9 DEF ExecutedRows
  <2>1. q # c /\ OwnerAlive(runRows[q])
    BY <1>5 DEF RunsInv, TaskRows, Executes
  <2> QED
    BY <1>8, <2>1 DEF RunsInv, ExecutedRows
<1>16. HeldRows'
  BY <1>1, <1>4, <1>5, <1>7, <1>8 DEF RunsInv, HeldRows
<1>17. ChildrenClosed'
  BY <1>0, <1>1, <1>3, <1>4, <1>5, <1>7, <1>8 DEF RunsInv, ChildrenClosed, Families
<1>18. ChildrenEndFirst'
  <2> SUFFICES ASSUME NEW q \in RunIds, runRows'[q].parent # NoRun, runRows'[q].status \in ACTIVE,
                      q \notin unrecorded, runRows'[q].parent \notin unrecorded
               PROVE  runRows'[runRows'[q].parent].status \in ACTIVE
    BY <1>1 DEF ChildrenEndFirst
  <2>1. CASE q = c
    BY <1>2, <1>3, <1>7, <1>8, <2>1
  <2>2. CASE q # c
    <3> DEFINE p == runRows[q].parent
    <3>1. /\ p = runRows'[q].parent /\ p \in RunIds \ {c} /\ runRows[p].status \in ACTIVE
          /\ runRows[p].server = runRows[q].server /\ runRows[p].epoch = runRows[q].epoch
          /\ OwnerAlive(runRows[q])
      BY <1>5, <1>8, <2>2 DEF RunsInv, ChildrenEndFirst, Families
    <3>2. OwnerAlive(runRows[p])
      BY <3>1 DEF OwnerAlive
    <3> QED
      BY <1>8, <3>1, <3>2
  <2> QED
    BY <2>1, <2>2
<1>19. NoneIsOrphaned'
  <2> SUFFICES ASSUME NEW q \in RunIds, runRows'[q].status \in ACTIVE, OwnerAlive(runRows[q])',
                      q \notin unrecorded
               PROVE  LET t == IF runRows'[q].parent = NoRun THEN q ELSE runRows'[q].parent IN
                      runTasks'[t].phase \in {"created", "awaiting", "delegating", "dropped"}
    BY <1>1 DEF NoneIsOrphaned, Executes
  <2>1. CASE q = c
    BY <1>0, <1>3, <1>4, <1>7, <2>1
  <2>2. CASE q # c
    <3> DEFINE t == IF runRows[q].parent = NoRun THEN q ELSE runRows[q].parent
    <3>1. t \in RunIds /\ runTasks[t].phase \in {"created", "awaiting", "delegating", "dropped"}
      BY <1>8, <2>2 DEF RunsInv, NoneIsOrphaned, Families, Executes
    <3> QED
      BY <1>1, <1>4, <1>7, <1>8, <2>2, <3>1
  <2> QED
    BY <2>1, <2>2
<1> QED
  BY <1>10, <1>11, <1>12, <1>13, <1>14, <1>15, <1>16, <1>17, <1>18, <1>19 DEF RunsInv

-----------------------------------------------------------------------------
(* Steps of a task.                                                        *)

\* What is true of the task r takes a step of, and of the statuses it may end with.
LEMMA TaskFacts ==
  ASSUME RunsInv, NEW s \in Servers, NEW r \in RunIds, Runs(s, r), runTasks[r].phase # "none"
  PROVE  /\ runRows[r].server = s /\ runRows[r].parent = NoRun /\ runRows[r].status # "none"
         /\ runRows[r].session \in Sessions /\ OwnerAlive(runRows[r])
         /\ Executes(r) => runRows[r].status \in ACTIVE
         /\ runTasks[r] \in TaskType /\ AgentRunsTypeOK
         /\ \A c \in RunIds : runRows[c].parent = r => runTasks[c].phase = "none" /\ c # r
BY AgentRunAssumption DEF RunsInv, TaskRows, ExecutedRows, Runs, AgentRunsTypeOK, TaskType

LEMMA OutcomeFacts == Outcomes \subseteq TERMINAL /\ TERMINAL \cap ACTIVE = {} /\ "cancelled" \in TERMINAL
BY AgentRunAssumption DEF TERMINAL, ACTIVE

\* A run gives its session free, and no other.
LEMMA ReleasedFacts ==
  ASSUME RunsInv, NEW s \in Servers, NEW r \in RunIds, runRows[r].session \in Sessions, runRows[r].server = s
  PROVE  /\ Released(s, r) \in [Servers -> [Sessions -> RunIds \cup {NoRun}]]
         /\ \A p \in Servers, x \in Sessions :
              Released(s, r)[p][x] = IF active[p][x] = r THEN NoRun ELSE active[p][x]
<1>1. active \in [Servers -> [Sessions -> RunIds \cup {NoRun}]] /\ r # NoRun
  BY AgentRunAssumption DEF RunsInv, AgentRunsTypeOK
<1>2. \A p \in Servers, x \in Sessions : active[p][x] = r => p = s /\ x = runRows[r].session
  BY <1>1 DEF RunsInv, HeldRows
<1> QED
  BY <1>1, <1>2 DEF Released

\* The first step, and the end of a task that takes none.
LEMMA StartStep ==
  ASSUME RunsInv, NEW s \in Servers, NEW r \in RunIds, FirstStep(s, r) \/ NeverStarts(s, r)
  PROVE  RunsInv'
<1>1. /\ Runs(s, r) /\ runTasks[r].phase = "created"
      /\ UNCHANGED <<life, epoch, active, beginning, unrecorded, lostWrites>>
  BY DEF FirstStep, NeverStarts, processVars, faultVars
<1>2. /\ runRows[r].server = s /\ runRows[r].parent = NoRun /\ runRows[r].status \in ACTIVE
      /\ runRows[r].session \in Sessions /\ OwnerAlive(runRows[r]) /\ AgentRunsTypeOK
      /\ runTasks[r] \in TaskType
  BY <1>1, TaskFacts DEF Executes
<1>3. /\ runRows' \in [RunIds -> RowType] /\ SameRuns(runRows, runRows')
      /\ \A q \in RunIds : runRows'[q].status \in ACTIVE <=> runRows[q].status \in ACTIVE
  <2>1. CASE FirstStep(s, r)
    <3>1. runRows' = [runRows EXCEPT ![r] = [runRows[r] EXCEPT !.status =
                         IF runRows[r].status = "queued" THEN "running" ELSE runRows[r].status]]
      BY <2>1 DEF FirstStep
    <3> DEFINE status == IF runRows[r].status = "queued" THEN "running" ELSE runRows[r].status
               row == [runRows[r] EXCEPT !.status = status]
    <3>2. status \in ACTIVE /\ status # "none"
      BY <1>2 DEF ACTIVE
    <3>3. runRows[r] \in RowType /\ runRows \in [RunIds -> RowType]
      BY <1>2 DEF AgentRunsTypeOK
    <3> HIDE DEF status
    <3>4. /\ row \in RowType /\ row.status = status /\ row.session = runRows[r].session
          /\ row.parent = runRows[r].parent /\ row.server = runRows[r].server
          /\ row.epoch = runRows[r].epoch
      BY <3>2, <3>3 DEF RowType
    <3>5. runRows' = [runRows EXCEPT ![r] = row]
      BY <3>1 DEF status
    <3> HIDE DEF row
    <3> QED
      BY <1>2, <3>2, <3>3, <3>4, <3>5 DEF SameRuns, ACTIVE
  <2>2. CASE NeverStarts(s, r)
    BY <1>2, <2>2 DEF NeverStarts, SameRuns, AgentRunsTypeOK
  <2> QED
    BY <2>1, <2>2
<1>4. /\ runTasks' \in [RunIds -> TaskType]
      /\ runTasks'[r].phase \in {"awaiting", "dropped"}
      /\ \A q \in RunIds \ {r} : runTasks'[q] = runTasks[q]
  <2>1. runTasks \in [RunIds -> TaskType]
    BY <1>2 DEF AgentRunsTypeOK, TaskType
  <2>2. CASE FirstStep(s, r)
    <3>1. runTasks' = [runTasks EXCEPT ![r] = [runTasks[r] EXCEPT !.phase = "awaiting"]]
      BY <2>2 DEF FirstStep
    <3>2. [runTasks[r] EXCEPT !.phase = "awaiting"] \in TaskType
          /\ [runTasks[r] EXCEPT !.phase = "awaiting"].phase = "awaiting"
      BY <1>2 DEF TaskType
    <3> QED
      BY <2>1, <3>1, <3>2
  <2>3. CASE NeverStarts(s, r)
    <3>1. runTasks' = [runTasks EXCEPT ![r] = [phase |-> "dropped", cancel |-> FALSE]]
      BY <2>3 DEF NeverStarts
    <3>2. [phase |-> "dropped", cancel |-> FALSE] \in TaskType
      BY DEF TaskType
    <3> QED
      BY <2>1, <3>1, <3>2
  <2> QED
    BY <2>2, <2>3
<1>5. AgentRunsTypeOK'
  BY <1>1, <1>2, <1>3, <1>4 DEF AgentRunsTypeOK, TaskType
<1>6. \A q \in RunIds : OwnerAlive(runRows[q])' <=> OwnerAlive(runRows[q])
  BY <1>1, <1>3 DEF OwnerAlive, SameRuns
<1>7. \A q \in RunIds : Executes(q)' => Executes(q)
  BY <1>1, <1>4 DEF Executes
<1>8. BeginsAlive' /\ TaskRows'
  BY <1>1, <1>2, <1>3, <1>4, <1>6 DEF RunsInv, BeginsAlive, TaskRows, SameRuns
<1>9. Families' /\ OneActiveRow'
  BY <1>3 DEF RunsInv, Families, OneActiveRow, SameRuns
<1>10. ExecutedRows' /\ HeldRows'
  <2>1. ExecutedRows'
    BY <1>1, <1>3, <1>7 DEF RunsInv, ExecutedRows, SameRuns
  <2>2. HeldRows'
    BY <1>1, <1>3, <1>4 DEF RunsInv, HeldRows, SameRuns
  <2> QED
    BY <2>1, <2>2
<1>11. ChildrenClosed'
  BY <1>1, <1>3, <1>4 DEF RunsInv, ChildrenClosed, SameRuns, Families
<1>12. ChildrenEndFirst'
  BY <1>1, <1>3 DEF RunsInv, ChildrenEndFirst, SameRuns, Families
<1>13. NoneIsOrphaned'
  <2> SUFFICES ASSUME NEW q \in RunIds, runRows'[q].status \in ACTIVE, OwnerAlive(runRows[q])',
                      q \notin unrecorded
               PROVE  LET t == IF runRows'[q].parent = NoRun THEN q ELSE runRows'[q].parent IN
                      runTasks'[t].phase \in {"created", "awaiting", "delegating", "dropped"}
    BY <1>1 DEF NoneIsOrphaned, Executes
  <2> DEFINE t == IF runRows[q].parent = NoRun THEN q ELSE runRows[q].parent
  <2>1. t \in RunIds /\ runTasks[t].phase \in {"created", "awaiting", "delegating", "dropped"}
    BY <1>3, <1>6 DEF RunsInv, NoneIsOrphaned, Families, Executes
  <2> QED
    BY <1>3, <1>4, <2>1 DEF SameRuns
<1> QED
  BY <1>5, <1>8, <1>9, <1>10, <1>11, <1>12, <1>13 DEF RunsInv

\* A task leaves its run: what it leaves active in the table is what a write
\* that raised has left, and once it is over it holds no session.
LEMMA TaskLeaves ==
  ASSUME RunsInv, NEW s \in Servers, NEW r \in RunIds, Runs(s, r), runTasks[r].phase # "none",
         runTasks' \in [RunIds -> TaskType], runTasks'[r].phase \in {"ended", "over"},
         \A q \in RunIds \ {r} : runTasks'[q] = runTasks[q],
         runRows' \in [RunIds -> RowType], SameRuns(runRows, runRows'),
         \A q \in RunIds : runRows'[q].status \in ACTIVE => runRows[q].status \in ACTIVE,
         \A q \in RunIds : q # r /\ runRows[q].parent # r => runRows'[q].status = runRows[q].status,
         \A q \in RunIds : q = r \/ runRows[q].parent = r =>
           runRows'[q].status \notin ACTIVE \/ q \in unrecorded',
         unrecorded \subseteq unrecorded', unrecorded' \subseteq RunIds, lostWrites' \in 0 .. MaxLostWrites,
         active' = Released(s, r) \/ (active' = active /\ runTasks'[r].phase = "ended"),
         UNCHANGED <<life, epoch, beginning>>
  PROVE  RunsInv'
<1>1. /\ runRows[r].server = s /\ runRows[r].parent = NoRun /\ runRows[r].status # "none"
      /\ runRows[r].session \in Sessions /\ OwnerAlive(runRows[r]) /\ AgentRunsTypeOK
      /\ \A c \in RunIds : runRows[c].parent = r => runTasks[c].phase = "none" /\ c # r
  BY TaskFacts
<1>2. /\ active' \in [Servers -> [Sessions -> RunIds \cup {NoRun}]]
      /\ \A p \in Servers, x \in Sessions :
           /\ active[p][x] # r => active'[p][x] = active[p][x]
           /\ active'[p][x] = active[p][x] \/ active'[p][x] = NoRun
           /\ runTasks'[r].phase = "over" => active'[p][x] # r
  <2>1. CASE active' = active /\ runTasks'[r].phase = "ended"
    BY <1>1, <2>1 DEF AgentRunsTypeOK
  <2>2. CASE active' = Released(s, r)
    BY <1>1, <2>2, ReleasedFacts, AgentRunAssumption
  <2> QED
    BY <2>1, <2>2
<1>3. AgentRunsTypeOK'
  BY <1>1, <1>2 DEF AgentRunsTypeOK, TaskType
<1>4. \A q \in RunIds : OwnerAlive(runRows[q])' <=> OwnerAlive(runRows[q])
  BY DEF OwnerAlive, SameRuns
<1>5. \A q \in RunIds : Executes(q)' <=> Executes(q) /\ q # r
  BY DEF Executes
<1>6. BeginsAlive' /\ TaskRows'
  BY <1>1, <1>4 DEF RunsInv, BeginsAlive, TaskRows, SameRuns
<1>7. Families' /\ OneActiveRow'
  <2>1. Families'
    BY DEF RunsInv, Families, SameRuns
  <2>2. OneActiveRow'
    BY DEF RunsInv, OneActiveRow, SameRuns
  <2> QED
    BY <2>1, <2>2
<1>8. ExecutedRows'
  <2> SUFFICES ASSUME NEW q \in RunIds, Executes(q), q # r
               PROVE  runRows'[q].status \in ACTIVE /\ active'[runRows'[q].server][runRows'[q].session] = q
    BY <1>5 DEF ExecutedRows
  <2>1. /\ runRows[q].status \in ACTIVE /\ active[runRows[q].server][runRows[q].session] = q
        /\ runRows[q].server \in Servers /\ runRows[q].session \in Sessions /\ runRows[q].parent = NoRun
    BY DEF RunsInv, ExecutedRows, TaskRows, Executes, OwnerAlive
  <2>2. runRows'[q].status = runRows[q].status
    BY <2>1, AgentRunAssumption
  <2> QED
    BY <1>2, <2>1, <2>2 DEF SameRuns
<1>9. HeldRows'
  <2> SUFFICES ASSUME NEW p \in Servers, NEW x \in Sessions, active'[p][x] # NoRun
               PROVE  LET q == active'[p][x] IN
                      /\ q \in RunIds /\ runTasks'[q].phase \notin {"none", "over"}
                      /\ runRows'[q].server = p /\ runRows'[q].session = x
    BY DEF HeldRows
  <2>1. active'[p][x] = active[p][x] /\ (runTasks'[r].phase = "over" => active'[p][x] # r)
    BY <1>2
  <2> QED
    BY <2>1 DEF RunsInv, HeldRows, SameRuns
<1>10. ChildrenClosed'
  <2> SUFFICES ASSUME NEW c \in RunIds, runRows[c].parent # NoRun, c \notin unrecorded',
                      runTasks'[runRows[c].parent].phase \notin {"none", "delegating"}
               PROVE  runRows'[c].status \notin ACTIVE
    BY DEF ChildrenClosed, SameRuns
  <2>1. CASE runRows[c].parent = r
    BY <2>1
  <2>2. CASE runRows[c].parent # r
    BY <2>2 DEF RunsInv, ChildrenClosed, Families
  <2> QED
    BY <2>1, <2>2
<1>11. ChildrenEndFirst'
  <2> SUFFICES ASSUME NEW c \in RunIds, runRows[c].parent # NoRun, runRows'[c].status \in ACTIVE,
                      c \notin unrecorded', runRows[c].parent \notin unrecorded'
               PROVE  runRows'[runRows[c].parent].status \in ACTIVE
    BY DEF ChildrenEndFirst, SameRuns
  <2>1. runRows[c].parent # r
    OBVIOUS
  <2>2. /\ runRows[c].parent \in RunIds /\ runRows[runRows[c].parent].parent # r
        /\ runRows[runRows[c].parent].status \in ACTIVE
    BY AgentRunAssumption, ZenonT(30) DEF RunsInv, ChildrenEndFirst, Families
  <2> QED
    BY <2>1, <2>2
<1>12. NoneIsOrphaned'
  <2> SUFFICES ASSUME NEW q \in RunIds, runRows'[q].status \in ACTIVE, OwnerAlive(runRows[q])',
                      q \notin unrecorded'
               PROVE  LET t == IF runRows'[q].parent = NoRun THEN q ELSE runRows'[q].parent IN
                      runTasks'[t].phase \in {"created", "awaiting", "delegating", "dropped"}
    BY DEF NoneIsOrphaned, Executes
  <2> DEFINE t == IF runRows[q].parent = NoRun THEN q ELSE runRows[q].parent
  <2>1. t \in RunIds /\ runTasks[t].phase \in {"created", "awaiting", "delegating", "dropped"}
    BY <1>4 DEF RunsInv, NoneIsOrphaned, Families, Executes
  <2>2. t # r
    OBVIOUS
  <2> QED
    BY <2>1, <2>2 DEF SameRuns
<1> QED
  BY <1>3, <1>6, <1>7, <1>8, <1>9, <1>10, <1>11, <1>12 DEF RunsInv

LEMMA EndStep ==
  ASSUME RunsInv, NEW s \in Servers, NEW r \in RunIds, NEW table, NEW status \in TERMINAL,
         Runs(s, r), runTasks[r].phase \in {"awaiting", "delegating"},
         table = ChildCancelled(r) \/ (table = runRows /\ runTasks[r].phase = "awaiting"),
         End(s, r, table, status), UNCHANGED <<processVars, beginning>>
  PROVE  RunsInv'
<1>1. /\ runRows[r].parent = NoRun /\ runRows[r].status \in ACTIVE /\ AgentRunsTypeOK
      /\ \A c \in RunIds : runRows[c].parent = r => c # r
  BY TaskFacts DEF Executes
<1>2. status \notin ACTIVE /\ "cancelled" \notin ACTIVE
  BY OutcomeFacts DEF ACTIVE
<1>3. /\ table \in [RunIds -> RowType] /\ SameRuns(runRows, table)
      /\ \A q \in RunIds : runRows[q].parent # r => table[q].status = runRows[q].status
      /\ \A q \in RunIds : table[q].status \in ACTIVE => runRows[q].status \in ACTIVE
      /\ \A q \in RunIds : runRows[q].parent = r => table[q].status \notin ACTIVE \/ q \in unrecorded
  <2>1. runTasks[r].phase = "awaiting" =>
          \A q \in RunIds : runRows[q].parent = r => runRows[q].status \notin ACTIVE \/ q \in unrecorded
    BY AgentRunAssumption DEF RunsInv, ChildrenClosed
  <2>2. CASE table = ChildCancelled(r)
    <3>1. /\ table \in [RunIds -> RowType] /\ SameRuns(runRows, table)
          /\ \A q \in RunIds : table[q].status =
               IF runRows[q].parent = r /\ runRows[q].status \in ACTIVE /\ runTasks[r].phase = "delegating"
               THEN "cancelled" ELSE runRows[q].status
      BY <1>1, <2>2, ChildCancelledFacts
    <3> QED
      BY <1>2, <2>1, <3>1
  <2>3. CASE table = runRows /\ runTasks[r].phase = "awaiting"
    BY <1>1, <2>1, <2>3 DEF SameRuns, AgentRunsTypeOK
  <2> QED
    BY <2>2, <2>3
<1>4. /\ Finished(table, r, status) \in [RunIds -> RowType]
      /\ SameRuns(table, Finished(table, r, status))
      /\ \A q \in RunIds : Finished(table, r, status)[q].status =
           IF q = r /\ table[r].status \in ACTIVE THEN status ELSE table[q].status
  BY <1>3, FinishedFacts
<1>5. /\ runTasks' \in [RunIds -> TaskType] /\ runTasks'[r].phase = "ended"
      /\ \A q \in RunIds \ {r} : runTasks'[q] = runTasks[q]
  <2>1. runTasks' = [runTasks EXCEPT ![r] = [phase |-> "ended", cancel |-> FALSE]]
    BY DEF End
  <2>2. [phase |-> "ended", cancel |-> FALSE] \in TaskType
    BY DEF TaskType
  <2>3. runTasks \in [RunIds -> TaskType]
    BY <1>1 DEF AgentRunsTypeOK, TaskType
  <2> QED
    BY <2>1, <2>2, <2>3
<1>6. UNCHANGED <<life, epoch, beginning>> /\ runTasks[r].phase # "none"
  BY DEF processVars
<1>7. \/ /\ runRows' = Finished(table, r, status) /\ active' = Released(s, r)
         /\ UNCHANGED <<unrecorded, lostWrites>>
      \/ /\ runRows' = table /\ active' = active /\ unrecorded' = unrecorded \cup {r}
         /\ lostWrites' \in 0 .. MaxLostWrites
  BY <1>1, AgentRunAssumption DEF End, faultVars, AgentRunsTypeOK
<1>8. /\ unrecorded \subseteq unrecorded' /\ unrecorded' \subseteq RunIds
      /\ lostWrites' \in 0 .. MaxLostWrites
  BY <1>1, <1>7 DEF AgentRunsTypeOK
<1>9. /\ runRows' \in [RunIds -> RowType] /\ SameRuns(runRows, runRows')
      /\ \A q \in RunIds : runRows'[q].status \in ACTIVE => runRows[q].status \in ACTIVE
      /\ \A q \in RunIds : q # r /\ runRows[q].parent # r => runRows'[q].status = runRows[q].status
      /\ \A q \in RunIds : q = r \/ runRows[q].parent = r =>
           runRows'[q].status \notin ACTIVE \/ q \in unrecorded'
  <2>1. CASE runRows' = table /\ unrecorded' = unrecorded \cup {r}
    BY <1>3, <2>1
  <2>2. CASE runRows' = Finished(table, r, status) /\ unrecorded' = unrecorded
    BY <1>1, <1>2, <1>3, <1>4, <2>2 DEF SameRuns
  <2> QED
    BY <1>7, <2>1, <2>2
<1> QED
  BY <1>5, <1>6, <1>7, <1>8, <1>9, TaskLeaves

LEMMA FinishedStep ==
  ASSUME RunsInv, NEW s \in Servers, NEW r \in RunIds, TaskFinished(s, r)
  PROVE  RunsInv'
<1>1. /\ Runs(s, r) /\ runTasks[r].phase \in {"ended", "dropped"} /\ runTasks[r].phase # "none"
      /\ active' = Released(s, r) /\ UNCHANGED <<life, epoch, beginning>>
  BY DEF TaskFinished, processVars
<1>2. /\ runRows[r].parent = NoRun /\ OwnerAlive(runRows[r]) /\ AgentRunsTypeOK
      /\ \A c \in RunIds : runRows[c].parent = r => c # r
  BY <1>1, TaskFacts
<1>3. "cancelled" \in TERMINAL /\ "cancelled" \notin ACTIVE
  BY OutcomeFacts DEF ACTIVE
<1>4. \A q \in RunIds : runRows[q].parent = r => runRows[q].status \notin ACTIVE \/ q \in unrecorded
  BY <1>1, AgentRunAssumption DEF RunsInv, ChildrenClosed
<1>5. runTasks[r].phase = "ended" => runRows[r].status \notin ACTIVE \/ r \in unrecorded
  BY <1>2 DEF RunsInv, NoneIsOrphaned, Executes
<1>6. /\ runTasks' \in [RunIds -> TaskType] /\ runTasks'[r].phase = "over"
      /\ \A q \in RunIds \ {r} : runTasks'[q] = runTasks[q]
  <2>1. runTasks' = [runTasks EXCEPT ![r] = [runTasks[r] EXCEPT !.phase = "over"]]
    BY DEF TaskFinished
  <2>2. runTasks \in [RunIds -> TaskType] /\ runTasks[r] \in TaskType
    BY <1>2 DEF AgentRunsTypeOK, TaskType
  <2>3. [runTasks[r] EXCEPT !.phase = "over"] \in TaskType /\ [runTasks[r] EXCEPT !.phase = "over"].phase = "over"
    BY <2>2 DEF TaskType
  <2> QED
    BY <2>1, <2>2, <2>3
<1>7. /\ DroppedRow(r) \in [RunIds -> RowType] /\ SameRuns(runRows, DroppedRow(r))
      /\ \A q \in RunIds : DroppedRow(r)[q].status =
           IF q = r /\ runRows[r].status \in ACTIVE /\ runTasks[r].phase = "dropped" THEN "cancelled"
           ELSE runRows[q].status
  <2>1. runRows \in [RunIds -> RowType]
    BY <1>2 DEF AgentRunsTypeOK
  <2>2. CASE runTasks[r].phase = "dropped"
    BY <1>3, <2>1, <2>2, FinishedFacts DEF DroppedRow
  <2>3. CASE runTasks[r].phase # "dropped"
    BY <2>1, <2>3 DEF DroppedRow, SameRuns
  <2> QED
    BY <2>2, <2>3
<1>8. \/ runRows' = DroppedRow(r) /\ UNCHANGED <<unrecorded, lostWrites>>
      \/ /\ runRows' = runRows /\ unrecorded' = unrecorded \cup {r}
         /\ lostWrites' \in 0 .. MaxLostWrites
  BY <1>2, AgentRunAssumption DEF TaskFinished, faultVars, AgentRunsTypeOK
<1>9. /\ unrecorded \subseteq unrecorded' /\ unrecorded' \subseteq RunIds
      /\ lostWrites' \in 0 .. MaxLostWrites
  BY <1>2, <1>8 DEF AgentRunsTypeOK
<1>10. /\ runRows' \in [RunIds -> RowType] /\ SameRuns(runRows, runRows')
       /\ \A q \in RunIds : runRows'[q].status \in ACTIVE => runRows[q].status \in ACTIVE
       /\ \A q \in RunIds : q # r /\ runRows[q].parent # r => runRows'[q].status = runRows[q].status
       /\ \A q \in RunIds : q = r \/ runRows[q].parent = r =>
            runRows'[q].status \notin ACTIVE \/ q \in unrecorded'
  <2>1. CASE runRows' = runRows /\ unrecorded' = unrecorded \cup {r}
    BY <1>2, <1>4, <2>1 DEF SameRuns, AgentRunsTypeOK
  <2>2. CASE runRows' = DroppedRow(r) /\ unrecorded' = unrecorded
    BY <1>1, <1>2, <1>3, <1>4, <1>5, <1>7, <2>2
  <2> QED
    BY <1>8, <2>1, <2>2
<1> QED
  BY <1>1, <1>6, <1>9, <1>10, TaskLeaves

\* A child is closed, in the table or by a write that raises, and its parent
\* goes on.
LEMMA ChildStep ==
  ASSUME RunsInv, NEW s \in Servers, NEW r \in RunIds,
         CancelChildRaises(s, r) \/ \E status \in Outcomes : ChildEnds(s, r, status)
  PROVE  RunsInv'
<1>1. /\ Runs(s, r) /\ runTasks[r].phase = "delegating"
      /\ UNCHANGED <<life, epoch, active, beginning>>
  BY DEF CancelChildRaises, ChildEnds, processVars
<1>2. /\ runRows[r].parent = NoRun /\ runRows[r].status \in ACTIVE /\ AgentRunsTypeOK
      /\ \A c \in RunIds : runRows[c].parent = r => runTasks[c].phase = "none" /\ c # r
  BY <1>1, TaskFacts DEF Executes
<1>3. /\ runTasks' \in [RunIds -> TaskType] /\ runTasks'[r].phase = "awaiting"
      /\ \A q \in RunIds \ {r} : runTasks'[q] = runTasks[q]
  <2>1. runTasks \in [RunIds -> TaskType] /\ runTasks[r] \in TaskType
    BY <1>2 DEF AgentRunsTypeOK, TaskType
  <2>2. CASE CancelChildRaises(s, r)
    <3>1. runTasks' = [runTasks EXCEPT ![r] = [phase |-> "awaiting", cancel |-> FALSE]]
      BY <2>2 DEF CancelChildRaises
    <3>2. [phase |-> "awaiting", cancel |-> FALSE] \in TaskType
      BY DEF TaskType
    <3> QED
      BY <2>1, <3>1, <3>2
  <2>3. CASE \E status \in Outcomes : ChildEnds(s, r, status)
    <3>1. runTasks' = [runTasks EXCEPT ![r] = [runTasks[r] EXCEPT !.phase = "awaiting"]]
      BY <2>3 DEF ChildEnds
    <3>2. [runTasks[r] EXCEPT !.phase = "awaiting"] \in TaskType
          /\ [runTasks[r] EXCEPT !.phase = "awaiting"].phase = "awaiting"
      BY <2>1 DEF TaskType
    <3> QED
      BY <2>1, <3>1, <3>2
  <2> QED
    BY <2>2, <2>3
<1>4. /\ runRows' \in [RunIds -> RowType] /\ SameRuns(runRows, runRows')
      /\ \A q \in RunIds : runRows'[q].status \in ACTIVE => runRows[q].status \in ACTIVE
      /\ \A q \in RunIds : runRows[q].parent # r => runRows'[q].status = runRows[q].status
      /\ \A q \in RunIds : runRows[q].parent = r => runRows'[q].status \notin ACTIVE \/ q \in unrecorded'
      /\ unrecorded \subseteq unrecorded' /\ unrecorded' \subseteq RunIds
      /\ lostWrites' \in 0 .. MaxLostWrites
  <2>0. /\ runRows \in [RunIds -> RowType] /\ unrecorded \subseteq RunIds
        /\ lostWrites \in 0 .. MaxLostWrites /\ SameRuns(runRows, runRows)
    BY <1>2 DEF AgentRunsTypeOK, SameRuns
  <2>1. CASE CancelChildRaises(s, r)
    <3>1. /\ runRows' = runRows /\ unrecorded' = unrecorded \cup Child(r)
          /\ lostWrites' \in 0 .. MaxLostWrites
      BY <2>0, <2>1, AgentRunAssumption DEF CancelChildRaises
    <3> QED
      BY <2>0, <3>1 DEF Child
  <2>2. ASSUME NEW status \in Outcomes, ChildEnds(s, r, status)
        PROVE  /\ runRows' \in [RunIds -> RowType] /\ SameRuns(runRows, runRows')
               /\ \A q \in RunIds : runRows'[q].status \in ACTIVE => runRows[q].status \in ACTIVE
               /\ \A q \in RunIds : runRows[q].parent # r => runRows'[q].status = runRows[q].status
               /\ \A q \in RunIds : runRows[q].parent = r =>
                    runRows'[q].status \notin ACTIVE \/ q \in unrecorded'
               /\ unrecorded \subseteq unrecorded' /\ unrecorded' \subseteq RunIds
               /\ lostWrites' \in 0 .. MaxLostWrites
    <3>1. PICK c \in Child(r) :
            \/ runRows' = Finished(runRows, c, status) /\ UNCHANGED faultVars
            \/ /\ lostWrites < MaxLostWrites /\ lostWrites' = lostWrites + 1
               /\ unrecorded' = unrecorded \cup {c} /\ UNCHANGED runRows
      BY <2>2 DEF ChildEnds
    <3>2. c \in RunIds /\ runRows[c].parent = r
      BY <3>1 DEF Child
    <3>3. \A q \in RunIds : runRows[q].parent = r => q = c
      BY <3>2, AgentRunAssumption DEF RunsInv, Families
    <3>4. status \in TERMINAL /\ status \notin ACTIVE
      BY <2>2, OutcomeFacts
    <3>5. CASE runRows' = Finished(runRows, c, status) /\ UNCHANGED faultVars
      <4>1. /\ runRows' \in [RunIds -> RowType] /\ SameRuns(runRows, runRows')
            /\ \A q \in RunIds : runRows'[q].status =
                 IF q = c /\ runRows[c].status \in ACTIVE THEN status ELSE runRows[q].status
        BY <2>0, <3>2, <3>4, <3>5, FinishedFacts
      <4> QED
        BY <2>0, <3>2, <3>3, <3>4, <3>5, <4>1 DEF faultVars
    <3>6. CASE /\ lostWrites < MaxLostWrites /\ lostWrites' = lostWrites + 1
               /\ unrecorded' = unrecorded \cup {c} /\ UNCHANGED runRows
      <4>1. lostWrites' \in 0 .. MaxLostWrites
        BY <2>0, <3>6, AgentRunAssumption
      <4> QED
        BY <2>0, <3>2, <3>3, <3>6, <4>1
    <3> QED
      BY <3>1, <3>5, <3>6
  <2> QED
    BY <2>1, <2>2
<1>5. AgentRunsTypeOK'
  BY <1>1, <1>2, <1>3, <1>4 DEF AgentRunsTypeOK, TaskType
<1>6. \A q \in RunIds : OwnerAlive(runRows[q])' <=> OwnerAlive(runRows[q])
  BY <1>1, <1>4 DEF OwnerAlive, SameRuns
<1>7. \A q \in RunIds : Executes(q)' <=> Executes(q)
  BY <1>1, <1>3 DEF Executes
<1>8. BeginsAlive' /\ TaskRows'
  BY <1>1, <1>3, <1>4, <1>6 DEF RunsInv, BeginsAlive, TaskRows, SameRuns
<1>9. Families' /\ OneActiveRow'
  <2>1. Families'
    BY <1>4 DEF RunsInv, Families, SameRuns
  <2>2. OneActiveRow'
    BY <1>4 DEF RunsInv, OneActiveRow, SameRuns
  <2> QED
    BY <2>1, <2>2
<1>10. ExecutedRows'
  <2> SUFFICES ASSUME NEW q \in RunIds, Executes(q)
               PROVE  runRows'[q].status \in ACTIVE /\ active[runRows'[q].server][runRows'[q].session] = q
    BY <1>1, <1>7 DEF ExecutedRows
  <2>1. runRows[q].parent # r
    BY <1>2 DEF Executes
  <2> QED
    BY <1>4, <2>1 DEF RunsInv, ExecutedRows, SameRuns
<1>11. HeldRows'
  BY <1>1, <1>3, <1>4 DEF RunsInv, HeldRows, SameRuns
<1>12. ChildrenClosed'
  <2> SUFFICES ASSUME NEW c \in RunIds, runRows[c].parent # NoRun, c \notin unrecorded',
                      runTasks'[runRows[c].parent].phase \notin {"none", "delegating"}
               PROVE  runRows'[c].status \notin ACTIVE
    BY <1>4 DEF ChildrenClosed, SameRuns
  <2>1. CASE runRows[c].parent = r
    BY <1>4, <2>1
  <2>2. CASE runRows[c].parent # r
    BY <1>3, <1>4, <2>2 DEF RunsInv, ChildrenClosed, Families
  <2> QED
    BY <2>1, <2>2
<1>13. ChildrenEndFirst'
  <2> SUFFICES ASSUME NEW c \in RunIds, runRows[c].parent # NoRun, runRows'[c].status \in ACTIVE,
                      c \notin unrecorded', runRows[c].parent \notin unrecorded'
               PROVE  runRows'[runRows[c].parent].status \in ACTIVE
    BY <1>4 DEF ChildrenEndFirst, SameRuns
  <2>1. /\ runRows[c].parent \in RunIds /\ runRows[runRows[c].parent].parent # r
        /\ runRows[runRows[c].parent].status \in ACTIVE
    BY <1>4, AgentRunAssumption DEF RunsInv, ChildrenEndFirst, Families
  <2> QED
    BY <1>4, <2>1
<1>14. NoneIsOrphaned'
  <2> SUFFICES ASSUME NEW q \in RunIds, runRows'[q].status \in ACTIVE, OwnerAlive(runRows[q])',
                      q \notin unrecorded'
               PROVE  LET t == IF runRows'[q].parent = NoRun THEN q ELSE runRows'[q].parent IN
                      runTasks'[t].phase \in {"created", "awaiting", "delegating", "dropped"}
    BY DEF NoneIsOrphaned, Executes
  <2> DEFINE t == IF runRows[q].parent = NoRun THEN q ELSE runRows[q].parent
  <2>1. t \in RunIds /\ runTasks[t].phase \in {"created", "awaiting", "delegating", "dropped"}
    BY <1>4, <1>6 DEF RunsInv, NoneIsOrphaned, Families, Executes
  <2> QED
    BY <1>3, <1>4, <2>1 DEF SameRuns
<1> QED
  BY <1>5, <1>8, <1>9, <1>10, <1>11, <1>12, <1>13, <1>14 DEF RunsInv

\* A process that is gone leaves its rows; nothing of it executes them.
LEMMA GoneStep ==
  ASSUME RunsInv, NEW s \in Servers, ExitServer(s) \/ CrashServer(s)
  PROVE  RunsInv'
<1>1. /\ life' = [life EXCEPT ![s] = "down"]
      /\ active' = [active EXCEPT ![s] = [x \in Sessions |-> NoRun]]
      /\ beginning' = [beginning EXCEPT ![s] = NoSession]
      /\ runTasks' = [r \in RunIds |-> IF r \in TasksOf(s) THEN NoTask ELSE runTasks[r]]
      /\ UNCHANGED <<runRows, epoch, unrecorded, lostWrites>>
  BY DEF ExitServer, CrashServer, Gone, faultVars
<1>2. AgentRunsTypeOK
  BY DEF RunsInv
<1>3. NoTask \in TaskType /\ NoTask.phase = "none"
  BY DEF NoTask, TaskType
<1>4. \A r \in RunIds : /\ runTasks'[r].phase = IF runRows[r].server = s THEN "none" ELSE runTasks[r].phase
                        /\ runTasks'[r] \in TaskType
  BY <1>1, <1>2, <1>3 DEF TasksOf, AgentRunsTypeOK, TaskType
<1>5. AgentRunsTypeOK'
  <2>1. runTasks' \in [RunIds -> TaskType]
    BY <1>1, <1>4
  <2> QED
    BY <1>1, <1>2, <2>1 DEF AgentRunsTypeOK, TaskType
<1>6. \A r \in RunIds : OwnerAlive(runRows[r])' <=> OwnerAlive(runRows[r]) /\ runRows[r].server # s
  BY <1>1, <1>2 DEF OwnerAlive, AgentRunsTypeOK
<1>7. \A r \in RunIds : Executes(r)' <=> Executes(r) /\ runRows[r].server # s
  BY <1>4 DEF Executes
<1>8. /\ \A x \in Sessions : active'[s][x] = NoRun
      /\ \A p \in Servers \ {s} : active'[p] = active[p]
  BY <1>1, <1>2 DEF AgentRunsTypeOK
<1>9. BeginsAlive' /\ TaskRows'
  <2>1. BeginsAlive'
    BY <1>1, <1>2 DEF RunsInv, BeginsAlive, AgentRunsTypeOK
  <2>2. TaskRows'
    BY <1>1, <1>4, <1>6 DEF RunsInv, TaskRows
  <2> QED
    BY <2>1, <2>2
<1>10. Families' /\ OneActiveRow'
  BY <1>1 DEF RunsInv, Families, OneActiveRow
<1>11. ExecutedRows'
  BY <1>1, <1>7, <1>8 DEF RunsInv, ExecutedRows, TaskRows, Executes, OwnerAlive
<1>12. HeldRows'
  BY <1>1, <1>4, <1>8 DEF RunsInv, HeldRows
<1>13. ChildrenClosed' /\ ChildrenEndFirst'
  <2>1. ChildrenClosed'
    BY <1>1, <1>4 DEF RunsInv, ChildrenClosed, Families
  <2>2. ChildrenEndFirst'
    BY <1>1 DEF RunsInv, ChildrenEndFirst
  <2> QED
    BY <2>1, <2>2
<1>14. NoneIsOrphaned'
  <2> SUFFICES ASSUME NEW q \in RunIds, runRows[q].status \in ACTIVE, OwnerAlive(runRows[q])',
                      q \notin unrecorded
               PROVE  LET t == IF runRows[q].parent = NoRun THEN q ELSE runRows[q].parent IN
                      runTasks'[t].phase \in {"created", "awaiting", "delegating", "dropped"}
    BY <1>1 DEF NoneIsOrphaned, Executes
  <2> DEFINE t == IF runRows[q].parent = NoRun THEN q ELSE runRows[q].parent
  <2>1. /\ t \in RunIds /\ runTasks[t].phase \in {"created", "awaiting", "delegating", "dropped"}
        /\ runRows[t].server = runRows[q].server
    BY <1>6 DEF RunsInv, NoneIsOrphaned, Families, Executes
  <2> QED
    BY <1>4, <1>6, <2>1
<1> QED
  BY <1>5, <1>9, <1>10, <1>11, <1>12, <1>13, <1>14 DEF RunsInv

-----------------------------------------------------------------------------
LEMMA RunsStep == RunsInv /\ [AgentRunsNext]_agentRunVars => RunsInv'
<1> SUFFICES ASSUME RunsInv, [AgentRunsNext]_agentRunVars PROVE RunsInv'
  OBVIOUS
<1>1. CASE UNCHANGED agentRunVars
  <2>1. /\ \A r \in RunIds : OwnerAlive(runRows[r])' <=> OwnerAlive(runRows[r])
        /\ BeginsAlive' /\ AgentRunsTypeOK'
    BY <1>1 DEF agentRunVars, RunsInv, OwnerAlive, BeginsAlive, AgentRunsTypeOK
  <2> QED
    BY <1>1, <2>1, PhasesStay DEF agentRunVars
<1>2. ASSUME NEW s \in Servers, NEW r \in RunIds, NEW status \in Outcomes, Outcome(s, r, status)
      PROVE  RunsInv'
  BY <1>2, EndStep, OutcomeFacts DEF Outcome
<1>3. ASSUME NEW s \in Servers, NEW r \in RunIds, CancelRun(s, r) PROVE RunsInv'
  BY <1>3, EndStep, OutcomeFacts DEF CancelRun
<1> QED
  BY <1>1, <1>2, <1>3, QuietStep, InsertStep, SkillsRaiseStep, DelegateStep, StartStep, FinishedStep,
     ChildStep, GoneStep DEF AgentRunsNext, TaskStep, CancelSwallowed

\* One run of a session executes, whatever servers there are and whichever
\* crash; the three records agree on which; no child outlives its parent in the
\* table, and no run is left to nobody.
THEOREM RunsExclude == AgentRunsSpec => [](AgentRunsTypeOK /\ RunsAreExclusive)
<1>1. AgentRunsInit => RunsInv
  <2> SUFFICES ASSUME AgentRunsInit PROVE RunsInv
    OBVIOUS
  <2>1. /\ NoRow \in RowType /\ NoRow.status = "none" /\ NoRow.parent = NoRun
        /\ NoTask \in TaskType /\ NoTask.phase = "none" /\ "none" \notin ACTIVE
    BY AgentRunAssumption DEF NoRow, NoTask, RowType, TaskType, ACTIVE
  <2>2. /\ \A r \in RunIds : runRows[r] = NoRow /\ runTasks[r] = NoTask
        /\ \A s \in Servers, x \in Sessions : active[s][x] = NoRun
        /\ \A s \in Servers : beginning[s] = NoSession
    BY DEF AgentRunsInit
  <2>3. AgentRunsTypeOK
    BY <2>1, AgentRunAssumption DEF AgentRunsInit, AgentRunsTypeOK, TaskType
  <2> QED
    BY <2>1, <2>2, <2>3 DEF RunsInv, BeginsAlive, TaskRows, Families, OneActiveRow, ExecutedRows, HeldRows,
       ChildrenClosed, ChildrenEndFirst, NoneIsOrphaned, Executes
<1>2. RunsInv => AgentRunsTypeOK /\ RunsAreExclusive
  <2> SUFFICES ASSUME RunsInv PROVE AgentRunsTypeOK /\ RunsAreExclusive
    OBVIOUS
  <2>1. OneExecution
    BY DEF RunsInv, OneExecution, OneActiveRow, ExecutedRows, TaskRows, Executes
  <2>2. ReservationAgrees
    BY DEF RunsInv, ReservationAgrees, ExecutedRows, HeldRows
  <2> QED
    BY <2>1, <2>2 DEF RunsInv, RunsAreExclusive
<1> QED
  BY <1>1, <1>2, RunsStep, PTL DEF AgentRunsSpec

-----------------------------------------------------------------------------
(* One run of the agent loop.                                              *)

\* The states in which a run is suspended at a point.
StatesAt(where) ==
  CASE where = "start" -> {"idle"}
    [] where = "turn" -> {"preparing", "observing"}
    [] where \in {"model", "final"} -> {"thinking"}
    [] where = "call" -> {"thinking", "observing"}
    [] where \in {"approval", "request"} -> {"authorizing"}
    [] where \in {"tool", "finished"} -> {"executing"}
    [] where = "report" -> {"action_requested", "authorizing", "executing"}
    [] OTHER -> RunState

\* Between an answer of the model and the last of its observations.
Calling == {"call", "approval", "request", "tool", "finished"}

ThreadRow == [role : {"assistant", "tool"}, calls : Nat]

Execution == [request : Requests, expired : BOOLEAN,
              grant : {"none", "open", "allow_once", "deny", "allow", "require_approval"}]

\* How often q was executed.
Times(rows, q) == Cardinality({i \in DOMAIN rows : rows[i].request = q})

TimesRun(q) == Times(ran, q)

RuntimeTyped ==
  /\ RuntimeTypeOK
  /\ thread \in Seq(ThreadRow) /\ saved \in Seq(ThreadRow)
  /\ ran \in Seq(Execution)
  /\ ending \in {"none", "failed", "blocked", "timed_out"}

\* What is considered or executed may be: it is a tool of the registry, with
\* room left for the call, and granted when it is requested.
CallInOrder ==
  LET q == Head(calls) IN
  /\ calls # <<>>
  /\ q.tool \in Tools
  /\ point = "approval" => Rule[q.tool] = "require_approval"
  /\ point = "request" => Rule[q.tool] = "allow" \/ (Rule[q.tool] = "require_approval" /\ GrantedByAnswer)
  /\ Len(ran) + 1 <= toolCalls
  /\ TimesRun(q) + 1 <= counts[q] /\ counts[q] < RepeatLimit

CallsCounted ==
  /\ Len(ran) <= toolCalls
  /\ point # "over" => toolCalls <= MaxToolCalls
  /\ \A q \in Requests : TimesRun(q) <= counts[q]

\* The message said[first] has "left" calls that are not observed.
Underway(said, first, left) ==
  /\ said[first].role = "assistant" /\ said[first].calls = (Len(said) - first) + left
  /\ \A j \in first + 1 .. Len(said) : said[j].role = "tool"
  /\ \A i \in 1 .. first - 1 : said[i].role = "assistant" =>
       /\ i + said[i].calls < first
       /\ \A j \in i + 1 .. i + said[i].calls : said[j].role = "tool"

ThreadInOrder ==
  /\ point \in {"start", "turn", "model", "final"} => calls = <<>> /\ Observed(thread)
  /\ point \in Calling => calls # <<>> /\ \E first \in 1 .. Len(thread) : Underway(thread, first, Len(calls))
  /\ Observed(saved)

RuntimeInv ==
  /\ RuntimeTyped
  /\ State \in StatesAt(point) /\ LegalTransitions
  /\ RunsOnGrant /\ CallsBounded
  /\ point \in {"approval", "request"} => CallInOrder
  /\ CallsCounted /\ ThreadInOrder

-----------------------------------------------------------------------------
LEMMA Concatenated ==
  ASSUME NEW a, NEW b, NEW c
  PROVE  /\ <<a>> \o <<>> = <<a>> /\ <<>> \o <<b>> = <<b>>
         /\ <<a>> \o <<b>> = <<a, b>> /\ <<a>> \o <<b, c>> = <<a, b, c>>
<1> DEFINE S == {a, b, c}
<1>1. /\ <<>> \in Seq(S) /\ <<a>> \in Seq(S) /\ <<b>> \in Seq(S) /\ <<a, b>> \in Seq(S) /\ <<b, c>> \in Seq(S)
      /\ <<a, b, c>> \in Seq(S)
      /\ Len(<<a>>) = 1 /\ Len(<<b>>) = 1 /\ Len(<<a, b>>) = 2 /\ Len(<<b, c>>) = 2 /\ Len(<<a, b, c>>) = 3
  OBVIOUS
<1> HIDE DEF S
<1>2. <<a>> \o <<>> = <<a>> /\ <<>> \o <<b>> = <<b>>
  BY <1>1, ConcatEmptySeq
<1>3. <<a>> \o <<b>> = <<a, b>>
  <2>1. PICK t : t = <<a>> \o <<b>>
    OBVIOUS
  <2>2. t \in Seq(S) /\ Len(t) = 2 /\ t[1] = a /\ t[2] = b
    BY <1>1, <2>1, ConcatProperties
  <2>3. \A i \in 1 .. 2 : t[i] = <<a, b>>[i]
    BY <2>2
  <2> QED
    BY <1>1, <2>1, <2>2, <2>3, SeqEqual
<1>4. <<a>> \o <<b, c>> = <<a, b, c>>
  <2>1. PICK t : t = <<a>> \o <<b, c>>
    OBVIOUS
  <2>2. t \in Seq(S) /\ Len(t) = 3 /\ t[1] = a /\ t[2] = b /\ t[3] = c
    BY <1>1, <2>1, ConcatProperties
  <2>3. \A i \in 1 .. 3 : t[i] = <<a, b, c>>[i]
    BY <2>2
  <2> QED
    BY <1>1, <2>1, <2>2, <2>3, SeqEqual
<1> QED
  BY <1>2, <1>3, <1>4

LEMMA RanFinite ==
  ASSUME NEW rows \in Seq(Execution), NEW q
  PROVE  /\ IsFiniteSet({i \in DOMAIN rows : rows[i].request = q})
         /\ Cardinality({i \in DOMAIN rows : rows[i].request = q}) \in Nat
<1>1. DOMAIN rows = 1 .. Len(rows) /\ Len(rows) \in Int
  BY LenProperties
<1>2. IsFiniteSet(DOMAIN rows)
  BY <1>1, FS_Interval
<1>3. {i \in DOMAIN rows : rows[i].request = q} \in SUBSET (DOMAIN rows)
  OBVIOUS
<1> QED
  BY <1>2, <1>3, FS_Subset, FS_CardinalityType

LEMMA TimesRunIsNat ==
  ASSUME RuntimeInv, NEW q
  PROVE  TimesRun(q) \in Nat
BY RanFinite DEF RuntimeInv, RuntimeTyped, TimesRun, Times

LEMMA StateFacts ==
  ASSUME RuntimeInv
  PROVE  /\ State \in RunState /\ State \in StatesAt(point)
         /\ point \notin {"start", "over"} => "failed" \in Allowed(State) /\ "cancelled" \in Allowed(State)
<1>1. State \in RunState
  <2>1. trail \in Seq(RunState) /\ Len(trail) \in 1 .. Len(trail)
    BY EmptySeq, LenProperties DEF RuntimeInv, RuntimeTyped, RuntimeTypeOK
  <2> QED
    BY <2>1, ElementOfSeq DEF State
<1>2. State \in StatesAt(point) /\ point \in {"start", "turn", "model", "final", "call", "approval", "request", "tool",
                "finished", "report", "over"}
  BY DEF RuntimeInv, RuntimeTyped, RuntimeTypeOK
<1>3. point \notin {"start", "over"} =>
        State \in {"preparing", "observing", "thinking", "authorizing", "executing", "action_requested"}
  BY <1>2 DEF StatesAt
<1>4. \A s \in {"preparing", "observing", "thinking", "authorizing", "executing", "action_requested"} :
        "failed" \in Allowed(s) /\ "cancelled" \in Allowed(s)
  BY DEF Allowed
<1> QED
  BY <1>1, <1>2, <1>3, <1>4

\* A path of allowed transitions, from the state a step begins in.
LEMMA Goes ==
  ASSUME RuntimeInv, NEW b \in RunState, NEW c \in RunState
  PROVE  /\ Through(<<>>) => trail' = <<State>> /\ State' = State
         /\ Through(<<b>>) => trail' = <<State, b>> /\ State' = b
         /\ Through(<<b, c>>) => trail' = <<State, b, c>> /\ State' = c
<1>1. PICK s : s = State
  OBVIOUS
<1>2. <<s>> \o <<>> = <<s>> /\ <<s>> \o <<b>> = <<s, b>> /\ <<s>> \o <<b, c>> = <<s, b, c>>
  BY Concatenated
<1>3. /\ Through(<<>>) => trail' = <<s>>
      /\ Through(<<b>>) => trail' = <<s, b>>
      /\ Through(<<b, c>>) => trail' = <<s, b, c>>
  BY <1>1, <1>2 DEF Through
<1>4. State' = trail'[Len(trail')]
  BY DEF State
<1>5. <<s>>[Len(<<s>>)] = s /\ <<s, b>>[Len(<<s, b>>)] = b /\ <<s, b, c>>[Len(<<s, b, c>>)] = c
  OBVIOUS
<1> QED
  BY <1>1, <1>3, <1>4, <1>5, Zenon

LEMMA GoesLawfully ==
  ASSUME RuntimeInv, NEW b \in RunState, NEW c \in RunState,
         \/ Through(<<>>)
         \/ Through(<<b>>) /\ b \in Allowed(State)
         \/ Through(<<b, c>>) /\ b \in Allowed(State) /\ (c \in Allowed(b) \/ (b = "waiting_for_input" /\ outcome' = "raised"))
  PROVE  /\ trail' \in Seq(RunState) /\ trail' # <<>> /\ LegalTransitions'
<1>1. State \in RunState
  BY StateFacts
<1>2. PICK s : s = State
  OBVIOUS
<1>3. CASE trail' = <<s>>
  BY <1>1, <1>2, <1>3 DEF LegalTransitions
<1>4. CASE trail' = <<s, b>> /\ b \in Allowed(s)
  BY <1>1, <1>2, <1>4 DEF LegalTransitions
<1>5. CASE trail' = <<s, b, c>> /\ b \in Allowed(s) /\ (c \in Allowed(b) \/ (b = "waiting_for_input" /\ outcome' = "raised"))
  BY <1>1, <1>2, <1>5 DEF LegalTransitions
<1> QED
  BY <1>2, <1>3, <1>4, <1>5, Goes

\* A run that is over, or reports before it is, calls nothing more.
LEMMA WindsUp ==
  ASSUME RuntimeInv, point' \in {"report", "over"},
         trail' \in Seq(RunState) /\ trail' # <<>> /\ LegalTransitions',
         State' \in StatesAt(point'), ending' \in {"none", "failed", "blocked", "timed_out"},
         iteration' \in 0 .. MaxIterations,
         toolCalls' \in Nat, toolCalls <= toolCalls', point' = "report" => toolCalls' <= MaxToolCalls,
         counts' \in [Requests -> Nat], \A q \in Requests : counts[q] <= counts'[q],
         asked' \in {"none", "open", "allow_once", "deny"}, expired' \in BOOLEAN,
         UNCHANGED <<calls, textVars, ran>>
  PROVE  RuntimeInv'
<1>1. RuntimeTyped'
  BY DEF RuntimeInv, RuntimeTyped, RuntimeTypeOK, textVars
<1>2. RunsOnGrant' /\ CallsBounded'
  BY DEF RuntimeInv, RunsOnGrant, CallsBounded
<1>3. CallsCounted'
  <2>1. Len(ran) \in Nat /\ toolCalls \in Nat /\ Len(ran) <= toolCalls
    BY LenProperties DEF RuntimeInv, RuntimeTyped, RuntimeTypeOK, CallsCounted
  <2>2. ASSUME NEW q \in Requests PROVE TimesRun(q)' <= counts'[q]
    <3>1. TimesRun(q)' = TimesRun(q) /\ TimesRun(q) <= counts[q] /\ counts[q] <= counts'[q]
      BY DEF RuntimeInv, CallsCounted, TimesRun, Times
    <3>2. TimesRun(q) \in Nat /\ counts[q] \in Nat /\ counts'[q] \in Nat
      BY TimesRunIsNat DEF RuntimeInv, RuntimeTyped, RuntimeTypeOK
    <3> QED
      BY <3>1, <3>2
  <2> QED
    BY <2>1, <2>2 DEF CallsCounted
<1>4. ThreadInOrder'
  BY DEF RuntimeInv, ThreadInOrder, Calling, Observed, textVars
<1> QED
  BY <1>1, <1>2, <1>3, <1>4 DEF RuntimeInv

\* A run that goes on to another point, with the same calls.
LEMMA GoesOn ==
  ASSUME RuntimeInv, point' \notin {"report", "over"},
         point' \in {"start", "turn", "model", "final", "call", "approval", "request", "tool", "finished"},
         trail' \in Seq(RunState) /\ trail' # <<>> /\ LegalTransitions',
         State' \in StatesAt(point'), point # "over",
         point' \in Calling <=> point \in Calling, point # "report",
         point' \in {"approval", "request"} => CallInOrder',
         iteration' \in 0 .. MaxIterations,
         asked' \in {"none", "open", "allow_once", "deny"}, expired' \in BOOLEAN,
         UNCHANGED <<calls, textVars, toolCalls, counts, ran, ending>>
  PROVE  RuntimeInv'
<1>1. RuntimeTyped'
  BY DEF RuntimeInv, RuntimeTyped, RuntimeTypeOK, textVars
<1>2. RunsOnGrant' /\ CallsBounded'
  BY DEF RuntimeInv, RunsOnGrant, CallsBounded
<1>3. CallsCounted'
  BY DEF RuntimeInv, CallsCounted, TimesRun, Times
<1>4. ThreadInOrder'
  <2>1. point \in {"start", "turn", "model", "final", "call", "approval", "request", "tool", "finished"}
    BY DEF RuntimeInv, RuntimeTyped, RuntimeTypeOK
  <2> QED
    BY <2>1 DEF RuntimeInv, ThreadInOrder, Calling, Observed, Underway, textVars
<1> QED
  BY <1>1, <1>2, <1>3, <1>4 DEF RuntimeInv

LEMMA TypesNow ==
  ASSUME RuntimeInv
  PROVE  /\ iteration \in 0 .. MaxIterations /\ toolCalls \in Nat /\ counts \in [Requests -> Nat]
         /\ asked \in {"none", "open", "allow_once", "deny"} /\ expired \in BOOLEAN
         /\ ending \in {"none", "failed", "blocked", "timed_out"}
         /\ calls \in Seq(Requests) /\ MaxToolCalls \in Nat /\ MaxIterations \in Nat
         /\ point \in {"start", "turn", "model", "final", "call", "approval", "request", "tool",
                       "finished", "report", "over"}
BY RuntimeAssumption DEF RuntimeInv, RuntimeTyped, RuntimeTypeOK

\* A run that stops where it is, or is cancelled there.
LEMMA Stopped ==
  ASSUME RuntimeInv, point \notin {"start", "over"}, NEW last \in {"failed", "cancelled"},
         Through(<<last>>), point' = "over", UNCHANGED ending, iteration' \in 0 .. MaxIterations,
         UNCHANGED <<toolCalls, calls, counts, textVars, askVars, ran>>
  PROVE  RuntimeInv'
<1>1. last \in RunState /\ last \in Allowed(State)
  BY StateFacts DEF RunState
<1>2. trail' \in Seq(RunState) /\ trail' # <<>> /\ LegalTransitions'
  BY <1>1, GoesLawfully
<1>3. State' \in StatesAt(point')
  <2>1. State' = last
    BY <1>1, Goes
  <2> QED
    BY <1>1, <2>1 DEF StatesAt
<1>4. /\ toolCalls' = toolCalls /\ counts' = counts
      /\ asked' \in {"none", "open", "allow_once", "deny"} /\ expired' \in BOOLEAN
      /\ ending' \in {"none", "failed", "blocked", "timed_out"}
  BY TypesNow DEF askVars
<1>5. toolCalls \in Nat /\ counts \in [Requests -> Nat] /\ \A q \in Requests : counts[q] <= counts[q]
  BY TypesNow
<1> QED
  BY <1>2, <1>3, <1>4, <1>5, WindsUp

LEMMA StopIsThrough ==
  ASSUME NEW result, Stop(<<>>, result)
  PROVE  Through(<<"failed">>) /\ point' = "over" /\ outcome' = result /\ UNCHANGED ending
<1>1. <<>> \o <<"failed">> = <<"failed">>
  BY Concatenated
<1> QED
  BY <1>1 DEF Stop, Over

\* Every step that stops a run, whatever it is for.
LEMMA StoppingSteps ==
  ASSUME RuntimeInv, NEW result, Stop(<<>>, result), point \notin {"start", "over"}, iteration' \in 0 .. MaxIterations,
         UNCHANGED <<toolCalls, calls, counts, textVars, askVars, ran>>
  PROVE  RuntimeInv'
BY StopIsThrough, Stopped

\* A run that takes a step of none or one transition to another point.
LEMMA Suspends ==
  ASSUME RuntimeInv, point \notin {"over", "report"}, NEW b \in RunState, NEW where,
         \/ Suspend(<<>>, where) /\ State \in StatesAt(where)
         \/ Suspend(<<b>>, where) /\ b \in Allowed(State) /\ b \in StatesAt(where),
         where \in {"start", "turn", "model", "final", "call", "approval", "request", "tool", "finished"},
         where \in Calling <=> point \in Calling,
         where \in {"approval", "request"} => CallInOrder',
         iteration' \in 0 .. MaxIterations,
         UNCHANGED <<toolCalls, calls, counts, textVars, askVars, ran>>
  PROVE  RuntimeInv'
<1>1. point' = where /\ UNCHANGED ending /\ (Through(<<>>) \/ (Through(<<b>>) /\ b \in Allowed(State)))
  BY DEF Suspend
<1>2. trail' \in Seq(RunState) /\ trail' # <<>> /\ LegalTransitions'
  BY <1>1, GoesLawfully
<1>3. State' \in StatesAt(point')
  BY <1>1, Goes DEF Suspend
<1> QED
  BY <1>1, <1>2, <1>3, TypesNow, GoesOn DEF askVars

LEMMA RuntimeStart ==
  ASSUME RuntimeInit
  PROVE  RuntimeInv
<1>1. RuntimeTypeOK /\ LegalTransitions /\ State \in StatesAt(point)
  <2>1. trail = <<"idle">> /\ trail \in Seq(RunState) /\ Len(trail) = 1 /\ trail # <<>>
    BY DEF RuntimeInit, RunState
  <2>2. RuntimeTypeOK
    <3>1. calls \in Seq(Requests)
      BY EmptySeq DEF RuntimeInit
    <3>2. counts \in [Requests -> Nat]
      BY DEF RuntimeInit
    <3>3. iteration \in 0 .. MaxIterations
      BY RuntimeAssumption DEF RuntimeInit
    <3> QED
      BY <2>1, <3>1, <3>2, <3>3 DEF RuntimeInit, RuntimeTypeOK
  <2>3. LegalTransitions /\ State = "idle"
    BY <2>1 DEF LegalTransitions, State
  <2> QED
    BY <2>2, <2>3 DEF RuntimeInit, StatesAt
<1>2. RuntimeTyped
  BY <1>1, EmptySeq DEF RuntimeInit, RuntimeTyped
<1>3. DOMAIN ran = {} /\ DOMAIN thread = {} /\ DOMAIN saved = {} /\ Len(ran) = 0
  BY EmptySeq DEF RuntimeInit
<1>4. \A q \in Requests : {i \in DOMAIN ran : ran[i].request = q} = {} /\ TimesRun(q) = 0
  BY <1>3, FS_EmptySet DEF TimesRun, Times
<1>5. RunsOnGrant /\ CallsBounded
  BY <1>3, <1>4, RuntimeAssumption DEF RunsOnGrant, CallsBounded, TimesRun, Times
<1>6. CallsCounted
  BY <1>3, <1>4, RuntimeAssumption DEF RuntimeInit, CallsCounted
<1>7. ThreadInOrder
  BY <1>3 DEF RuntimeInit, ThreadInOrder, Calling, Observed
<1> QED
  BY <1>1, <1>2, <1>5, <1>6, <1>7 DEF RuntimeInit, RuntimeInv

LEMMA BeginRunStep ==
  ASSUME RuntimeInv, Start
  PROVE  RuntimeInv'
<1>1. point = "start" /\ Suspend(<<"preparing">>, "turn") /\ UNCHANGED <<loopVars, textVars, askVars, ran>>
  BY DEF Start
<1>2. State = "idle"
  BY <1>1, StateFacts DEF StatesAt
<1>3. "preparing" \in RunState /\ "preparing" \in Allowed(State) /\ "preparing" \in StatesAt("turn")
  BY <1>2 DEF RunState, Allowed, StatesAt
<1> QED
  BY <1>1, <1>3, TypesNow, Suspends DEF loopVars, Calling

LEMMA ModelSteps ==
  ASSUME RuntimeInv,
         \/ \E limited \in BOOLEAN : AskModel(limited) \/ \E empty \in BOOLEAN : ModelAnswers(limited, empty)
         \/ ModelRaises
  PROVE  RuntimeInv'
<1>1. CASE \E limited \in BOOLEAN : AskModel(limited)
  <2>1. point = "turn" /\ UNCHANGED <<toolCalls, calls, counts, textVars, askVars, ran>>
    BY <1>1 DEF AskModel
  <2>2. iteration' \in 0 .. MaxIterations
    BY <1>1, TypesNow DEF AskModel
  <2>3. State \in {"preparing", "observing"}
    BY <2>1, StateFacts DEF StatesAt
  <2>4. "thinking" \in RunState /\ "thinking" \in Allowed(State) /\ "thinking" \in StatesAt("model")
    BY <2>3 DEF RunState, Allowed, StatesAt
  <2>5. (\E result \in {"failed", "blocked"} : Stop(<<>>, result)) \/ Suspend(<<"thinking">>, "model")
    BY <1>1 DEF AskModel
  <2> QED
    BY <2>1, <2>2, <2>4, <2>5, StoppingSteps, Suspends DEF Calling
<1>2. CASE \E limited \in BOOLEAN, empty \in BOOLEAN : ModelAnswers(limited, empty)
  <2>1. point = "model" /\ UNCHANGED <<loopVars, textVars, askVars, ran>>
    BY <1>2 DEF ModelAnswers
  <2>2. State \in StatesAt("final") /\ "thinking" \in RunState
    BY <2>1, StateFacts DEF StatesAt, RunState
  <2>3. (\E result \in {"failed", "blocked"} : Stop(<<>>, result)) \/ Suspend(<<>>, "final")
    BY <1>2 DEF ModelAnswers
  <2> QED
    BY <2>1, <2>2, <2>3, TypesNow, StoppingSteps, Suspends DEF Calling, loopVars
<1>3. CASE ModelRaises
  BY <1>3, TypesNow, StoppingSteps DEF ModelRaises, loopVars
<1> QED
  BY <1>1, <1>2, <1>3

LEMMA EndSteps ==
  ASSUME RuntimeInv,
         Cancelled \/ HookRaises \/ Reported \/ \E needsApproval \in BOOLEAN : ToolPasses(needsApproval)
  PROVE  RuntimeInv'
<1>1. CASE Cancelled
  BY <1>1, TypesNow, Stopped DEF Cancelled, Over, loopVars
<1>2. CASE HookRaises \/ Reported
  BY <1>2, TypesNow, StoppingSteps DEF HookRaises, Reported, loopVars
<1>3. CASE \E needsApproval \in BOOLEAN : ToolPasses(needsApproval)
  <2>1. point = "tool" /\ UNCHANGED <<loopVars, textVars, askVars, ran>>
    BY <1>3 DEF ToolPasses
  <2>2. CASE Stop(<<>>, "raised")
    BY <2>1, <2>2, TypesNow, StoppingSteps DEF loopVars
  <2>3. CASE Through(<<"waiting_for_approval">>) /\ Over("raised")
    <3>1. State = "executing"
      BY <2>1, StateFacts DEF StatesAt
    <3>2. "waiting_for_approval" \in RunState /\ "waiting_for_approval" \in Allowed(State)
      BY <3>1 DEF RunState, Allowed
    <3>3. trail' \in Seq(RunState) /\ trail' # <<>> /\ LegalTransitions'
      BY <2>3, <3>2, GoesLawfully
    <3>4. State' \in StatesAt(point') /\ point' = "over" /\ UNCHANGED ending
      BY <2>3, <3>2, Goes DEF StatesAt, Over
    <3>5. \A q \in Requests : counts[q] <= counts[q]
      BY TypesNow
    <3> QED
      BY <2>1, <3>3, <3>4, <3>5, TypesNow, WindsUp DEF loopVars, askVars
  <2> QED
    BY <1>3, <2>2, <2>3 DEF ToolPasses
<1> QED
  BY <1>1, <1>2, <1>3

\* A call that comes to nothing is reported.
LEMMA Reports ==
  ASSUME RuntimeInv, NEW result \in {"failed", "blocked", "timed_out"}, Report(<<>>, result),
         State \in StatesAt("report"), point # "over",
         UNCHANGED <<loopVars, textVars, askVars, ran>>
  PROVE  RuntimeInv'
<1>1. Through(<<>>) /\ point' = "report" /\ ending' = result
  BY DEF Report
<1>2. PICK b \in RunState : TRUE
  BY DEF RunState
<1>3. trail' \in Seq(RunState) /\ trail' # <<>> /\ LegalTransitions' /\ State' = State
  BY <1>1, <1>2, GoesLawfully, Goes
<1>4. toolCalls <= MaxToolCalls /\ toolCalls \in Nat /\ \A q \in Requests : counts[q] <= counts[q]
  BY TypesNow DEF RuntimeInv, CallsCounted
<1> QED
  BY <1>1, <1>3, <1>4, TypesNow, WindsUp DEF loopVars, askVars

LEMMA FinalStep ==
  ASSUME RuntimeInv, NEW result \in {"completed", "failed", "blocked", "raised"}, NEW recorded \in BOOLEAN,
         Finalize(result, recorded)
  PROVE  RuntimeInv'
<1>1. point = "final" /\ UNCHANGED <<loopVars, textVars, askVars, ran>>
  BY DEF Finalize
<1>2. CASE Stop(<<>>, result)
  BY <1>1, <1>2, TypesNow, StoppingSteps DEF loopVars
<1>3. CASE Through(<<"completed">>) /\ \E said \in {"completed", "raised"} : Over(said)
  <2>1. State = "thinking"
    BY <1>1, StateFacts DEF StatesAt
  <2>2. "completed" \in RunState /\ "completed" \in Allowed(State)
    BY <2>1 DEF RunState, Allowed
  <2>3. trail' \in Seq(RunState) /\ trail' # <<>> /\ LegalTransitions'
    BY <1>3, <2>2, GoesLawfully
  <2>4. State' \in StatesAt(point') /\ point' = "over" /\ UNCHANGED ending
    BY <1>3, <2>2, Goes DEF StatesAt, Over
  <2>5. \A q \in Requests : counts[q] <= counts[q]
    BY TypesNow
  <2> QED
    BY <1>1, <2>3, <2>4, <2>5, TypesNow, WindsUp DEF loopVars, askVars
<1> QED
  BY <1>2, <1>3 DEF Finalize

LEMMA AnsweredStep ==
  ASSUME RuntimeInv, NEW permitted \in BOOLEAN, Answered(permitted)
  PROVE  RuntimeInv'
<1>1. point = "approval" /\ UNCHANGED <<loopVars, textVars, askVars, ran>>
  BY DEF Answered
<1>2. State = "authorizing" /\ "authorizing" \in RunState
  BY <1>1, StateFacts DEF StatesAt, RunState
<1>3. CASE GrantedByAnswer /\ Suspend(<<>>, "request")
  <2>1. CallInOrder'
    BY <1>1, <1>3 DEF Suspend, RuntimeInv, CallInOrder, GrantedByAnswer, TimesRun, Times, loopVars, askVars
  <2>2. State \in StatesAt("request")
    BY <1>2 DEF StatesAt
  <2> QED
    BY <1>1, <1>2, <1>3, <2>1, <2>2, TypesNow, Suspends DEF Calling, loopVars
<1>4. CASE Report(<<>>, "blocked")
  <2>1. State \in StatesAt("report")
    BY <1>2 DEF StatesAt
  <2> QED
    BY <1>1, <1>4, <2>1, Reports
<1> QED
  BY <1>3, <1>4 DEF Answered

LEMMA ToolSteps ==
  ASSUME RuntimeInv, ToolFinishes \/ \E result \in {"failed", "timed_out"} : ToolFails(result)
  PROVE  RuntimeInv'
<1>1. point = "tool" /\ UNCHANGED <<loopVars, textVars, askVars, ran>>
  BY DEF ToolFinishes, ToolFails
<1>2. State = "executing" /\ "executing" \in RunState
  BY <1>1, StateFacts DEF StatesAt, RunState
<1>3. State \in StatesAt("finished") /\ State \in StatesAt("report")
  BY <1>2 DEF StatesAt
<1>4. CASE ToolFinishes
  BY <1>1, <1>2, <1>3, <1>4, TypesNow, Suspends, ZenonT(30) DEF ToolFinishes, Calling, loopVars
<1>5. CASE \E result \in {"failed", "timed_out"} : ToolFails(result)
  BY <1>1, <1>3, <1>5, Reports DEF ToolFails
<1> QED
  BY <1>4, <1>5

LEMMA AskUserStep ==
  ASSUME RuntimeInv, NEW wellFormed \in BOOLEAN, NEW recorded \in BOOLEAN, AskUser(wellFormed, recorded)
  PROVE  RuntimeInv'
<1>1. point = "request" /\ UNCHANGED <<loopVars, textVars, askVars, ran>>
  BY DEF AskUser
<1>2. State = "authorizing"
  BY <1>1, StateFacts DEF StatesAt
<1>3. "waiting_for_input" \in RunState /\ "failed" \in RunState /\ "waiting_for_input" \in Allowed(State)
  BY <1>2 DEF RunState, Allowed
<1>4. CASE Stop(<<>>, "failed")
  BY <1>1, <1>4, TypesNow, StoppingSteps DEF loopVars
<1>5. CASE \/ Through(<<"waiting_for_input">>) /\ Over("waiting_input")
           \/ Through(<<"waiting_for_input", "failed">>) /\ Over("raised")
  <2>1. trail' \in Seq(RunState) /\ trail' # <<>> /\ LegalTransitions'
    BY <1>3, <1>5, GoesLawfully DEF Over
  <2>2. State' \in StatesAt(point') /\ point' = "over" /\ UNCHANGED ending
    BY <1>3, <1>5, Goes DEF StatesAt, Over
  <2>3. \A q \in Requests : counts[q] <= counts[q]
    BY TypesNow
  <2> QED
    BY <1>1, <2>1, <2>2, <2>3, TypesNow, WindsUp DEF loopVars, askVars
<1> QED
  BY <1>4, <1>5 DEF AskUser

\* The user answers, or time runs out.
LEMMA AnswerSteps ==
  ASSUME RuntimeInv, AnswerStep
  PROVE  RuntimeInv'
<1>1. /\ point = "approval" /\ asked' \in {"none", "open", "allow_once", "deny"} /\ expired' \in BOOLEAN
      /\ UNCHANGED <<trail, point, loopVars, textVars, ending, ran, outcome>>
  BY TypesNow DEF AnswerStep, Submit, DenyOpenRequest, Expire
<1>2. RuntimeTyped'
  BY <1>1 DEF RuntimeInv, RuntimeTyped, RuntimeTypeOK, loopVars, textVars
<1>3. State' \in StatesAt(point') /\ LegalTransitions' /\ RunsOnGrant' /\ CallsBounded'
  BY <1>1 DEF RuntimeInv, State, LegalTransitions, RunsOnGrant, CallsBounded
<1>4. CallInOrder' /\ CallsCounted'
  BY <1>1 DEF RuntimeInv, CallInOrder, CallsCounted, TimesRun, Times, loopVars
<1>5. ThreadInOrder'
  BY <1>1 DEF RuntimeInv, ThreadInOrder, Calling, Observed, Underway, loopVars, textVars
<1> QED
  BY <1>2, <1>3, <1>4, <1>5 DEF RuntimeInv

LEMMA RanGrows ==
  ASSUME NEW rows \in Seq(Execution), NEW row \in Execution, NEW q
  PROVE  /\ row.request = q => Times(Append(rows, row), q) = Times(rows, q) + 1
         /\ row.request # q => Times(Append(rows, row), q) = Times(rows, q)
<1>1. PICK more : more = Append(rows, row)
  OBVIOUS
<1>2. /\ Len(rows) \in Nat /\ DOMAIN rows = 1 .. Len(rows)
      /\ more \in Seq(Execution) /\ DOMAIN more = 1 .. (Len(rows) + 1)
      /\ (\A i \in 1 .. Len(rows) : more[i] = rows[i]) /\ more[Len(rows) + 1] = row
  BY <1>1, LenProperties, AppendProperties
<1>3. PICK old, now :
        old = {i \in DOMAIN rows : rows[i].request = q} /\ now = {i \in DOMAIN more : more[i].request = q}
  OBVIOUS
<1>4. IsFiniteSet(old) /\ Times(rows, q) = Cardinality(old) /\ Times(more, q) = Cardinality(now)
  BY <1>3, RanFinite DEF Times
<1>5. PICK last : last = Len(rows) + 1
  OBVIOUS
<1>6. last \notin old
  BY <1>2, <1>3, <1>5
<1>7. CASE row.request = q
  <2>1. now = old \cup {last}
    BY <1>2, <1>3, <1>5, <1>7
  <2>2. Cardinality(old \cup {last}) = Cardinality(old) + 1
    BY <1>4, <1>6, FS_AddElement
  <2> QED
    BY <1>1, <1>4, <1>7, <2>1, <2>2
<1>8. CASE row.request # q
  <2>1. now = old
    BY <1>2, <1>3, <1>5, <1>8
  <2> QED
    BY <1>1, <1>4, <1>8, <2>1
<1> QED
  BY <1>7, <1>8

LEMMA HeadOfCalls ==
  ASSUME RuntimeInv, calls # <<>>
  PROVE  /\ Head(calls) \in Requests
         /\ Head(calls).tool # "unknown" => Head(calls).tool \in Tools
         /\ Tail(calls) \in Seq(Requests) /\ Len(Tail(calls)) = Len(calls) - 1 /\ Len(calls) \in Nat \ {0}
<1>1. calls \in Seq(Requests)
  BY TypesNow
<1>2. Head(calls) \in Requests /\ Tail(calls) \in Seq(Requests) /\ Len(Tail(calls)) = Len(calls) - 1
  BY <1>1, HeadTailProperties
<1>3. Len(calls) \in Nat \ {0}
  BY <1>1, EmptySeq
<1> QED
  BY <1>2, <1>3 DEF Requests

LEMMA BeginStep ==
  ASSUME RuntimeInv, NEW limited \in BOOLEAN, BeginTool(limited)
  PROVE  RuntimeInv'
<1>1. point = "request" /\ UNCHANGED <<loopVars, textVars, askVars>> /\ CallInOrder
  BY DEF BeginTool, RuntimeInv
<1>2. CASE Stop(<<>>, "blocked") /\ UNCHANGED ran
  BY <1>1, <1>2, TypesNow, StoppingSteps DEF loopVars
<1>3. CASE /\ Suspend(<<"executing">>, "tool")
           /\ ran' = Append(ran, [request |-> Head(calls), grant |-> Grant(Head(calls).tool), expired |-> expired])
  <2>1. PICK q, row : q = Head(calls) /\ row = [request |-> q, grant |-> Grant(q.tool), expired |-> expired]
    OBVIOUS
  <2>2. /\ calls # <<>> /\ q \in Requests /\ q.tool \in Tools
        /\ Rule[q.tool] = "allow" \/ (Rule[q.tool] = "require_approval" /\ GrantedByAnswer)
        /\ Len(ran) + 1 <= toolCalls /\ TimesRun(q) + 1 <= counts[q] /\ counts[q] < RepeatLimit
    BY <1>1, <2>1, HeadOfCalls DEF CallInOrder
  <2>3. /\ row \in Execution /\ row.request = q
        /\ Rule[q.tool] = "require_approval" => row.grant = "allow_once" /\ ~row.expired
    BY <2>1, <2>2, TypesNow DEF Execution, Grant, GrantedByAnswer
  <2>4. /\ ran \in Seq(Execution) /\ Len(ran) \in Nat /\ DOMAIN ran = 1 .. Len(ran)
        /\ ran' = Append(ran, row)
    BY <1>3, <2>1, LenProperties DEF RuntimeInv, RuntimeTyped
  <2>5. /\ ran' \in Seq(Execution) /\ Len(ran') = Len(ran) + 1 /\ DOMAIN ran' = 1 .. (Len(ran) + 1)
        /\ (\A i \in 1 .. Len(ran) : ran'[i] = ran[i]) /\ ran'[Len(ran) + 1] = row
    BY <2>3, <2>4, LenProperties, AppendProperties
  <2>6. TimesRun(q)' = TimesRun(q) + 1 /\ \A p \in Requests : p # q => TimesRun(p)' = TimesRun(p)
    <3>1. ASSUME NEW p \in Requests
          PROVE  (p = q => TimesRun(p)' = TimesRun(p) + 1) /\ (p # q => TimesRun(p)' = TimesRun(p))
      <4>1. TimesRun(p) = Times(ran, p) /\ TimesRun(p)' = Times(Append(ran, row), p)
        BY <2>4 DEF TimesRun, Times
      <4> QED
        BY <2>3, <2>4, <4>1, RanGrows
    <3> QED
      BY <2>2, <3>1
  <2>7. trail' \in Seq(RunState) /\ trail' # <<>> /\ LegalTransitions' /\ State' \in StatesAt("tool") /\ point' = "tool"
    <3>1. State = "authorizing" /\ "executing" \in RunState
      BY <1>1, StateFacts DEF StatesAt, RunState
    <3>2. "executing" \in Allowed(State)
      BY <3>1 DEF Allowed
    <3>3. Through(<<"executing">>) /\ point' = "tool"
      BY <1>3 DEF Suspend
    <3> QED
      BY <3>1, <3>2, <3>3, Goes, GoesLawfully DEF StatesAt
  <2>8. RuntimeTyped'
    BY <1>1, <1>3, <2>5, <2>7 DEF RuntimeInv, RuntimeTyped, RuntimeTypeOK, loopVars, textVars, askVars, Suspend
  <2>9. RunsOnGrant'
    <3>1. \A i \in 1 .. Len(ran) :
            \/ Rule[ran[i].request.tool] = "allow"
            \/ Rule[ran[i].request.tool] = "require_approval" /\ ran[i].grant = "allow_once" /\ ~ran[i].expired
      BY <2>4 DEF RuntimeInv, RunsOnGrant
    <3>2. \A i \in DOMAIN ran' :
            \/ Rule[ran'[i].request.tool] = "allow"
            \/ Rule[ran'[i].request.tool] = "require_approval" /\ ran'[i].grant = "allow_once" /\ ~ran'[i].expired
      <4> SUFFICES ASSUME NEW i \in DOMAIN ran'
                   PROVE  \/ Rule[ran'[i].request.tool] = "allow"
                          \/ /\ Rule[ran'[i].request.tool] = "require_approval"
                             /\ ran'[i].grant = "allow_once" /\ ~ran'[i].expired
        OBVIOUS
      <4>1. i \in 1 .. Len(ran) \/ i = Len(ran) + 1
        BY <2>4, <2>5
      <4> QED
        BY <2>2, <2>3, <2>5, <3>1, <4>1
    <3> QED
      BY <3>2 DEF RunsOnGrant
  <2>10. toolCalls \in Nat /\ toolCalls <= MaxToolCalls /\ MaxToolCalls \in Nat
    BY <1>1, TypesNow DEF RuntimeInv, CallsCounted
  <2>11. \A p \in Requests : TimesRun(p)' <= counts[p] /\ TimesRun(p)' < RepeatLimit
    <3> TAKE p \in Requests
    <3>1. TimesRun(p) \in Nat /\ counts[p] \in Nat /\ RepeatLimit \in Nat
      BY TimesRunIsNat, TypesNow, RuntimeAssumption
    <3>2. CASE p = q
      BY <2>2, <2>6, <3>1, <3>2
    <3>3. CASE p # q
      BY <2>6, <3>1, <3>3 DEF RuntimeInv, CallsCounted, CallsBounded, TimesRun, Times
    <3> QED
      BY <3>2, <3>3
  <2>12. CallsBounded'
    <3>1. Len(ran') <= MaxToolCalls
      BY <2>2, <2>4, <2>5, <2>10
    <3>2. \A p \in Requests : TimesRun(p)' < RepeatLimit
      BY <2>11
    <3> QED
      BY <3>1, <3>2 DEF CallsBounded, TimesRun, Times
  <2>13. CallsCounted'
    BY <1>1, <2>2, <2>5, <2>7, <2>10, <2>11 DEF CallsCounted, loopVars
  <2>14. ThreadInOrder'
    BY <1>1, <2>7 DEF RuntimeInv, ThreadInOrder, Calling, Observed, Underway, loopVars, textVars
  <2> QED
    BY <2>7, <2>8, <2>9, <2>12, <2>13, <2>14 DEF RuntimeInv
<1> QED
  BY <1>2, <1>3 DEF BeginTool

\* The model's answer begins an exchange, and every observation carries it on.
LEMMA ThreadGrows ==
  ASSUME NEW said \in Seq(ThreadRow), NEW message \in ThreadRow, NEW more, more = Append(said, message)
  PROVE  /\ Len(said) \in Nat /\ more \in Seq(ThreadRow) /\ Len(more) = Len(said) + 1
         /\ (\A i \in 1 .. Len(said) : more[i] = said[i]) /\ more[Len(said) + 1] = message
         /\ DOMAIN said = 1 .. Len(said) /\ DOMAIN more = 1 .. Len(more)
         /\ \A i \in 1 .. Len(said) : said[i] \in ThreadRow
<1>1. \A i \in 1 .. Len(said) : said[i] \in ThreadRow
  BY ElementOfSeq
<1> QED
  BY <1>1, LenProperties, AppendProperties

LEMMA CallsStep ==
  ASSUME RuntimeInv, NEW n \in 1 .. MaxCallsPerTurn, NEW requests \in [1 .. n -> Requests], ModelCalls(requests)
  PROVE  RuntimeInv'
<1>1. /\ point = "model" /\ Suspend(<<>>, "call") /\ calls' = requests
      /\ UNCHANGED <<iteration, toolCalls, counts, saved, askVars, ran>>
  BY DEF ModelCalls
<1>2. n \in Nat \ {0} /\ requests \in Seq(Requests) /\ Len(requests) = n /\ requests # <<>>
  BY RuntimeAssumption
<1>3. PICK message : message = [role |-> "assistant", calls |-> n]
  OBVIOUS
<1>4. message \in ThreadRow /\ message.role = "assistant" /\ message.calls = n
  BY <1>2, <1>3 DEF ThreadRow
<1>5. thread' = Append(thread, message) /\ thread \in Seq(ThreadRow) /\ Observed(thread) /\ Observed(saved)
  BY <1>1, <1>2, <1>3 DEF ModelCalls, RuntimeInv, RuntimeTyped, ThreadInOrder
<1>6. PICK first : first = Len(thread) + 1
  OBVIOUS
<1>7. /\ Len(thread) \in Nat /\ thread' \in Seq(ThreadRow) /\ Len(thread') = first /\ first \in 1 .. Len(thread')
      /\ (\A i \in 1 .. first - 1 : thread'[i] = thread[i]) /\ thread'[first] = message
      /\ DOMAIN thread = 1 .. first - 1 /\ \A i \in 1 .. first - 1 : thread[i] \in ThreadRow
  BY <1>4, <1>5, <1>6, ThreadGrows
<1>8. Underway(thread', first, n)
  <2>1. \A i \in 1 .. first - 1 : thread[i].role = "assistant" =>
          i + thread[i].calls < first /\ \A j \in i + 1 .. i + thread[i].calls : thread[j].role = "tool"
    <3> SUFFICES ASSUME NEW i \in 1 .. first - 1, thread[i].role = "assistant"
                 PROVE  i + thread[i].calls < first /\ \A j \in i + 1 .. i + thread[i].calls : thread[j].role = "tool"
      OBVIOUS
    <3>1. thread[i].calls \in Nat
      BY <1>7 DEF ThreadRow
    <3>2. i + thread[i].calls <= Len(thread) /\ \A j \in i + 1 .. i + thread[i].calls : thread[j].role = "tool"
      BY <1>5, <1>7 DEF Observed
    <3> QED
      BY <1>6, <1>7, <3>1, <3>2
  <2>2. \A i \in 1 .. first - 1 : thread'[i].role = "assistant" =>
          i + thread'[i].calls < first /\ \A j \in i + 1 .. i + thread'[i].calls : thread'[j].role = "tool"
    <3> SUFFICES ASSUME NEW i \in 1 .. first - 1, thread'[i].role = "assistant"
                 PROVE  i + thread'[i].calls < first /\ \A j \in i + 1 .. i + thread'[i].calls : thread'[j].role = "tool"
      OBVIOUS
    <3>1. thread'[i] = thread[i] /\ thread[i].calls \in Nat
      BY <1>7 DEF ThreadRow
    <3>2. i + thread[i].calls < first /\ \A j \in i + 1 .. i + thread[i].calls : thread[j].role = "tool"
      BY <2>1, <3>1
    <3>3. \A j \in i + 1 .. i + thread[i].calls : thread'[j] = thread[j]
      BY <1>7, <3>1, <3>2
    <3> QED
      BY <3>1, <3>2, <3>3
  <2>3. \A j \in first + 1 .. Len(thread') : thread'[j].role = "tool"
    BY <1>6, <1>7
  <2>4. thread'[first].role = "assistant" /\ thread'[first].calls = (Len(thread') - first) + n
    BY <1>2, <1>4, <1>6, <1>7
  <2> QED
    BY <2>2, <2>3, <2>4 DEF Underway
<1>9. trail' \in Seq(RunState) /\ trail' # <<>> /\ LegalTransitions' /\ State' \in StatesAt("call") /\ point' = "call"
  <2>1. PICK b \in RunState : TRUE
    BY DEF RunState
  <2>2. State = "thinking"
    BY <1>1, StateFacts DEF StatesAt
  <2>3. Through(<<>>) /\ point' = "call"
    BY <1>1 DEF Suspend
  <2> QED
    BY <2>1, <2>2, <2>3, GoesLawfully, Goes DEF StatesAt
<1>10. RuntimeTyped'
  BY <1>1, <1>2, <1>7, <1>9 DEF RuntimeInv, RuntimeTyped, RuntimeTypeOK, askVars, Suspend
<1>11. RunsOnGrant' /\ CallsBounded' /\ CallsCounted'
  BY <1>1, <1>9 DEF RuntimeInv, RunsOnGrant, CallsBounded, CallsCounted, TimesRun, Times
<1>12. ThreadInOrder'
  <2>1. Observed(saved)' /\ calls' # <<>> /\ Len(calls') = n /\ point' \notin {"start", "turn", "model", "final"}
    BY <1>1, <1>2, <1>5, <1>9 DEF Observed
  <2>2. \E f \in 1 .. Len(thread') : Underway(thread', f, Len(calls'))
    BY <1>7, <1>8, <2>1
  <2> QED
    BY <2>1, <2>2 DEF ThreadInOrder, Underway
<1> QED
  BY <1>9, <1>10, <1>11, <1>12 DEF RuntimeInv

\* Exchanges that are whole make a conversation that is.
LEMMA ObservedTogether ==
  ASSUME NEW s \in Seq(ThreadRow), NEW t \in Seq(ThreadRow), Observed(s), Observed(t)
  PROVE  s \o t \in Seq(ThreadRow) /\ Observed(s \o t)
<1>1. PICK both : both = s \o t
  OBVIOUS
<1>2. PICK m : m = Len(s)
  OBVIOUS
<1>3. PICK n : n = Len(t)
  OBVIOUS
<1>4. /\ both \in Seq(ThreadRow) /\ m \in Nat /\ n \in Nat /\ Len(both) = m + n /\ DOMAIN both = 1 .. m + n
      /\ DOMAIN s = 1 .. m /\ DOMAIN t = 1 .. n
  BY <1>1, <1>2, <1>3, ConcatProperties, LenProperties
<1>5. /\ \A i \in 1 .. m : both[i] = s[i] /\ s[i] \in ThreadRow
      /\ \A i \in 1 .. n : both[m + i] = t[i] /\ t[i] \in ThreadRow
  <2>1. \A i \in 1 .. m + n : both[i] = IF i <= m THEN s[i] ELSE t[i - m]
    BY <1>1, <1>2, <1>3, ConcatProperties
  <2>2. \A i \in 1 .. m : both[i] = s[i]
    BY <1>4, <2>1
  <2>3. \A i \in 1 .. n : m + i \in 1 .. m + n /\ ~(m + i <= m) /\ (m + i) - m = i
    BY <1>4
  <2>4. \A i \in 1 .. n : both[m + i] = t[i]
    BY <2>1, <2>3
  <2>5. (\A i \in 1 .. m : s[i] \in ThreadRow) /\ (\A i \in 1 .. n : t[i] \in ThreadRow)
    BY <1>2, <1>3, ElementOfSeq
  <2> QED
    BY <2>2, <2>4, <2>5
<1>6. ASSUME NEW i \in 1 .. m, s[i].role = "assistant", NEW k, k = s[i].calls
      PROVE  i + k <= m + n /\ \A j \in i + 1 .. i + k : both[j].role = "tool"
  <2>1. k \in Nat
    BY <1>5, <1>6 DEF ThreadRow
  <2>2. i + k <= m /\ \A j \in i + 1 .. i + k : s[j].role = "tool"
    BY <1>2, <1>4, <1>6 DEF Observed
  <2>3. \A j \in i + 1 .. i + k : j \in 1 .. m
    BY <1>4, <2>1, <2>2
  <2>4. \A j \in i + 1 .. i + k : both[j].role = "tool"
    BY <1>5, <2>2, <2>3
  <2> QED
    BY <1>4, <2>1, <2>2, <2>4
<1>7. ASSUME NEW i \in 1 .. n, t[i].role = "assistant", NEW k, k = t[i].calls
      PROVE  m + i + k <= m + n /\ \A j \in m + i + 1 .. m + i + k : both[j].role = "tool"
  <2>1. k \in Nat
    BY <1>5, <1>7 DEF ThreadRow
  <2>2. i + k <= n /\ \A j \in i + 1 .. i + k : t[j].role = "tool"
    BY <1>3, <1>4, <1>7 DEF Observed
  <2>3. ASSUME NEW j \in m + i + 1 .. m + i + k PROVE both[j].role = "tool"
    <3>1. PICK l : l = j - m
      OBVIOUS
    <3>2. l \in i + 1 .. i + k /\ l \in 1 .. n /\ j = m + l
      BY <1>4, <2>1, <2>2, <3>1
    <3> QED
      BY <1>5, <2>2, <3>2
  <2> QED
    BY <1>4, <2>1, <2>2, <2>3
<1>8. ASSUME NEW i \in 1 .. m + n, both[i].role = "assistant"
      PROVE  i + both[i].calls <= m + n /\ \A j \in i + 1 .. i + both[i].calls : both[j].role = "tool"
  <2>1. CASE i \in 1 .. m
    BY <1>5, <1>6, <1>8, <2>1
  <2>2. CASE i \notin 1 .. m
    <3>1. PICK l : l = i - m
      OBVIOUS
    <3>2. l \in 1 .. n /\ i = m + l
      BY <1>4, <2>2, <3>1
    <3>3. both[i] = t[l]
      BY <1>5, <3>2
    <3> QED
      BY <1>7, <1>8, <3>2, <3>3
  <2> QED
    BY <2>1, <2>2
<1> QED
  BY <1>1, <1>4, <1>8 DEF Observed

\* What follows the last answer of the model is one exchange.
LEMMA LastExchange ==
  ASSUME NEW said \in Seq(ThreadRow), NEW first \in 1 .. Len(said), Underway(said, first, 0),
         NEW from, from = CHOOSE i \in DOMAIN said :
                      said[i].role = "assistant" /\ \A j \in i + 1 .. Len(said) : said[j].role = "tool"
  PROVE  /\ Observed(said)
         /\ SubSeq(said, from, Len(said)) \in Seq(ThreadRow) /\ Observed(SubSeq(said, from, Len(said)))
<1>1. Len(said) \in Nat /\ DOMAIN said = 1 .. Len(said) /\ \A i \in 1 .. Len(said) : said[i] \in ThreadRow
  <2>1. \A i \in 1 .. Len(said) : said[i] \in ThreadRow
    BY ElementOfSeq
  <2> QED
    BY <2>1, LenProperties
<1>2. /\ said[first].role = "assistant" /\ said[first].calls = Len(said) - first
      /\ \A j \in first + 1 .. Len(said) : said[j].role = "tool"
      /\ \A i \in 1 .. first - 1 : said[i].role = "assistant" =>
           i + said[i].calls < first /\ \A j \in i + 1 .. i + said[i].calls : said[j].role = "tool"
  BY <1>1 DEF Underway
<1>3. Observed(said)
  <2> SUFFICES ASSUME NEW i \in 1 .. Len(said), said[i].role = "assistant"
               PROVE  i + said[i].calls <= Len(said) /\ \A j \in i + 1 .. i + said[i].calls : said[j].role = "tool"
    BY <1>1 DEF Observed
  <2>1. CASE i \in 1 .. first - 1
    <3>1. i + said[i].calls < first /\ \A j \in i + 1 .. i + said[i].calls : said[j].role = "tool"
      BY <1>2, <2>1
    <3>2. said[i].calls \in Nat
      BY <1>1 DEF ThreadRow
    <3> QED
      BY <1>1, <3>1, <3>2
  <2>2. CASE i = first
    BY <1>1, <1>2, <2>2
  <2>3. CASE i \in first + 1 .. Len(said)
    BY <1>2, <2>3
  <2> QED
    BY <1>1, <2>1, <2>2, <2>3
<1>4. from = first
  <2>1. \E i \in DOMAIN said : said[i].role = "assistant" /\ \A j \in i + 1 .. Len(said) : said[j].role = "tool"
    BY <1>1, <1>2
  <2>2. /\ from \in 1 .. Len(said) /\ said[from].role = "assistant"
        /\ \A j \in from + 1 .. Len(said) : said[j].role = "tool"
    BY <1>1, <2>1
  <2>3. ~(from < first)
    <3> SUFFICES ASSUME from < first PROVE FALSE
      OBVIOUS
    <3>1. first \in from + 1 .. Len(said)
      BY <1>1, <2>2
    <3> QED
      BY <1>2, <2>2, <3>1
  <2>4. ~(from > first)
    <3> SUFFICES ASSUME from > first PROVE FALSE
      OBVIOUS
    <3>1. from \in first + 1 .. Len(said)
      BY <1>1, <2>2
    <3> QED
      BY <1>2, <2>2, <3>1
  <2> QED
    BY <1>1, <2>2, <2>3, <2>4
<1>5. PICK last : last = SubSeq(said, first, Len(said))
  OBVIOUS
<1>6. PICK n : n = Len(said) - first
  OBVIOUS
<1>7. n \in Nat
  BY <1>1, <1>6
<1>8. /\ last \in Seq(ThreadRow) /\ Len(last) = n + 1 /\ DOMAIN last = 1 .. n + 1
      /\ \A i \in 1 .. n + 1 : last[i] = said[first + i - 1]
  <2>1. first \in Int /\ Len(said) \in Int /\ first <= Len(said) /\ Len(said) - first + 1 = n + 1
    BY <1>1, <1>6
  <2>2. \A i \in first .. Len(said) : said[i] \in ThreadRow
    BY <1>1
  <2>3. /\ last \in Seq(ThreadRow) /\ Len(last) = Len(said) - first + 1
        /\ \A i \in 1 .. Len(said) - first + 1 : last[i] = said[first + i - 1]
    BY <1>5, <2>1, <2>2, SubSeqProperties
  <2> QED
    BY <2>1, <2>3, LenProperties
<1>9. last[1].role = "assistant" /\ last[1].calls = n
  <2>1. 1 \in 1 .. n + 1 /\ first + 1 - 1 = first
    BY <1>7
  <2> QED
    BY <1>2, <1>6, <1>8, <2>1
<1>10. \A i \in 2 .. n + 1 : last[i].role = "tool"
  <2> SUFFICES ASSUME NEW i \in 2 .. n + 1 PROVE last[i].role = "tool"
    OBVIOUS
  <2>1. i \in 1 .. n + 1 /\ first + i - 1 \in first + 1 .. Len(said)
    BY <1>1, <1>6, <1>7
  <2> QED
    BY <1>2, <1>8, <2>1
<1>11. Observed(last)
  <2> SUFFICES ASSUME NEW i \in 1 .. n + 1, last[i].role = "assistant"
               PROVE  i + last[i].calls <= n + 1 /\ \A j \in i + 1 .. i + last[i].calls : last[j].role = "tool"
    BY <1>8 DEF Observed
  <2>1. i = 1
    BY <1>7, <1>10
  <2> QED
    BY <1>7, <1>9, <1>10, <2>1
<1> QED
  BY <1>3, <1>4, <1>5, <1>8, <1>11

\* An observation leaves one call fewer; the last one completes the exchange.
LEMMA UnderwayFewer ==
  ASSUME NEW said \in Seq(ThreadRow), NEW first \in 1 .. Len(said), NEW left \in Nat, Underway(said, first, left + 1),
         NEW more, more = Append(said, [role |-> "tool", calls |-> 0])
  PROVE  first \in 1 .. Len(more) /\ Underway(more, first, left)
<1>1. PICK message : message = [role |-> "tool", calls |-> 0]
  OBVIOUS
<1>2. message \in ThreadRow /\ message.role = "tool"
  BY <1>1 DEF ThreadRow
<1>3. more = Append(said, message)
  BY <1>1
<1>4. /\ Len(said) \in Nat /\ Len(more) = Len(said) + 1
      /\ (\A i \in 1 .. Len(said) : more[i] = said[i]) /\ more[Len(said) + 1] = message
      /\ \A i \in 1 .. Len(said) : said[i] \in ThreadRow
  BY <1>2, <1>3, ThreadGrows
<1>5. PICK n : n = Len(said)
  OBVIOUS
<1>6. /\ said[first].role = "assistant" /\ said[first].calls = (n - first) + (left + 1)
      /\ \A j \in first + 1 .. n : said[j].role = "tool"
      /\ \A i \in 1 .. first - 1 : said[i].role = "assistant" =>
           i + said[i].calls < first /\ \A j \in i + 1 .. i + said[i].calls : said[j].role = "tool"
  BY <1>5 DEF Underway
<1>7. n \in Nat /\ first \in 1 .. n /\ first \in 1 .. Len(more) /\ more[first] = said[first]
  BY <1>4, <1>5
<1>8. more[first].role = "assistant" /\ more[first].calls = (Len(more) - first) + left
  BY <1>4, <1>5, <1>6, <1>7
<1>9. \A j \in first + 1 .. Len(more) : more[j].role = "tool"
  <2> TAKE j \in first + 1 .. Len(more)
  <2>1. CASE j \in first + 1 .. n
    BY <1>4, <1>5, <1>6, <1>7, <2>1
  <2>2. CASE j = n + 1
    BY <1>2, <1>4, <1>5, <2>2
  <2> QED
    BY <1>4, <1>5, <1>7, <2>1, <2>2
<1>10. \A i \in 1 .. first - 1 : more[i].role = "assistant" =>
         i + more[i].calls < first /\ \A j \in i + 1 .. i + more[i].calls : more[j].role = "tool"
  <2> SUFFICES ASSUME NEW i \in 1 .. first - 1, more[i].role = "assistant"
               PROVE  i + more[i].calls < first /\ \A j \in i + 1 .. i + more[i].calls : more[j].role = "tool"
    OBVIOUS
  <2>1. more[i] = said[i] /\ said[i].calls \in Nat
    BY <1>4, <1>5, <1>7 DEF ThreadRow
  <2>2. i + said[i].calls < first /\ \A j \in i + 1 .. i + said[i].calls : said[j].role = "tool"
    BY <1>6, <2>1
  <2>3. \A j \in i + 1 .. i + said[i].calls : more[j] = said[j]
    BY <1>4, <1>5, <1>7, <2>1, <2>2
  <2> QED
    BY <2>1, <2>2, <2>3
<1> QED
  BY <1>7, <1>8, <1>9, <1>10 DEF Underway

LEMMA ObserveStep ==
  ASSUME RuntimeInv, Observe
  PROVE  RuntimeInv'
<1>1. PICK more : more = Append(thread, [role |-> "tool", calls |-> 0])
  OBVIOUS
<1>2. PICK rest : rest = Tail(calls)
  OBVIOUS
<1>3. PICK where : where = IF Len(calls) > 1 THEN "call" ELSE "turn"
  OBVIOUS
<1>4. /\ point = "finished" /\ Suspend(<<"observing">>, where) /\ calls' = rest /\ thread' = more
      /\ saved' = Exchange(rest, more) /\ UNCHANGED <<iteration, toolCalls, counts, askVars, ran>>
  BY <1>1, <1>2, <1>3 DEF Observe
<1>5. calls # <<>> /\ thread \in Seq(ThreadRow) /\ saved \in Seq(ThreadRow) /\ Observed(saved)
  <2>1. point \in Calling
    BY <1>4 DEF Calling
  <2> QED
    BY <2>1 DEF RuntimeInv, RuntimeTyped, ThreadInOrder
<1>6. PICK first \in 1 .. Len(thread) : Underway(thread, first, Len(calls))
  BY <1>4 DEF RuntimeInv, ThreadInOrder, Calling
<1>7. rest \in Seq(Requests) /\ Len(rest) = Len(calls) - 1 /\ Len(calls) \in Nat \ {0}
  BY <1>2, <1>5, HeadOfCalls
<1>8. PICK left : left = Len(rest)
  OBVIOUS
<1>9. left \in Nat /\ Len(calls) = left + 1 /\ (rest = <<>> <=> left = 0)
  <2>1. rest = <<>> <=> Len(rest) = 0
    BY <1>7, EmptySeq
  <2> QED
    BY <1>7, <1>8, <2>1
<1>10. more \in Seq(ThreadRow) /\ first \in 1 .. Len(more) /\ Underway(more, first, left)
  <2>1. Underway(thread, first, left + 1)
    BY <1>6, <1>9
  <2>2. [role |-> "tool", calls |-> 0] \in ThreadRow
    BY DEF ThreadRow
  <2> QED
    BY <1>1, <1>5, <1>9, <2>1, <2>2, ThreadGrows, UnderwayFewer
<1>11. saved' \in Seq(ThreadRow) /\ Observed(saved') /\ (rest = <<>> => Observed(more))
  <2>1. CASE rest # <<>>
    BY <1>4, <1>5, <2>1 DEF Exchange
  <2>2. CASE rest = <<>>
    <3>1. PICK from : from = CHOOSE i \in DOMAIN more :
                      more[i].role = "assistant" /\ \A j \in i + 1 .. Len(more) : more[j].role = "tool"
      OBVIOUS
    <3>2. PICK last : last = SubSeq(more, from, Len(more))
      OBVIOUS
    <3>3. Underway(more, first, 0)
      BY <1>9, <1>10, <2>2
    <3>4. Observed(more) /\ last \in Seq(ThreadRow) /\ Observed(last)
      BY <1>10, <3>1, <3>2, <3>3, LastExchange
    <3>5. saved' = saved \o last
      BY <1>4, <2>2, <3>1, <3>2 DEF Exchange
    <3> QED
      BY <1>5, <3>4, <3>5, ObservedTogether
  <2> QED
    BY <2>1, <2>2
<1>12. trail' \in Seq(RunState) /\ trail' # <<>> /\ LegalTransitions' /\ State' \in StatesAt(where) /\ point' = where
  <2>1. State = "executing" /\ "observing" \in RunState
    BY <1>4, StateFacts DEF StatesAt, RunState
  <2>2. "observing" \in Allowed(State)
    BY <2>1 DEF Allowed
  <2>3. Through(<<"observing">>) /\ point' = where
    BY <1>4 DEF Suspend
  <2>4. trail' \in Seq(RunState) /\ trail' # <<>> /\ LegalTransitions' /\ State' = "observing"
    BY <2>1, <2>2, <2>3, Goes, GoesLawfully
  <2> QED
    BY <1>3, <2>3, <2>4 DEF StatesAt
<1>13. where \in {"call", "turn"} /\ (where = "turn" <=> rest = <<>>)
  BY <1>3, <1>9
<1>14. RuntimeTyped'
  BY <1>4, <1>7, <1>10, <1>11, <1>12, <1>13 DEF RuntimeInv, RuntimeTyped, RuntimeTypeOK, askVars, Suspend
<1>15. RunsOnGrant' /\ CallsBounded' /\ CallsCounted'
  BY <1>4, <1>12, <1>13 DEF RuntimeInv, RunsOnGrant, CallsBounded, CallsCounted, TimesRun, Times
<1>16. ThreadInOrder'
  <2>1. Observed(saved)' /\ (point' = "turn" => Observed(thread)')
    BY <1>4, <1>11, <1>12, <1>13 DEF Observed
  <2>2. point' = "call" => calls' # <<>> /\ \E f \in 1 .. Len(thread') : Underway(thread', f, Len(calls'))
    BY <1>4, <1>8, <1>10, <1>12, <1>13
  <2>3. point' \in {"call", "turn"} /\ (point' = "turn" => calls' = <<>>)
    BY <1>4, <1>12, <1>13
  <2> QED
    BY <2>1, <2>2, <2>3 DEF ThreadInOrder, Calling, Underway
<1> QED
  BY <1>12, <1>13, <1>14, <1>15, <1>16 DEF RuntimeInv

\* What a call is refused or asked for.
LEMMA Considered ==
  ASSUME RuntimeInv, NEW limited \in BOOLEAN, NEW permitted \in BOOLEAN, Consider(limited, permitted),
         NEW q, q = Head(calls)
  PROVE  /\ point = "call" /\ toolCalls' = toolCalls + 1 /\ UNCHANGED <<iteration, calls, textVars, ran>>
         /\ \/ Stop(<<"action_requested">>, "blocked") /\ counts' = counts /\ UNCHANGED askVars
            \/ /\ toolCalls + 1 <= MaxToolCalls /\ counts' = [counts EXCEPT ![q] = counts[q] + 1]
               /\ \/ /\ \E result \in {"failed", "blocked"} : Report(<<"action_requested">>, result)
                                                           \/ Report(<<"action_requested", "authorizing">>, result)
                     /\ UNCHANGED askVars
                  \/ /\ counts[q] + 1 < RepeatLimit /\ q.tool # "unknown"
                     /\ \/ /\ Rule[q.tool] = "require_approval" /\ asked' = "open" /\ expired' = FALSE
                           /\ Suspend(<<"action_requested", "authorizing">>, "approval")
                        \/ /\ Rule[q.tool] = "allow" /\ UNCHANGED askVars
                           /\ Suspend(<<"action_requested", "authorizing">>, "request")
<1>1. /\ point = "call" /\ toolCalls' = toolCalls + 1 /\ UNCHANGED <<iteration, calls, textVars, ran>>
      /\ point' # "approval" => UNCHANGED askVars
      /\ point' = "approval" => asked' = "open" /\ expired' = FALSE
  BY DEF Consider
<1>2. PICK stopped \in BOOLEAN : stopped = (limited \/ ~WithinCalls(toolCalls + 1))
  OBVIOUS
<1>3. CASE stopped
  <2>1. Stop(<<"action_requested">>, "blocked") /\ counts' = counts
    BY <1>2, <1>3 DEF Consider
  <2>2. point' = "over"
    BY <2>1 DEF Stop, Over
  <2> QED
    BY <1>1, <2>1, <2>2
<1>4. CASE ~stopped
  <2>1. toolCalls + 1 <= MaxToolCalls /\ counts' = [counts EXCEPT ![q] = counts[q] + 1]
    BY <1>2, <1>4 DEF Consider, WithinCalls
  <2>2. \/ \E result \in {"failed", "blocked"} : Report(<<"action_requested">>, result)
                                             \/ Report(<<"action_requested", "authorizing">>, result)
        \/ /\ ~(counts[q] + 1 >= RepeatLimit) /\ q.tool # "unknown"
           /\ \/ /\ Rule[q.tool] = "require_approval"
                 /\ Suspend(<<"action_requested", "authorizing">>, "approval")
              \/ Rule[q.tool] = "allow" /\ Suspend(<<"action_requested", "authorizing">>, "request")
    BY <1>2, <1>4 DEF Consider
  <2>3. CASE \E result \in {"failed", "blocked"} : Report(<<"action_requested">>, result)
                                             \/ Report(<<"action_requested", "authorizing">>, result)
    <3>1. point' = "report"
      BY <2>3 DEF Report
    <3> QED
      BY <1>1, <2>1, <2>3, <3>1
  <2>4. CASE /\ ~(counts[q] + 1 >= RepeatLimit) /\ q.tool # "unknown" /\ Rule[q.tool] = "require_approval"
             /\ Suspend(<<"action_requested", "authorizing">>, "approval")
    <3>1. point' = "approval"
      BY <2>4 DEF Suspend
    <3>2. counts[q] + 1 < RepeatLimit
      <4>1. q \in Requests
        BY <1>1, HeadOfCalls DEF RuntimeInv, ThreadInOrder, Calling
      <4> QED
        BY <2>4, <4>1, TypesNow, RuntimeAssumption
    <3> QED
      BY <1>1, <2>1, <2>4, <3>1, <3>2
  <2>5. CASE /\ ~(counts[q] + 1 >= RepeatLimit) /\ q.tool # "unknown" /\ Rule[q.tool] = "allow"
             /\ Suspend(<<"action_requested", "authorizing">>, "request")
    <3>1. point' = "request"
      BY <2>5 DEF Suspend
    <3>2. counts[q] + 1 < RepeatLimit
      <4>1. q \in Requests
        BY <1>1, HeadOfCalls DEF RuntimeInv, ThreadInOrder, Calling
      <4> QED
        BY <2>5, <4>1, TypesNow, RuntimeAssumption
    <3> QED
      BY <1>1, <2>1, <2>5, <3>1, <3>2
  <2> QED
    BY <2>2, <2>3, <2>4, <2>5
<1> QED
  BY <1>2, <1>3, <1>4

LEMMA ConsiderStep ==
  ASSUME RuntimeInv, NEW limited \in BOOLEAN, NEW permitted \in BOOLEAN, Consider(limited, permitted)
  PROVE  RuntimeInv'
<1>1. PICK q : q = Head(calls)
  OBVIOUS
<1>2. /\ point = "call" /\ toolCalls' = toolCalls + 1 /\ UNCHANGED <<iteration, calls, textVars, ran>>
  BY <1>1, Considered
<1>3. calls # <<>> /\ q \in Requests /\ (q.tool # "unknown" => q.tool \in Tools)
  BY <1>1, <1>2, HeadOfCalls DEF RuntimeInv, ThreadInOrder, Calling
<1>4. PICK asking, checking : asking = "action_requested" /\ checking = "authorizing"
  OBVIOUS
<1>5. /\ asking \in RunState /\ checking \in RunState /\ "failed" \in RunState
      /\ asking \in Allowed(State) /\ checking \in Allowed(asking) /\ "failed" \in Allowed(asking)
  <2>1. State \in {"thinking", "observing"}
    BY <1>2, StateFacts DEF StatesAt
  <2> QED
    BY <1>4, <2>1 DEF RunState, Allowed
<1>6. /\ toolCalls \in Nat /\ MaxToolCalls \in Nat /\ counts \in [Requests -> Nat]
      /\ ending \in {"none", "failed", "blocked", "timed_out"} /\ iteration' \in 0 .. MaxIterations
      /\ asked \in {"none", "open", "allow_once", "deny"} /\ expired \in BOOLEAN
      /\ toolCalls' \in Nat /\ toolCalls <= toolCalls'
  BY <1>2, TypesNow
<1>7. CASE Stop(<<"action_requested">>, "blocked") /\ counts' = counts /\ UNCHANGED askVars
  <2>1. <<asking>> \o <<"failed">> = <<asking, "failed">>
    BY Concatenated
  <2>2. Through(<<asking, "failed">>) /\ point' = "over" /\ UNCHANGED ending
    BY <1>4, <1>7, <2>1 DEF Stop, Over
  <2>3. trail' \in Seq(RunState) /\ trail' # <<>> /\ LegalTransitions' /\ State' = "failed"
    BY <1>5, <2>2, GoesLawfully, Goes
  <2>4. State' \in StatesAt(point')
    BY <1>5, <2>2, <2>3 DEF StatesAt
  <2>5. \A p \in Requests : counts[p] <= counts[p]
    BY <1>6
  <2> QED
    BY <1>2, <1>6, <1>7, <2>2, <2>3, <2>4, <2>5, WindsUp DEF askVars
<1>8. CASE /\ toolCalls + 1 <= MaxToolCalls /\ counts' = [counts EXCEPT ![q] = counts[q] + 1] /\ UNCHANGED askVars
           /\ \E result \in {"failed", "blocked"} : Report(<<"action_requested">>, result)
                                                \/ Report(<<"action_requested", "authorizing">>, result)
  <2>1. /\ Through(<<asking>>) \/ Through(<<asking, checking>>)
        /\ point' = "report" /\ ending' \in {"failed", "blocked"}
    BY <1>4, <1>8 DEF Report
  <2>2. trail' \in Seq(RunState) /\ trail' # <<>> /\ LegalTransitions' /\ State' \in {asking, checking}
    BY <1>5, <2>1, GoesLawfully, Goes
  <2>3. State' \in StatesAt(point')
    BY <1>4, <2>1, <2>2 DEF StatesAt
  <2>4. counts' \in [Requests -> Nat] /\ \A p \in Requests : counts[p] <= counts'[p]
    BY <1>3, <1>6, <1>8
  <2>5. toolCalls' <= MaxToolCalls
    BY <1>2, <1>8
  <2> QED
    BY <1>2, <1>6, <1>8, <2>1, <2>2, <2>3, <2>4, <2>5, WindsUp DEF askVars
<1>9. CASE /\ toolCalls + 1 <= MaxToolCalls /\ counts' = [counts EXCEPT ![q] = counts[q] + 1]
           /\ counts[q] + 1 < RepeatLimit /\ q.tool # "unknown"
           /\ \/ /\ Rule[q.tool] = "require_approval" /\ asked' = "open" /\ expired' = FALSE
                 /\ Suspend(<<"action_requested", "authorizing">>, "approval")
              \/ /\ Rule[q.tool] = "allow" /\ UNCHANGED askVars
                 /\ Suspend(<<"action_requested", "authorizing">>, "request")
  <2>1. /\ Through(<<asking, checking>>) /\ point' \in {"approval", "request"} /\ UNCHANGED ending
        /\ point' = "approval" => Rule[q.tool] = "require_approval"
        /\ point' = "request" => Rule[q.tool] = "allow"
        /\ asked' \in {"none", "open", "allow_once", "deny"} /\ expired' \in BOOLEAN
    BY <1>4, <1>6, <1>9 DEF Suspend, askVars
  <2>2. trail' \in Seq(RunState) /\ trail' # <<>> /\ LegalTransitions' /\ State' \in StatesAt(point')
    <3>1. trail' \in Seq(RunState) /\ trail' # <<>> /\ LegalTransitions' /\ State' = checking
      BY <1>5, <2>1, GoesLawfully, Goes
    <3> QED
      BY <1>4, <2>1, <3>1 DEF StatesAt
  <2>3. /\ counts' \in [Requests -> Nat] /\ counts'[q] = counts[q] + 1
        /\ \A p \in Requests : counts[p] <= counts'[p]
    BY <1>3, <1>6, <1>9
  <2>4. Len(ran) \in Nat /\ Len(ran) <= toolCalls /\ \A p \in Requests : TimesRun(p) \in Nat /\ TimesRun(p) <= counts[p]
    BY LenProperties, TimesRunIsNat DEF RuntimeInv, RuntimeTyped, CallsCounted
  <2>5. TimesRun(q)' = TimesRun(q) /\ \A p \in Requests : TimesRun(p)' = TimesRun(p)
    BY <1>2 DEF TimesRun, Times
  <2>6. RuntimeTyped'
    BY <1>2, <1>6, <2>1, <2>2, <2>3 DEF RuntimeInv, RuntimeTyped, RuntimeTypeOK, textVars
  <2>7. RunsOnGrant' /\ CallsBounded'
    BY <1>2 DEF RuntimeInv, RunsOnGrant, CallsBounded
  <2>8. CallsCounted'
    <3>1. Len(ran') <= toolCalls' /\ toolCalls' <= MaxToolCalls
      BY <1>2, <1>6, <1>9, <2>4
    <3>2. ASSUME NEW p \in Requests PROVE TimesRun(p)' <= counts'[p]
      <4>1. counts[p] \in Nat /\ counts'[p] \in Nat /\ counts[p] <= counts'[p]
        BY <1>6, <2>3
      <4> QED
        BY <2>4, <2>5, <4>1
    <3> QED
      BY <3>1, <3>2 DEF CallsCounted
  <2>9. CallInOrder'
    <3>1. calls' # <<>> /\ Head(calls') = q /\ q.tool \in Tools
      BY <1>1, <1>2, <1>3, <1>9
    <3>2. Len(ran') + 1 <= toolCalls'
      BY <1>2, <1>6, <2>4
    <3>3. TimesRun(q)' + 1 <= counts'[q] /\ counts'[q] < RepeatLimit
      <4>1. counts[q] \in Nat /\ RepeatLimit \in Nat
        BY <1>3, <1>6, RuntimeAssumption
      <4> QED
        BY <1>3, <1>9, <2>3, <2>4, <2>5, <4>1
    <3> QED
      BY <1>1, <1>2, <2>1, <3>1, <3>2, <3>3 DEF CallInOrder, TimesRun, Times
  <2>10. ThreadInOrder'
    <3>1. point \in Calling /\ point' \in Calling /\ point' \notin {"start", "turn", "model", "final"}
      BY <1>2, <2>1 DEF Calling
    <3>2. thread' = thread /\ saved' = saved /\ calls' = calls
      BY <1>2 DEF textVars
    <3>3. Observed(saved)'
      BY <3>2 DEF RuntimeInv, ThreadInOrder, Observed
    <3>4. \E f \in 1 .. Len(thread) : Underway(thread, f, Len(calls))
      BY <3>1 DEF RuntimeInv, ThreadInOrder
    <3> QED
      BY <1>3, <3>1, <3>2, <3>3, <3>4 DEF ThreadInOrder, Underway
  <2> QED
    BY <2>2, <2>6, <2>7, <2>8, <2>9, <2>10 DEF RuntimeInv
<1> QED
  BY <1>1, <1>7, <1>8, <1>9, Considered

LEMMA RuntimeStep ==
  ASSUME RuntimeInv, [RuntimeNext]_runtimeVars
  PROVE  RuntimeInv'
<1>1. CASE RunStep
  <2>1. CASE Start \/ Observe
    BY <2>1, BeginRunStep, ObserveStep
  <2>2. CASE \/ \E limited \in BOOLEAN : AskModel(limited) \/ \E empty \in BOOLEAN : ModelAnswers(limited, empty)
             \/ ModelRaises
    BY <2>2, ModelSteps
  <2>3. CASE \E limited \in BOOLEAN : BeginTool(limited) \/ \E permitted \in BOOLEAN : Consider(limited, permitted)
    BY <2>3, BeginStep, ConsiderStep
  <2>4. CASE \E n \in 1 .. MaxCallsPerTurn : \E requests \in [1 .. n -> Requests] : ModelCalls(requests)
    BY <2>4, CallsStep
  <2>5. CASE \E result \in {"completed", "failed", "blocked", "raised"}, recorded \in BOOLEAN : Finalize(result, recorded)
    BY <2>5, FinalStep
  <2>6. CASE \E permitted \in BOOLEAN : Answered(permitted)
    BY <2>6, AnsweredStep
  <2>7. CASE \E wellFormed, recorded \in BOOLEAN : AskUser(wellFormed, recorded)
    BY <2>7, AskUserStep
  <2>8. CASE ToolFinishes \/ \E result \in {"failed", "timed_out"} : ToolFails(result)
    BY <2>8, ToolSteps
  <2>9. CASE Reported \/ \E needsApproval \in BOOLEAN : ToolPasses(needsApproval)
    BY <2>9, EndSteps
  <2> QED
    BY <1>1, <2>1, <2>2, <2>3, <2>4, <2>5, <2>6, <2>7, <2>8, <2>9 DEF RunStep
<1>2. CASE AnswerStep
  BY <1>2, AnswerSteps
<1>3. CASE Cancelled \/ HookRaises
  BY <1>3, EndSteps
<1>4. CASE UNCHANGED runtimeVars
  <2>1. /\ trail' = trail /\ point' = point /\ iteration' = iteration /\ toolCalls' = toolCalls /\ calls' = calls
        /\ counts' = counts /\ thread' = thread /\ saved' = saved /\ ending' = ending /\ asked' = asked
        /\ expired' = expired /\ ran' = ran /\ outcome' = outcome
    BY <1>4 DEF runtimeVars
  <2>2. RuntimeTyped' /\ State' \in StatesAt(point') /\ LegalTransitions' /\ RunsOnGrant' /\ CallsBounded'
    BY <2>1 DEF RuntimeInv, RuntimeTyped, RuntimeTypeOK, State, LegalTransitions, RunsOnGrant, CallsBounded
  <2>3. CallsCounted' /\ (point' \in {"approval", "request"} => CallInOrder')
    BY <2>1 DEF RuntimeInv, CallsCounted, CallInOrder, GrantedByAnswer, TimesRun, Times
  <2>4. ThreadInOrder'
    BY <2>1 DEF RuntimeInv, ThreadInOrder, Calling, Observed, Underway
  <2> QED
    BY <2>2, <2>3, <2>4 DEF RuntimeInv
<1> QED
  BY <1>1, <1>2, <1>3, <1>4 DEF RuntimeNext

\* However the user, the clock, a cancel and the model interleave, a run of the
\* agent loop takes the transitions AgentState allows, executes only what was
\* granted and only as often as it may, and leaves every call with its observation
\* in the conversation and in the session (AgentRuntime.run, ApprovalBroker.request,
\* append_exchange).
THEOREM RunsAreLawful == RuntimeSpec => [](RuntimeTypeOK /\ RunIsLawful)
<1>1. RuntimeInit => RuntimeInv
  BY RuntimeStart
<1>2. RuntimeInv /\ [RuntimeNext]_runtimeVars => RuntimeInv'
  BY RuntimeStep
<1>3. RuntimeInv => RuntimeTypeOK /\ RunIsLawful
  BY DEF RuntimeInv, RuntimeTyped, ThreadInOrder, RunIsLawful, ExchangesWhole
<1> QED
  BY <1>1, <1>2, <1>3, PTL DEF RuntimeSpec

-----------------------------------------------------------------------------
(* The tools of a request.  A native tool is a pair that begins with       *)
(* "suto", which no server is called: what is remote came from a server.   *)

Starting == {"starting", "listing", "dropping"}

Serving == Starting \cup {"running", "delegated"}

\* While the servers are started, a client that exists is of one the walk has
\* reached.
Reached ==
  \A s \in ServerIds :
    step \in Starting /\ client[s] # "none" =>
      \E i \in 1 .. Len(McpServers) :
        /\ McpServers[i] = s
        /\ i < position \/ (i = position /\ step # "starting")

\* Only the client of the server the walk stands at is not settled.
Settled ==
  \A s \in ServerIds :
    client[s] = "connecting" => step \in {"listing", "dropping"} /\ s = CurrentServer

\* The clients that are open are those close() will find.
OpenIsKept == step # "abandoned" => \A s \in ServerIds : client[s] = "open" => s \in Range(kept)

\* What was found has an open client, until the run ends and forgets it.
FoundIsOpen ==
  \A t \in found : step \in Serving /\ t[1] \in ServerIds /\ client[t[1]] = "open"

ToolInv ==
  /\ request \in RequestsMade
  /\ client \in [ServerIds -> {"none", "connecting", "open", "closed"}]
  /\ position \in 1 .. (Len(McpServers) + 1)
  /\ kept \in Seq(ServerIds)
  /\ step \in Serving \cup {"closing", "ended", "abandoned"}
  /\ step = "ended" => kept = <<>>
  /\ step \in {"listing", "dropping"} => position <= Len(McpServers) /\ client[CurrentServer] = "connecting"
  /\ step \in Starting => child = NoChild
  /\ step \in {"running", "delegated"} => offered = Catalog(request, found)
  /\ Reached /\ Settled /\ OpenIsKept /\ FoundIsOpen
  /\ ChildIsNarrower

\* The servers, each at one place of the configuration.
LEMMA ServerList ==
  /\ Len(McpServers) \in Nat
  /\ \A i \in 1 .. Len(McpServers) : McpServers[i] \in ServerIds
  /\ \A i, k \in 1 .. Len(McpServers) : McpServers[i] = McpServers[k] => i = k
BY ToolsAssumption, LenProperties, ElementOfSeq DEF IsInjective

\* The walk goes forward, to a server of the list or past its end.
LEMMA NextServerForward ==
  ASSUME NEW q, NEW i \in 1 .. (Len(McpServers) + 1)
  PROVE  NextServer(q, i) \in i .. (Len(McpServers) + 1)
<1> DEFINE wanted == {j \in i .. Len(McpServers) : Eligible(q, McpServers[j]) # {}}
<1>1. CASE wanted = {}
  BY <1>1, ServerList DEF NextServer
<1>2. CASE wanted # {}
  <2>1. \E j \in wanted : \A k \in wanted : j <= k
    <3>1. wanted \subseteq Nat
      BY ServerList
    <3> HIDE DEF wanted
    <3> QED
      BY <1>2, <3>1, LeastIndex
  <2>2. NextServer(q, i) \in wanted
    BY <1>2, <2>1 DEF NextServer
  <2> QED
    BY <2>2, ServerList
<1> QED
  BY <1>1, <1>2

\* Closing the last client leaves the others to be closed.
LEMMA KeptFront ==
  ASSUME kept \in Seq(ServerIds), kept # <<>>
  PROVE  /\ Front(kept) \in Seq(ServerIds)
         /\ Last(kept) \in ServerIds
         /\ \A s \in Range(kept) : s = Last(kept) \/ s \in Range(Front(kept))
<1> DEFINE n == Len(kept)
<1>1. n \in Nat \ {0} /\ kept \in [1 .. n -> ServerIds]
  BY EmptySeq, LenProperties
<1>a. n \in Nat \ {0}
  BY <1>1
<1>2. /\ Front(kept) \in Seq(ServerIds)
      /\ Len(Front(kept)) = Len(kept) - 1
      /\ \A i \in 1 .. (Len(kept) - 1) : Front(kept)[i] = kept[i]
  <2>1. \A i \in 1 .. (Len(kept) - 1) : kept[i] \in ServerIds
    BY <1>1
  <2> QED
    BY <1>1, <2>1, SubSeqProperties DEF Front
<1>3. \A i \in 1 .. (Len(kept) - 1) : kept[i] \in Range(Front(kept))
  BY <1>1, <1>2, RangeEquality
<1>4. \A s \in Range(kept) : \E i \in 1 .. Len(kept) : s = kept[i]
  BY RangeEquality
<1>5. \A i \in 1 .. n : i \in 1 .. (n - 1) \/ i = n
  <2> HIDE DEF n
  <2> QED
    BY <1>a
<1>6. Last(kept) = kept[n] /\ Last(kept) \in ServerIds
  BY <1>1, <1>a, ElementOfSeq DEF Last
<1>7. \A s \in Range(kept) : s = kept[n] \/ s \in Range(Front(kept))
  BY <1>3, <1>4, <1>5
<1> QED
  BY <1>2, <1>6, <1>7

\* Keeping one more client.
LEMMA KeptMore ==
  ASSUME kept \in Seq(ServerIds), NEW s \in ServerIds
  PROVE  Append(kept, s) \in Seq(ServerIds) /\ Range(Append(kept, s)) = Range(kept) \cup {s}
<1>1. Append(kept, s) = kept \o <<s>> /\ <<s>> \in Seq(ServerIds)
  BY AppendIsConcat
<1>2. Range(<<s>>) = {s}
  BY DEF Range
<1>3. Range(kept \o <<s>>) = Range(kept) \cup Range(<<s>>)
  BY <1>1, RangeConcatenation
<1> QED
  BY <1>1, <1>2, <1>3, AppendProperties

LEMMA ToolStart == ToolInit => ToolInv
<1> SUFFICES ASSUME ToolInit PROVE ToolInv
  OBVIOUS
<1> QED
  BY ServerList, EmptySeq DEF ToolInit, ToolInv, Starting, Serving, Reached, Settled, OpenIsKept, FoundIsOpen, ChildIsNarrower, NoChild

\* The walk over the servers, which ends in the catalog.
LEMMA WalkServers ==
  ASSUME ToolInv, ConnectServer \/ ServerFails \/ DropServer \/ StartRun
  PROVE  ToolInv'
<1> USE ServerList
<1>1. CASE ConnectServer
  <2>1. position' \in position .. Len(McpServers)
    BY <1>1, NextServerForward DEF ConnectServer, ToolInv
  <2>2. McpServers[position'] \in ServerIds
    BY <2>1 DEF ToolInv
  <2>3. client[McpServers[position']] = "none"
    <3>1. \A i \in 1 .. Len(McpServers) : McpServers[i] = McpServers[position'] => ~(i < position)
      BY <2>1 DEF ToolInv
    <3>2. step = "starting"
      BY <1>1 DEF ConnectServer
    <3> QED
      BY <2>2, <3>1, <3>2 DEF ToolInv, Reached, Starting
  <2>4. \A s \in ServerIds : client'[s] = IF s = McpServers[position'] THEN "connecting" ELSE client[s]
    BY <1>1 DEF ConnectServer, ToolInv
  <2>5. Reached' /\ Settled'
    BY <1>1, <2>1, <2>2, <2>4 DEF ConnectServer, ToolInv, Reached, Settled, Starting, CurrentServer
  <2>6. OpenIsKept' /\ FoundIsOpen'
    BY <1>1, <2>3, <2>4 DEF ConnectServer, ToolInv, OpenIsKept, FoundIsOpen, Starting, Serving
  <2> QED
    BY <1>1, <2>1, <2>2, <2>4, <2>5, <2>6 DEF ConnectServer, ToolInv, Starting, Serving, CurrentServer, ChildIsNarrower
<1>2. CASE ServerFails
  BY <1>2 DEF ServerFails, ToolInv, Starting, Serving, Reached, Settled, CurrentServer, OpenIsKept, FoundIsOpen, ChildIsNarrower
<1>3. CASE DropServer
  <2>1. position \in 1 .. Len(McpServers) /\ CurrentServer \in ServerIds
    BY <1>3 DEF DropServer, ToolInv, CurrentServer
  <2>2. \A s \in ServerIds : client'[s] = IF s = CurrentServer THEN "closed" ELSE client[s]
    BY <1>3 DEF DropServer, ToolInv
  <2>3. Reached' /\ Settled'
    BY <1>3, <2>1, <2>2 DEF DropServer, ToolInv, Reached, Settled, Starting, CurrentServer
  <2>4. OpenIsKept' /\ FoundIsOpen'
    BY <1>3, <2>1, <2>2 DEF DropServer, ToolInv, OpenIsKept, FoundIsOpen, Starting, Serving
  <2> QED
    BY <1>3, <2>1, <2>3, <2>4 DEF DropServer, ToolInv, Starting, Serving, ChildIsNarrower
<1>4. CASE StartRun
  BY <1>4 DEF StartRun, ToolInv, Starting, Serving, Reached, Settled, OpenIsKept, FoundIsOpen, ChildIsNarrower, NoChild
<1> QED
  BY <1>1, <1>2, <1>3, <1>4

\* A listing that is adapted in full.
LEMMA ListServer ==
  ASSUME ToolInv, NEW listing \in Listings, List(listing)
  PROVE  ToolInv'
<1> USE ServerList
<1>1. position \in 1 .. Len(McpServers) /\ CurrentServer \in ServerIds
  BY DEF List, ToolInv, CurrentServer
<1>2. \A s \in ServerIds : client'[s] = IF s = CurrentServer THEN "open" ELSE client[s]
  BY DEF List, ToolInv
<1>3. kept' \in Seq(ServerIds) /\ Range(kept') = Range(kept) \cup {CurrentServer}
  BY <1>1, KeptMore DEF List, ToolInv
<1>4. Reached' /\ Settled'
  BY <1>1, <1>2 DEF List, ToolInv, Reached, Settled, Starting, CurrentServer
<1>5. OpenIsKept'
  BY <1>2, <1>3 DEF List, ToolInv, OpenIsKept
<1>6. FoundIsOpen'
  <2> SUFFICES ASSUME NEW t \in found' PROVE step' \in Serving /\ t[1] \in ServerIds /\ client'[t[1]] = "open"
    BY DEF FoundIsOpen
  <2>1. CASE t \in found
    BY <1>2, <2>1 DEF List, ToolInv, FoundIsOpen, Serving, Starting
  <2>2. CASE t \notin found
    <3>1. PICK n : t = Remote(CurrentServer, n)
      BY <2>2 DEF List
    <3> QED
      BY <1>1, <1>2, <3>1 DEF Remote, List, Serving, Starting
  <2> QED
    BY <2>1, <2>2
<1> QED
  BY <1>1, <1>2, <1>3, <1>4, <1>5, <1>6 DEF List, ToolInv, Starting, Serving, ChildIsNarrower

\* The child is given less than the run has, whatever the model asked for.
LEMMA DelegateKeeps ==
  ASSUME ToolInv, NEW r \in Roles, NEW wanted \in Requested \cup {Unlimited}, DelegateTo(r, wanted)
  PROVE  ToolInv'
<1>1. ChildIsNarrower'
  BY DEF DelegateTo, ChildTools, ChildIsNarrower
<1> QED
  BY <1>1 DEF DelegateTo, ToolInv, Starting, Serving, Reached, Settled, CurrentServer, OpenIsKept, FoundIsOpen

\* The end of the request, and its cancels.
LEMMA CloseRequest ==
  ASSUME ToolInv, ChildReturns \/ Finish \/ CloseNext \/ Ended \/ CancelRequest \/ CancelClosing
  PROVE  ToolInv'
<1> USE ServerList
<1>1. CASE ChildReturns \/ Finish \/ Ended
  BY <1>1 DEF ChildReturns, Finish, Ended, ToolInv, Starting, Serving, Reached, Settled, OpenIsKept, FoundIsOpen, ChildIsNarrower
<1>2. CASE CloseNext
  <2>1. /\ kept' \in Seq(ServerIds) /\ Last(kept) \in ServerIds
        /\ \A s \in Range(kept) : s = Last(kept) \/ s \in Range(kept')
    BY <1>2, KeptFront DEF CloseNext, ToolInv
  <2>2. \A s \in ServerIds : client'[s] = IF s = Last(kept) THEN "closed" ELSE client[s]
    BY <1>2 DEF CloseNext, ToolInv
  <2>3. Reached' /\ Settled' /\ OpenIsKept'
    BY <1>2, <2>1, <2>2 DEF CloseNext, ToolInv, Starting, Reached, Settled, OpenIsKept
  <2> QED
    BY <1>2, <2>1, <2>3 DEF CloseNext, ToolInv, Starting, Serving, FoundIsOpen, ChildIsNarrower
<1>3. CASE CancelRequest
  <2>1. CASE step \in {"listing", "dropping"}
    <3>1. \A s \in ServerIds : client'[s] = IF s = CurrentServer THEN "closed" ELSE client[s]
      BY <1>3, <2>1 DEF CancelRequest, ToolInv
    <3> QED
      BY <1>3, <2>1, <3>1 DEF CancelRequest, ToolInv, Starting, Serving, Reached, Settled, OpenIsKept, FoundIsOpen, ChildIsNarrower
  <2>2. CASE step \notin {"listing", "dropping"}
    BY <1>3, <2>2 DEF CancelRequest, ToolInv, Starting, Serving, Reached, Settled, OpenIsKept, FoundIsOpen, ChildIsNarrower
  <2> QED
    BY <2>1, <2>2
<1>4. CASE CancelClosing
  BY <1>4, EmptySeq DEF CancelClosing, ToolInv, Starting, Serving, Reached, Settled, OpenIsKept, FoundIsOpen, ChildIsNarrower
<1> QED
  BY <1>1, <1>2, <1>3, <1>4

LEMMA ToolStep == ToolInv /\ [ToolNext]_toolVars => ToolInv'
<1> SUFFICES ASSUME ToolInv, [ToolNext]_toolVars PROVE ToolInv'
  OBVIOUS
<1>1. CASE UNCHANGED toolVars
  BY <1>1 DEF toolVars, ToolInv, Reached, Settled, OpenIsKept, FoundIsOpen, ChildIsNarrower, CurrentServer
<1>2. CASE ToolNext
  BY <1>2, WalkServers, ListServer, DelegateKeeps, CloseRequest DEF ToolNext
<1> QED
  BY <1>1, <1>2

\* What the invariant says of the tools on offer.
LEMMA OffersFollow == ToolInv => OffersAreBacked
<1> SUFFICES ASSUME ToolInv, step \in {"running", "delegated"}, NEW t \in offered, IsRemote(t)
             PROVE  /\ request.origin = "chat"
                    /\ client[t[1]] = "open" /\ t \in found
                    /\ t[2] \in AllowedOf[t[1]]
                    /\ \A k \in request.skills : Permits(k, t)
  BY DEF OffersAreBacked
<1>1. t \in Catalog(request, found)
  BY DEF ToolInv
<1>2. t \notin NativeTools(request)
  BY DEF IsRemote, NativeTools, JobScoped, Chat, DelegateTool, Attachments, Personal, Reading, Planning, Writing,
         Commands, Retrieval, SubtaskTools, Native
<1>3. request.origin # "job" /\ t \in AllowedTools(request, found)
  BY <1>1, <1>2 DEF Catalog
<1>4. request.origin = "chat"
  BY <1>3 DEF ToolInv, RequestsMade
<1>5. PICK s \in ServerIds : \E n \in Eligible(request, s) : t = Remote(s, n)
  BY <1>3 DEF AllowedTools
<1>a. PICK n \in Eligible(request, s) : t = Remote(s, n)
  BY <1>5
<1>6. t[1] = s /\ t[2] = n
  BY <1>a DEF Remote
<1>7. n \in AllowedOf[s] /\ \A k \in request.skills : Permits(k, t)
  BY <1>4, <1>a DEF Eligible
<1> QED
  BY <1>3, <1>4, <1>6, <1>7 DEF ToolInv, FoundIsOpen, AllowedTools

LEMMA SkillsFollow == ToolInv => SkillsNarrow
<1> SUFFICES ASSUME ToolInv, step \in {"running", "delegated"} PROVE
        /\ \A k \in request.skills :
              Catalog(request, found) \subseteq Catalog([request EXCEPT !.skills = @ \ {k}], found)
        /\ request.origin = "job" => offered = JobGrant(request)
  BY DEF SkillsNarrow
<1>1. ASSUME NEW k \in request.skills
      PROVE  Catalog(request, found) \subseteq Catalog([request EXCEPT !.skills = @ \ {k}], found)
  <2> DEFINE fewer == [request EXCEPT !.skills = @ \ {k}]
  <2>1. /\ fewer.origin = request.origin /\ fewer.selection = request.selection
        /\ fewer.child = request.child /\ fewer.attachments = request.attachments
        /\ fewer.personal = request.personal
        /\ fewer.skills = request.skills \ {k}
    BY DEF ToolInv, RequestsMade
  <2> HIDE DEF fewer
  <2>2. NativeTools(fewer) = NativeTools(request)
    BY <2>1 DEF NativeTools, JobGrant
  <2>3. \A s \in ServerIds : Eligible(request, s) \subseteq Eligible(fewer, s)
    BY <2>1 DEF Eligible
  <2>4. AllowedTools(request, found) \subseteq AllowedTools(fewer, found)
    BY <2>3 DEF AllowedTools
  <2>5. Catalog(request, found) \subseteq Catalog(fewer, found)
    BY <2>1, <2>2, <2>4 DEF Catalog
  <2> QED
    BY <2>5 DEF fewer
<1>2. ASSUME request.origin = "job" PROVE offered = JobGrant(request)
  <2>1. request.skills = {}
    BY <1>2 DEF ToolInv, RequestsMade
  <2>2. Catalog(request, found) = NativeTools(request)
    BY <1>2, <2>1 DEF Catalog
  <2>3. NativeTools(request) = JobGrant(request)
    BY <1>2 DEF NativeTools, JobGrant, JobScoped
  <2> QED
    BY <2>2, <2>3 DEF ToolInv
<1> QED
  BY <1>1, <1>2

\* The tools there are, and what bounds the cancels.
ToolsKnown ==
  /\ found \subseteq AllTools /\ offered \subseteq AllTools /\ child \subseteq AllTools
  /\ chosen = Unlimited \/ chosen \in Requested
  /\ cancels \in 0 .. MaxCancels

LEMMA ToolsKnownStep ==
  ASSUME ToolsKnown, [ToolNext]_toolVars, step = "listing" => CurrentServer \in ServerIds
  PROVE  ToolsKnown'
<1> MaxCancels \in Nat
  BY ToolsAssumption
<1>1. CASE UNCHANGED toolVars
  BY <1>1 DEF toolVars, ToolsKnown
<1>2. CASE ConnectServer \/ ServerFails \/ DropServer \/ ChildReturns \/ Finish \/ CloseNext \/ Ended
  BY <1>2 DEF ConnectServer, ServerFails, DropServer, ChildReturns, Finish, CloseNext, Ended, ToolsKnown
<1>3. CASE CancelRequest \/ CancelClosing
  BY <1>3 DEF CancelRequest, CancelClosing, ToolsKnown
<1>4. CASE StartRun
  <2>1. NativeTools(request) \subseteq AllTools
    BY DEF NativeTools, JobGrant, AllTools, Natives, JobScoped
  <2>2. Catalog(request, found) \subseteq AllTools
    BY <2>1 DEF Catalog, AllowedTools, ToolsKnown
  <2> QED
    BY <1>4, <2>2 DEF StartRun, ToolsKnown
<1>5. ASSUME NEW listing \in Listings, List(listing) PROVE ToolsKnown'
  <2>1. \A n \in Range(listing) : Remote(CurrentServer, n) \in AllTools
    BY <1>5 DEF AllTools, List
  <2> QED
    BY <1>5, <2>1 DEF List, ToolsKnown
<1>6. ASSUME NEW r \in Roles, NEW wanted \in Requested \cup {Unlimited}, DelegateTo(r, wanted)
      PROVE  ToolsKnown'
  <2>1. ChildTools(request, r, wanted) \subseteq offered
    BY DEF ChildTools
  <2> QED
    BY <1>6, <2>1 DEF DelegateTo, ToolsKnown
<1> QED
  BY <1>1, <1>2, <1>3, <1>4, <1>5, <1>6 DEF ToolNext

\* Whichever servers are configured and fail, whichever skills are active and
\* wherever a request is cancelled: it offers only what is granted and open,
\* and once it has ended no client of it is left.
THEOREM AccessIsRight == ToolSpec => [](ToolTypeOK /\ AccessHolds)
<1>1. ToolInv => AccessHolds
  <2>1. ToolInv => ClientsClosed
    <3>1. Range(<<>>) = {}
      BY DEF Range
    <3> QED
      BY <3>1 DEF ToolInv, ClientsClosed, OpenIsKept, Settled
  <2> QED
    BY <2>1, OffersFollow, SkillsFollow DEF ToolInv, AccessHolds
<1>2. ToolInv /\ ToolsKnown => ToolTypeOK
  <2>1. ToolInv => Range(kept) \subseteq ServerIds
    BY RangeEquality, ElementOfSeq DEF ToolInv
  <2> QED
    BY <2>1 DEF ToolInv, ToolsKnown, ToolTypeOK, Serving, Starting
<1>3. ToolInit => ToolsKnown
  BY ToolsAssumption DEF ToolInit, ToolsKnown, NoChild, AllTools, Natives
<1>4. ToolInv /\ ToolsKnown /\ [ToolNext]_toolVars => ToolsKnown'
  BY ServerList, ToolsKnownStep DEF ToolInv, CurrentServer
<1> QED
  BY <1>1, <1>2, <1>3, <1>4, ToolStart, ToolStep, PTL DEF ToolSpec
=============================================================================
