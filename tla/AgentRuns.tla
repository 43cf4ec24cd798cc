----------------------------- MODULE AgentRuns -----------------------------
(***************************************************************************)
(* Interactive runs of the local HTTP API: the table agent_runs, which all *)
(* processes share, and, in each server process, the sessions it holds     *)
(* active and the asyncio tasks that execute their runs, each of which may *)
(* delegate once to a child run.                                           *)
(*                                                                         *)
(* A server is single-threaded: what a handler does between two awaits is  *)
(* one step, except that begin_agent_run is two transactions, between      *)
(* which other servers may write.                                          *)
(***************************************************************************)
EXTENDS Integers, FiniteSets

CONSTANTS
  RunIds,         \* ids for runs, which uuid4 gives out in some order
  NoRun,
  Sessions,       \* conversations of the local API identity
  NoSession,
  Servers,        \* API processes on one database
  MaxActiveRuns,
  Outcomes,       \* the statuses an executor may end a run with
  MaxStarts,      \* bound: how often a server is started
  MaxLostWrites   \* bound: storage calls that raise

ASSUME AgentRunAssumption ==
  /\ RunIds \subseteq Nat /\ NoRun \notin RunIds
  /\ Outcomes \subseteq {"completed", "failed", "blocked", "timed_out", "waiting_input"}
  /\ NoSession \notin Sessions
  /\ MaxActiveRuns \in Nat \ {0} /\ MaxStarts \in Nat /\ MaxLostWrites \in Nat

VARIABLES
  runRows,     \* agent_runs
  life,        \* life[s]: "down", "up", "stopping"
  epoch,       \* epoch[s]: which process of s it is (OWNER_PID, OWNER_START)
  active,      \* active[s]: state["active_sessions"]
  beginning,   \* beginning[s]: the session begin_agent_run is about to insert for
  runTasks,    \* runTasks[r]: the task of run r, in the process that owns it
  unrecorded,  \* ghost: runs the write of whose end raised
  lostWrites   \* counts what MaxLostWrites bounds

agentRunVars == <<runRows, life, epoch, active, beginning, runTasks, unrecorded, lostWrites>>
processVars  == <<life, epoch>>
faultVars    == <<unrecorded, lostWrites>>

ACTIVE   == {"queued", "running"}
TERMINAL == {"completed", "failed", "cancelled", "interrupted", "blocked", "timed_out", "waiting_input"}

NoRow  == [status |-> "none", session |-> NoSession, parent |-> NoRun, server |-> "none", epoch |-> 0]
NoTask == [phase |-> "none", cancel |-> FALSE]

AgentRunsInit ==
  /\ runRows = [r \in RunIds |-> NoRow]
  /\ life = [s \in Servers |-> "down"]
  /\ epoch = [s \in Servers |-> 0]
  /\ active = [s \in Servers |-> [x \in Sessions |-> NoRun]]
  /\ beginning = [s \in Servers |-> NoSession]
  /\ runTasks = [r \in RunIds |-> NoTask]
  /\ unrecorded = {}
  /\ lostWrites = 0

-----------------------------------------------------------------------------
(* RunStore.                                                               *)

OwnerAlive(row) == row.server \in Servers /\ life[row.server] # "down" /\ epoch[row.server] = row.epoch

\* Mutant: every active row is taken for an orphan, as with force=True.
StaleByForce == {r \in RunIds : runRows[r].status \in ACTIVE}

StaleRun == {r \in RunIds : runRows[r].status \in ACTIVE /\ ~OwnerAlive(runRows[r])}

\* recover_interrupted_runs
Recovered == [r \in RunIds |-> IF r \in StaleRun THEN [runRows[r] EXCEPT !.status = "interrupted"] ELSE runRows[r]]

\* agent_runs_active_session_idx: one active top-level run of a session.
SessionReserved(x) ==
  \E r \in RunIds : runRows[r].session = x /\ runRows[r].parent = NoRun /\ runRows[r].status \in ACTIVE

\* The id of the next run.
IsNewId(r) == runRows[r].status = "none" /\ \A o \in RunIds : runRows[o].status = "none" => r <= o

NewRow(s, x, parent, status) ==
  [status |-> status, session |-> x, parent |-> parent, server |-> s, epoch |-> epoch[s]]

\* finish_agent_run, which leaves what is over as it is.
Finished(table, r, status) ==
  IF table[r].status \in ACTIVE THEN [table EXCEPT ![r].status = status] ELSE table

-----------------------------------------------------------------------------
(* Handlers.                                                               *)

\* The event loop of s is free to run a handler or a task.
ServerFree(s) == life[s] # "down" /\ beginning[s] = NoSession

HeldBy(s) == {x \in Sessions : active[s][x] # NoRun}

\* The checks of create_run, and the recovery with which begin_agent_run begins.
CreateRun(s, x) ==
  /\ ServerFree(s) /\ life[s] = "up"
  /\ active[s][x] = NoRun
  /\ Cardinality(HeldBy(s)) < MaxActiveRuns
  /\ runRows' = Recovered
  /\ beginning' = [beginning EXCEPT ![s] = x]
  /\ UNCHANGED <<processVars, active, runTasks, faultVars>>

\* Another process holds the session: 409.
RefuseRun(s) ==
  /\ beginning[s] # NoSession /\ SessionReserved(beginning[s])
  /\ beginning' = [beginning EXCEPT ![s] = NoSession]
  /\ UNCHANGED <<runRows, processVars, active, runTasks, faultVars>>

\* The row, the session's Skills, and the task that will execute the run.
InsertRun(s, r) ==
  LET x == beginning[s] IN
  /\ x # NoSession /\ ~SessionReserved(x) /\ IsNewId(r)
  /\ runRows' = [runRows EXCEPT ![r] = NewRow(s, x, NoRun, "queued")]
  /\ active' = [active EXCEPT ![s][x] = r]
  /\ runTasks' = [runTasks EXCEPT ![r] = [phase |-> "created", cancel |-> FALSE]]
  /\ beginning' = [beginning EXCEPT ![s] = NoSession]
  /\ UNCHANGED <<processVars, faultVars>>

\* set_session_skills raises: the row is closed, and the session free again.
SkillsRaise(s, r) ==
  LET x == beginning[s] IN
  /\ x # NoSession /\ ~SessionReserved(x) /\ IsNewId(r)
  /\ lostWrites < MaxLostWrites
  /\ lostWrites' = lostWrites + 1
  /\ runRows' = [runRows EXCEPT ![r] = NewRow(s, x, NoRun, "failed")]
  /\ beginning' = [beginning EXCEPT ![s] = NoSession]
  /\ UNCHANGED <<processVars, active, runTasks, unrecorded>>

\* cancel_run
AskCancel(s, r) ==
  /\ ServerFree(s) /\ runRows[r].server = s
  /\ runTasks[r].phase \in {"created", "awaiting", "delegating"}
  /\ runTasks' = [runTasks EXCEPT ![r].cancel = TRUE]
  /\ UNCHANGED <<runRows, processVars, active, beginning, faultVars>>

-----------------------------------------------------------------------------
(* The task of a run.                                                      *)

Runs(s, r) == ServerFree(s) /\ runRows[r].server = s

\* if active.get(session.id) == run.id: active.pop(session.id)
Released(s, r) ==
  IF active[s][runRows[r].session] = r THEN [active EXCEPT ![s][runRows[r].session] = NoRun] ELSE active

\* The finally of execute(): the end is recorded, then the session released;
\* if the record raises the release is left to task_finished.
End(s, r, table, status) ==
  /\ runTasks' = [runTasks EXCEPT ![r] = [phase |-> "ended", cancel |-> FALSE]]
  /\ \/ /\ runRows' = Finished(table, r, status)
        /\ active' = Released(s, r)
        /\ UNCHANGED faultVars
     \/ /\ lostWrites < MaxLostWrites
        /\ lostWrites' = lostWrites + 1
        /\ unrecorded' = unrecorded \cup {r}
        /\ runRows' = table
        /\ UNCHANGED active

\* From the first step to the first await of the executor.
FirstStep(s, r) ==
  /\ Runs(s, r) /\ runTasks[r].phase = "created" /\ ~runTasks[r].cancel
  /\ runRows' = [runRows EXCEPT ![r].status = IF @ = "queued" THEN "running" ELSE @]
  /\ runTasks' = [runTasks EXCEPT ![r].phase = "awaiting"]
  /\ UNCHANGED <<processVars, active, beginning, faultVars>>

\* A task that was cancelled before its first step runs none of its code.
NeverStarts(s, r) ==
  /\ Runs(s, r) /\ runTasks[r].phase = "created" /\ runTasks[r].cancel
  /\ runTasks' = [runTasks EXCEPT ![r] = [phase |-> "dropped", cancel |-> FALSE]]
  /\ UNCHANGED <<runRows, processVars, active, beginning, faultVars>>

\* The executor ends by itself; a status it shares with jobs only is "failed".
Outcome(s, r, status) ==
  /\ Runs(s, r) /\ runTasks[r].phase = "awaiting"
  /\ End(s, r, runRows, status)
  /\ UNCHANGED <<processVars, beginning>>

Child(r) == {c \in RunIds : runRows[c].parent = r}

\* delegate: on_child_started, with a budget of one child.
Delegate(s, r, c) ==
  /\ Runs(s, r) /\ runTasks[r] = [phase |-> "awaiting", cancel |-> FALSE]
  /\ Child(r) = {} /\ IsNewId(c)
  /\ runRows' = [Recovered EXCEPT ![c] = NewRow(s, runRows[r].session, r, "running")]
  /\ runTasks' = [runTasks EXCEPT ![r].phase = "delegating"]
  /\ UNCHANGED <<processVars, active, beginning, faultVars>>

\* The child completes, fails, is blocked or runs out of its 60 seconds.
ChildEnds(s, r, status) ==
  /\ Runs(s, r) /\ runTasks[r] = [phase |-> "delegating", cancel |-> FALSE]
  /\ \E c \in Child(r) :
       /\ runTasks' = [runTasks EXCEPT ![r].phase = "awaiting"]
       /\ \/ runRows' = Finished(runRows, c, status) /\ UNCHANGED faultVars
          \/ /\ lostWrites < MaxLostWrites
             /\ lostWrites' = lostWrites + 1
             /\ unrecorded' = unrecorded \cup {c}
             /\ UNCHANGED runRows
  /\ UNCHANGED <<processVars, active, beginning>>

\* The child a cancelled parent was waiting for is closed first.
ChildCancelled(r) ==
  [c \in RunIds |-> IF c \in Child(r) /\ runRows[c].status \in ACTIVE /\ runTasks[r].phase = "delegating"
                    THEN [runRows[c] EXCEPT !.status = "cancelled"] ELSE runRows[c]]

CancelRun(s, r) ==
  /\ Runs(s, r) /\ runTasks[r].phase \in {"awaiting", "delegating"} /\ runTasks[r].cancel
  /\ End(s, r, ChildCancelled(r), "cancelled")
  /\ UNCHANGED <<processVars, beginning>>

\* The record of the cancelled child raises: the tool has failed, and nobody
\* is cancelled any more.
CancelChildRaises(s, r) ==
  /\ Runs(s, r) /\ runTasks[r].phase = "delegating" /\ runTasks[r].cancel
  /\ lostWrites < MaxLostWrites
  /\ lostWrites' = lostWrites + 1
  /\ unrecorded' = unrecorded \cup Child(r)
  /\ runTasks' = [runTasks EXCEPT ![r] = [phase |-> "awaiting", cancel |-> FALSE]]
  /\ UNCHANGED <<runRows, processVars, active, beginning>>

\* RequestProgress.stop swallows the cancel in the executor's finally.
CancelSwallowed(s, r, status) ==
  /\ runTasks[r].cancel
  /\ Outcome(s, r, status)

DroppedRow(r) == IF runTasks[r].phase = "dropped" THEN Finished(runRows, r, "cancelled") ELSE runRows

\* task_finished
TaskFinished(s, r) ==
  /\ Runs(s, r) /\ runTasks[r].phase \in {"ended", "dropped"}
  /\ runTasks' = [runTasks EXCEPT ![r].phase = "over"]
  /\ active' = Released(s, r)
  /\ \/ /\ runRows' = DroppedRow(r)
        /\ UNCHANGED faultVars
     \/ /\ runTasks[r].phase = "dropped" /\ lostWrites < MaxLostWrites
        /\ lostWrites' = lostWrites + 1
        /\ unrecorded' = unrecorded \cup {r}
        /\ UNCHANGED runRows
  /\ UNCHANGED <<processVars, beginning>>

-----------------------------------------------------------------------------
(* Processes.                                                              *)

TasksOf(s) == {r \in RunIds : runRows[r].server = s /\ runTasks[r].phase # "none"}

\* create_app recovers what dead processes left.
StartServer(s) ==
  /\ life[s] = "down" /\ epoch[s] < MaxStarts
  /\ life' = [life EXCEPT ![s] = "up"]
  /\ epoch' = [epoch EXCEPT ![s] = @ + 1]
  /\ runRows' = Recovered
  /\ UNCHANGED <<active, beginning, runTasks, faultVars>>

\* cleanup cancels what runs ...
StopServer(s) ==
  /\ ServerFree(s) /\ life[s] = "up"
  /\ life' = [life EXCEPT ![s] = "stopping"]
  /\ runTasks' = [r \in RunIds |->
       IF r \in TasksOf(s) /\ runTasks[r].phase \in {"created", "awaiting", "delegating"}
       THEN [runTasks[r] EXCEPT !.cancel = TRUE] ELSE runTasks[r]]
  /\ UNCHANGED <<runRows, epoch, active, beginning, faultVars>>

Gone(s) ==
  /\ life' = [life EXCEPT ![s] = "down"]
  /\ active' = [active EXCEPT ![s] = [x \in Sessions |-> NoRun]]
  /\ beginning' = [beginning EXCEPT ![s] = NoSession]
  /\ runTasks' = [r \in RunIds |-> IF r \in TasksOf(s) THEN NoTask ELSE runTasks[r]]

\* ... and waits for it.
ExitServer(s) ==
  /\ life[s] = "stopping" /\ \A r \in TasksOf(s) : runTasks[r].phase = "over"
  /\ Gone(s)
  /\ UNCHANGED <<runRows, epoch, faultVars>>

CrashServer(s) ==
  /\ life[s] # "down"
  /\ Gone(s)
  /\ UNCHANGED <<runRows, epoch, faultVars>>

-----------------------------------------------------------------------------
TaskStep(s, r) ==
  \/ FirstStep(s, r)
  \/ NeverStarts(s, r)
  \/ \E status \in Outcomes : runTasks[r].cancel = FALSE /\ Outcome(s, r, status)
  \/ \E status \in Outcomes : ChildEnds(s, r, status)
  \/ CancelRun(s, r)
  \/ TaskFinished(s, r)

AgentRunsNext ==
  \E s \in Servers :
    \/ \E x \in Sessions : CreateRun(s, x)
    \/ RefuseRun(s)
    \/ StartServer(s) \/ StopServer(s) \/ ExitServer(s) \/ CrashServer(s)
    \/ \E r \in RunIds :
         \/ InsertRun(s, r) \/ SkillsRaise(s, r)
         \/ AskCancel(s, r)
         \/ TaskStep(s, r)
         \/ \E c \in RunIds : Delegate(s, r, c)
         \/ \E status \in Outcomes : CancelSwallowed(s, r, status)
         \/ CancelChildRaises(s, r)

AgentRunsSpec == AgentRunsInit /\ [][AgentRunsNext]_agentRunVars

-----------------------------------------------------------------------------
(* Properties.                                                             *)

RowType == [status : ACTIVE \cup TERMINAL \cup {"none"}, session : Sessions \cup {NoSession},
            parent : RunIds \cup {NoRun}, server : Servers \cup {"none"}, epoch : 0 .. MaxStarts]

AgentRunsTypeOK ==
  /\ runRows \in [RunIds -> RowType]
  /\ life \in [Servers -> {"down", "up", "stopping"}]
  /\ epoch \in [Servers -> 0 .. MaxStarts]
  /\ active \in [Servers -> [Sessions -> RunIds \cup {NoRun}]]
  /\ beginning \in [Servers -> Sessions \cup {NoSession}]
  /\ runTasks \in [RunIds ->
       [phase : {"none", "created", "awaiting", "delegating", "ended", "dropped", "over"}, cancel : BOOLEAN]]
  /\ unrecorded \subseteq RunIds /\ lostWrites \in 0 .. MaxLostWrites

Executes(r) == runTasks[r].phase \in {"created", "awaiting", "delegating"}

(* Across all servers on the database, at most one task executes a run of  *)
(* a session: neither the recovery of another process nor the release of a *)
(* reservation lets a second one in (begin_agent_run, task_finished).      *)
OneExecution ==
  \A r, o \in RunIds : Executes(r) /\ Executes(o) /\ runRows[r].session = runRows[o].session => r = o

(* The three records of a run agree: what executes is active in the table  *)
(* and holds its session in its server, and a session is held only by a    *)
(* run whose task has not been finished (active_sessions, agent_runs).     *)
ReservationAgrees ==
  /\ \A r \in RunIds : Executes(r) =>
       runRows[r].status \in ACTIVE /\ active[runRows[r].server][runRows[r].session] = r
  /\ \A s \in Servers, x \in Sessions : active[s][x] # NoRun => runTasks[active[s][x]].phase \notin {"none", "over"}

(* A run that is over in the table has no child that is still active in    *)
(* it, unless the write of the child's end raised (delegate).              *)
ChildrenEndFirst ==
  \A c \in RunIds : runRows[c].parent # NoRun /\ runRows[c].status \in ACTIVE /\ c \notin unrecorded =>
    runRows[runRows[c].parent].status \in ACTIVE \/ runRows[c].parent \in unrecorded

(* An active row of a process that lives is somebody's: its own task, or   *)
(* that of its parent, executes or is about to write its end, unless that  *)
(* write raised (execute, task_finished, delegate).                        *)
NoneIsOrphaned ==
  \A r \in RunIds :
    LET t == IF runRows[r].parent = NoRun THEN r ELSE runRows[r].parent IN
    runRows[r].status \in ACTIVE /\ OwnerAlive(runRows[r]) /\ r \notin unrecorded =>
      Executes(t) \/ runTasks[t].phase = "dropped"

(* One run of a session executes, the three records agree on which, no     *)
(* child outlives its parent in the table, and no run is left to nobody.   *)
RunsAreExclusive == OneExecution /\ ReservationAgrees /\ ChildrenEndFirst /\ NoneIsOrphaned
=============================================================================
