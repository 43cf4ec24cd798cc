---------------------------- MODULE ApprovedWork ----------------------------
(***************************************************************************)
(* One job that writes a workspace file and runs commands, each under an   *)
(* approval of its own: the approval_requests, change_events and           *)
(* command_events tables, the tool call that consults them, the checkpoint *)
(* that a later attempt must pass and the gate before the verdict.         *)
(*                                                                         *)
(* A tool call is several steps because other processes step in between:   *)
(* it reads the file and the clock, consults the approvals in a            *)
(* transaction, acts on the workspace, and records what it did in another  *)
(* transaction.  Users decide and cancel, editors edit, the worker crashes.*)
(***************************************************************************)
EXTENDS Naturals, Sequences, FiniteSets

CONSTANTS
  Ids,           \* bound: the approval requests that may ever be made
  NoId,          \* none of them
  Contents,      \* contents of the one file the job writes
  TTL,           \* APPROVAL_TTL_SECONDS, in ticks
  Lag,           \* how long a transaction waits for the database lock
  Window,        \* command events the gate looks at (100 in the code)
  MaxClock,      \* bound: ticks of the clock
  MaxAttempts,   \* bound: attempts of the job
  MaxEdits,      \* bound: edits of the file by somebody else
  Deciders,      \* bound: decisions under way at the same time
  MaxFaults      \* bound: crashes and lost audit records

ASSUME WorkAssumption ==
  /\ NoId \notin Ids
  /\ {TTL, Lag, Window} \subseteq Nat \ {0}
  /\ {MaxClock, MaxAttempts, MaxEdits, Deciders, MaxFaults} \subseteq Nat

\* The action of an approval, as its digest identifies it.  A write names the
\* hashes before and after; a command is a verification or is not.
Write(before, after) == [kind |-> "write", before |-> before, after |-> after]
Command(k)           == [kind |-> k]

Writes   == {Write(b, a) : b, a \in Contents}
Commands == {Command("verify"), Command("other")}
Actions  == Writes \cup Commands

IsWrite(a) == a.kind = "write"

NoAction == [kind |-> "none"]

VARIABLES
  status,     \* jobs.status
  attempts,   \* jobs.attempt_count
  requests,   \* requests[i]: the approval_requests row i
  changes,    \* change_events of the job, oldest first
  commands,   \* command_events of the job, oldest first
  file,       \* what the file holds
  now,        \* the clock
  pc, call,   \* where the attempt is; the tool call it is making
  decisions,  \* the decisions that users' processes are about to write
  edits, faults,
  effects,    \* history: effects[i] is what was performed under request i
  dirty,      \* history: the job wrote after its last successful verification
  strayed     \* history: an edit during an attempt, or an unrecorded write

jobVars  == <<status, attempts>>
logVars  == <<changes, commands>>
execVars == <<pc, call>>
envVars  == <<edits, faults>>
ghosts   == <<effects, dirty, strayed>>
vars     == <<status, attempts, requests, changes, commands, file, now, pc, call,
              decisions, edits, faults, effects, dirty, strayed>>

NoCall     == [action |-> NoAction, stamp |-> 0, id |-> NoId]

Init ==
  /\ status = "queued"
  /\ attempts = 0
  /\ requests = [i \in Ids |-> [status |-> "none", action |-> NoAction, expires |-> 0]]
  /\ changes = <<>>
  /\ commands = <<>>
  /\ file \in Contents
  /\ now = 0
  /\ pc = "idle"
  /\ call = NoCall
  /\ decisions = {}
  /\ edits = 0
  /\ faults = 0
  /\ effects = [i \in Ids |-> <<>>]
  /\ dirty = FALSE
  /\ strayed = FALSE

-----------------------------------------------------------------------------
(* Attempts.                                                               *)

\* What the file may hold, as far as the record of the job's writes goes.
Recorded == IF changes = <<>> THEN Contents ELSE {changes[Len(changes)].after}

\* Mutant: the checkpoint is checked when a user resumes the job, but not before
\* the attempt that follows an approval.
CheckpointOnResume(first) == first = 1 => file \in Recorded

\* checkpoint_failure, which attempts before number first are spared.
CheckpointHolds(first) == attempts >= first => file \in Recorded

Leave == pc' = "idle" /\ call' = NoCall

\* UPDATE ... WHERE status = 'running'
Settle(s) == status' = IF status = "running" THEN s ELSE status

Claim ==
  /\ pc = "idle"
  /\ status = "queued"
  /\ status' = "running"
  /\ attempts' = attempts + 1
  /\ pc' = "begin"
  /\ UNCHANGED <<requests, logVars, file, now, call, decisions, envVars, ghosts>>

Begin ==
  /\ pc = "begin"
  /\ IF status # "cancelled" /\ CheckpointHolds(2)
       THEN pc' = "think" /\ UNCHANGED <<status, call>>
       ELSE Settle("blocked") /\ Leave
  /\ UNCHANGED <<attempts, requests, logVars, file, now, decisions, envVars, ghosts>>

\* budget_check, before every tool call and model call.
NoticeCancel ==
  /\ pc = "think"
  /\ status = "cancelled"
  /\ Leave
  /\ UNCHANGED <<jobVars, requests, logVars, file, now, decisions, envVars, ghosts>>

\* The tool is called for action a: it has read the file and the clock.
Propose(a) ==
  /\ pc = "think"
  /\ status # "cancelled"
  /\ IsWrite(a) => a.before = file /\ a.after # file
  /\ call' = [action |-> a, stamp |-> now, id |-> NoId]
  /\ pc' = "ask"
  /\ UNCHANGED <<jobVars, requests, logVars, file, now, decisions, envVars, ghosts>>

-----------------------------------------------------------------------------
(* request_or_consume_approval.                                            *)

Pending(i)  == requests[i].status = "pending"
Approved(i) == requests[i].status = "approved"
Active      == {i \in Ids : Pending(i) \/ Approved(i)}

\* Mutant: a request is still good at the instant it expires.
ExpiresAfter(stamp) == {i \in Ids : requests[i].expires < stamp}

Expired(stamp) == {i \in Ids : requests[i].expires <= stamp}

\* The active requests in S are over: expired, or invalidated by another action.
Swept(S, stamp) ==
  [i \in Ids |-> IF i \notin S THEN requests[i]
                 ELSE IF i \in Expired(stamp)
                      THEN [requests[i] EXCEPT !.status = "expired"]
                      ELSE [requests[i] EXCEPT !.status = "invalidated"]]

Matching == {i \in Active \ Expired(call.stamp) : requests[i].action = call.action}

\* Mutant: the approval stays approved when it is used.
AuthorizeAndKeep(i) ==
  /\ pc = "ask"
  /\ status = "running"
  /\ i \in Matching /\ Approved(i)
  /\ requests' = Swept(Active \ {i}, call.stamp)
  /\ call' = [call EXCEPT !.id = i]
  /\ pc' = "act"
  /\ UNCHANGED <<jobVars, logVars, file, now, decisions, envVars, ghosts>>

\* The approval for exactly this action is consumed.
Authorize(i) ==
  /\ pc = "ask"
  /\ status = "running"
  /\ i \in Matching /\ Approved(i)
  /\ requests' = [Swept(Active \ {i}, call.stamp) EXCEPT ![i].status = "consumed"]
  /\ call' = [call EXCEPT !.id = i]
  /\ pc' = "act"
  /\ UNCHANGED <<jobVars, logVars, file, now, decisions, envVars, ghosts>>

\* No approval: the job waits for its user, on a new request unless the same
\* action is pending already.
Request(i) ==
  /\ pc = "ask"
  /\ status = "running"
  /\ \A m \in Matching : ~Approved(m)
  /\ requests' =
       IF Matching = {}
       THEN [Swept(Active, call.stamp) EXCEPT
               ![i] = [status |-> "pending", action |-> call.action,
                       expires |-> call.stamp + TTL]]
       ELSE Swept(Active \ {i}, call.stamp)
  /\ IF Matching = {} THEN requests[i].status = "none" ELSE i \in Matching
  /\ status' = "waiting_approval"
  /\ Leave
  /\ UNCHANGED <<attempts, logVars, file, now, decisions, envVars, ghosts>>

\* The job does not run any more: the tool call fails, and so does the attempt.
Refuse ==
  /\ pc = "ask"
  /\ status # "running"
  /\ Leave
  /\ UNCHANGED <<jobVars, requests, logVars, file, now, decisions, envVars, ghosts>>

-----------------------------------------------------------------------------
(* Acting and recording.                                                   *)

\* os.replace puts the new content in place of whatever is there; a command
\* starts.
Perform ==
  /\ pc = "act"
  /\ effects' = [effects EXCEPT ![call.id] = Append(@, call.action)]
  /\ file' = IF IsWrite(call.action) THEN call.action.after ELSE file
  /\ dirty' = (dirty \/ IsWrite(call.action))
  /\ pc' = "audit"
  /\ UNCHANGED <<jobVars, requests, logVars, now, call, decisions, envVars, strayed>>

\* add_change_event
RecordWrite ==
  /\ pc = "audit"
  /\ IsWrite(call.action)
  /\ changes' = Append(changes, call.action)
  /\ pc' = "think"
  /\ call' = NoCall
  /\ UNCHANGED <<jobVars, requests, commands, file, now, decisions, envVars, ghosts>>

\* Mutant: the change recorded last is taken to be newer than the event.
EventBefore(ok) == [verify |-> call.action = Command("verify"), ok |-> ok,
                    seen |-> Len(changes) - 1, content |-> file]

\* A command event, its verdict and, for the order of their timestamps, how
\* many changes were recorded before it; and what it ran on.
Event(ok) == [verify |-> call.action = Command("verify"), ok |-> ok,
              seen |-> Len(changes), content |-> file]

\* add_command_event, when the command has ended by itself
RecordCommand(ok) ==
  /\ pc = "audit"
  /\ ~IsWrite(call.action)
  /\ commands' = Append(commands, Event(ok))
  /\ dirty' = (dirty /\ ~(Event(ok).verify /\ ok))
  /\ pc' = "think"
  /\ call' = NoCall
  /\ UNCHANGED <<jobVars, requests, changes, file, now, decisions, envVars, effects,
                 strayed>>

\* The command is killed because its attempt is cancelled or the call has used
\* up its time: its event is recorded and the attempt ends.
KillCommand(s) ==
  /\ pc = "audit"
  /\ ~IsWrite(call.action)
  /\ commands' = Append(commands, Event(FALSE))
  /\ Settle(s)
  /\ Leave
  /\ UNCHANGED <<attempts, requests, changes, file, now, decisions, envVars, ghosts>>

\* The audit callback raises: the tool goes on with a warning in its answer.
AuditFails ==
  /\ pc = "audit"
  /\ faults < MaxFaults
  /\ faults' = faults + 1
  /\ strayed' = (strayed \/ IsWrite(call.action))
  /\ dirty' = (dirty /\ call.action # Command("verify"))
  /\ pc' = "think"
  /\ call' = NoCall
  /\ UNCHANGED <<jobVars, requests, logVars, file, now, decisions, effects, edits>>

-----------------------------------------------------------------------------
(* The end of an attempt.                                                  *)

\* Mutant: a verification counts whenever it was made.
VerifiedEver ==
  \/ changes = <<>>
  \/ \E i \in DOMAIN commands : commands[i].verify /\ commands[i].ok

\* has_successful_verification_after_last_change
Verified ==
  \/ changes = <<>>
  \/ \E i \in DOMAIN commands :
       /\ i + Window > Len(commands)
       /\ commands[i].verify /\ commands[i].ok
       /\ commands[i].seen = Len(changes)

Finish ==
  /\ pc = "think"
  /\ Settle(IF Verified THEN "completed" ELSE "blocked")
  /\ Leave
  /\ UNCHANGED <<attempts, requests, logVars, file, now, decisions, envVars, ghosts>>

Ends == {"blocked", "failed", "interrupted"}

\* A limit, a failure, a cancelled task: whatever the executor ended with.  An
\* authorized action that cannot be carried out fails the attempt; a command may
\* be cancelled while it is started or its output collected, and leaves no event.
End(s) ==
  /\ \/ pc = "think"
     \/ pc = "act" /\ (s = "failed" \/ ~IsWrite(call.action))
     \/ pc = "audit" /\ ~IsWrite(call.action)
  /\ Settle(s)
  /\ Leave
  /\ UNCHANGED <<attempts, requests, logVars, file, now, decisions, envVars, ghosts>>

Crash ==
  /\ pc # "dead"
  /\ faults < MaxFaults
  /\ faults' = faults + 1
  /\ strayed' = (strayed \/ (pc = "audit" /\ IsWrite(call.action)))
  /\ pc' = "dead"
  /\ call' = NoCall
  /\ UNCHANGED <<jobVars, requests, logVars, file, now, decisions, effects, dirty,
                 edits>>

Recover ==
  /\ pc = "dead"
  /\ Settle("interrupted")
  /\ Leave
  /\ UNCHANGED <<attempts, requests, logVars, file, now, decisions, envVars, ghosts>>

-----------------------------------------------------------------------------
(* Users, the schedule, editors and time.                                  *)

Requeue == status' = "queued" /\ attempts < MaxAttempts

Resume ==
  /\ status \in {"interrupted", "blocked"}
  /\ CheckpointHolds(1)
  /\ Requeue
  /\ UNCHANGED <<attempts, requests, logVars, file, now, execVars, decisions,
                 envVars, ghosts>>

RetryTrigger ==
  /\ status = "failed"
  /\ Requeue
  /\ UNCHANGED <<attempts, requests, logVars, file, now, execVars, decisions,
                 envVars, ghosts>>

\* Mutant: a cancel looks for pending requests only.
CancelPending ==
  /\ status \in {"queued", "running", "waiting_approval", "interrupted"}
  /\ status' = "cancelled"
  /\ requests' = [i \in Ids |-> IF Pending(i)
                                THEN [requests[i] EXCEPT !.status = "invalidated"]
                                ELSE requests[i]]
  /\ UNCHANGED <<attempts, logVars, file, now, execVars, decisions, envVars, ghosts>>

Cancel ==
  /\ status \in {"queued", "running", "waiting_approval", "interrupted"}
  /\ status' = "cancelled"
  /\ requests' = [i \in Ids |-> IF i \in Active
                                THEN [requests[i] EXCEPT !.status = "invalidated"]
                                ELSE requests[i]]
  /\ UNCHANGED <<attempts, logVars, file, now, execVars, decisions, envVars, ghosts>>

\* A user has seen request i; the user's process reads the clock.
Choose(i, approve) ==
  /\ Cardinality(decisions) < Deciders
  /\ Pending(i)
  /\ decisions' = decisions \cup {[id |-> i, approve |-> approve, stamp |-> now]}
  /\ UNCHANGED <<jobVars, requests, logVars, file, now, execVars, envVars, ghosts>>

Decided(i, s) == [requests EXCEPT ![i].status = s]

\* Mutant: the decision is for whatever request is pending.
DecideAny(d) ==
  /\ IF status # "waiting_approval"
       THEN UNCHANGED <<status, requests>>
       ELSE IF d.id \in Expired(d.stamp)
       THEN Requeue /\ requests' = Decided(d.id, "expired")
       ELSE IF d.approve
       THEN Requeue /\ requests' = Decided(d.id, "approved")
       ELSE status' = "blocked" /\ requests' = Decided(d.id, "rejected")
  /\ decisions' = decisions \ {d}
  /\ UNCHANGED <<attempts, logVars, file, now, execVars, envVars, ghosts>>

\* decide_approval: decision d is for a request that is still pending, or it is
\* for nothing.
Decide(d) ==
  /\ IF status # "waiting_approval" \/ ~Pending(d.id)
       THEN UNCHANGED <<status, requests>>
       ELSE IF d.id \in Expired(d.stamp)
       THEN Requeue /\ requests' = Decided(d.id, "expired")
       ELSE IF d.approve
       THEN Requeue /\ requests' = Decided(d.id, "approved")
       ELSE status' = "blocked" /\ requests' = Decided(d.id, "rejected")
  /\ decisions' = decisions \ {d}
  /\ UNCHANGED <<attempts, logVars, file, now, execVars, envVars, ghosts>>

\* Somebody else changes the file.
Edit(c) ==
  /\ edits < MaxEdits
  /\ c # file
  /\ file' = c
  /\ edits' = edits + 1
  /\ strayed' = (strayed \/ pc \in {"think", "ask", "act", "audit"})
  /\ UNCHANGED <<jobVars, requests, logVars, now, execVars, decisions, effects, dirty,
                 faults>>

\* A process that has read the clock gets the lock within Lag, or gives up.
Tick ==
  /\ now < MaxClock
  /\ pc = "ask" => now < call.stamp + Lag
  /\ \A d \in decisions : now < d.stamp + Lag
  /\ now' = now + 1
  /\ UNCHANGED <<jobVars, requests, logVars, file, execVars, decisions, envVars,
                 ghosts>>

GiveUp ==
  \/ /\ pc = "ask"
     /\ Settle("failed")
     /\ Leave
     /\ UNCHANGED <<attempts, requests, logVars, file, now, decisions, envVars, ghosts>>
  \/ \E d \in decisions :
     /\ decisions' = decisions \ {d}
     /\ UNCHANGED <<jobVars, requests, logVars, file, now, execVars, envVars, ghosts>>

-----------------------------------------------------------------------------
Attempt ==
  \/ Claim \/ Begin \/ NoticeCancel
  \/ \E a \in Actions : Propose(a)
  \/ \E i \in Ids : Authorize(i) \/ Request(i)
  \/ Refuse \/ Perform \/ RecordWrite
  \/ \E ok \in BOOLEAN : RecordCommand(ok)
  \/ AuditFails \/ Finish
  \/ \E s \in Ends : End(s) \/ KillCommand(s)

Next ==
  \/ Attempt \/ Crash \/ Recover
  \/ Resume \/ RetryTrigger \/ Cancel
  \/ \E d \in decisions : Decide(d)
  \/ \E i \in Ids, approve \in BOOLEAN : Choose(i, approve)
  \/ \E c \in Contents : Edit(c)
  \/ Tick \/ GiveUp

Spec == Init /\ [][Next]_vars

-----------------------------------------------------------------------------
(* Invariants.                                                             *)

Statuses == {"queued", "running", "waiting_approval", "completed", "failed",
             "blocked", "interrupted", "cancelled"}

RequestStatus == {"none", "pending", "approved", "rejected", "consumed",
                  "expired", "invalidated"}

Rows      == [status : RequestStatus, action : Actions \cup {NoAction}, expires : Nat]
Events    == [verify : BOOLEAN, ok : BOOLEAN, seen : Nat, content : Contents]
Calls     == [action : Actions \cup {NoAction}, stamp : Nat, id : Ids \cup {NoId}]
Decisions == [id : Ids, approve : BOOLEAN, stamp : Nat]

\* Every variable stays in its domain.
TypeOK ==
  /\ status \in Statuses
  /\ attempts \in Nat
  /\ requests \in [Ids -> Rows]
  /\ changes \in Seq(Writes)
  /\ commands \in Seq(Events)
  /\ file \in Contents
  /\ now \in Nat
  /\ pc \in {"idle", "begin", "think", "ask", "act", "audit", "dead"}
  /\ call \in Calls
  /\ decisions \subseteq Decisions
  /\ effects \in [Ids -> Seq(Actions)]
  /\ edits \in Nat /\ faults \in Nat
  /\ dirty \in BOOLEAN /\ strayed \in BOOLEAN

\* A job waits for approval exactly while one of its requests is pending: no
\* decision, expiry, cancel or late answer leaves a job waiting for nothing or
\* a request nobody waits for (store.py:1308-1596, 1861-1880).
WaitingHasRequest == status = "waiting_approval" <=> \E i \in Ids : Pending(i)

\* No request of a cancelled job can authorize anything any more
\* (docs/operations.md:572 "Expired and cancelled requests cannot authorize
\* an action").
CancelRevokes == status = "cancelled" => Active = {}

\* The recorded writes of a job follow on from each other, through waits,
\* restarts and edits between the attempts, unless somebody edited the file
\* during an attempt or a write went unrecorded (checkpoints.py:24-41).
HistoryChains ==
  ~strayed => \A k \in 2..Len(changes) : changes[k].before = changes[k - 1].after

\* With the same exceptions, a completed job verified, with success, exactly
\* the content it left in the file (store.py:1598-1630, runner.py:392-400).
CompletedIsVerified ==
  (status = "completed" /\ ~strayed /\ changes # <<>>) =>
    \E i \in DOMAIN commands :
      /\ commands[i].verify /\ commands[i].ok
      /\ commands[i].content = changes[Len(changes)].after

-----------------------------------------------------------------------------
(* What a step may never do.                                               *)

\* A request is granted and used before it expires, give or take the time a
\* transaction waits for its lock after it has read the clock.
FreshAuthorization ==
  [][\A i \in Ids :
       /\ requests[i].status # requests'[i].status
       /\ requests'[i].status \in {"approved", "consumed"}
       => now < requests[i].expires + Lag]_vars

\* Every approval is for one action and is used for it once, at most.
PermitOf(s) == CASE s = "none"     -> "none"
                 [] s = "pending"  -> "asked"
                 [] s = "approved" -> "granted"
                 [] s = "consumed" -> "used"
                 [] OTHER          -> "void"

Permits == INSTANCE ExactApproval
             WITH permit  <- [i \in Ids |-> PermitOf(requests[i].status)],
                  purpose <- [i \in Ids |-> requests[i].action],
                  effect  <- effects

PermitSpec == Permits!Spec

-----------------------------------------------------------------------------
(* What the documentation says and the code does not do.                   *)

\* docs/operations.md:111-112 "verification after writes ... still apply in the
\* worker": a job that completed has verified whatever it wrote.
WritesVerified == status = "completed" => ~dirty
=============================================================================
