------------------------------ MODULE Budgets ------------------------------
(***************************************************************************)
(* What a job and its subtasks may spend: tokens and tool calls, counted   *)
(* in the rows of jobs, tool_events and daily_usage, checked by the        *)
(* closures of JobRunner.run before each model call and each tool call,    *)
(* and carved out of the parent's limits by create_subtask.                *)
(*                                                                         *)
(* A subtask of amount a has a.tokens and a.calls for its limits for good; *)
(* the parent counts them as spent.  The totals of an attempt reach its    *)
(* row when its progress is emitted and not before, and the row of a       *)
(* cancelled job takes none.  The attempts of one job do not overlap (which *)
(* AutomationWorker shows for the default concurrency of one), and the day *)
(* does not end.                                                           *)
(***************************************************************************)
EXTENDS Integers, FiniteSets

CONSTANTS
  Master,         \* the job that delegates
  Subtasks,       \* the keys of its subtasks
  MasterLimit,    \* [tokens, calls]: its ExecutionLimits
  Amounts,        \* the limits a subtask may be created with
  DailyQuota,     \* daily_token_quota
  MaxSubtasks,    \* 8 in create_subtask
  RetryDelays,    \* len(retry_delays)
  MaxCorrections, \* MAX_LANGUAGE_CORRECTIONS
  MaxAnswer,      \* bound: tokens of one answer of the model
  MaxClaims       \* bound: attempts of all these jobs

ASSUME BudgetAssumption ==
  /\ Master \notin Subtasks /\ IsFiniteSet(Subtasks)
  /\ {MasterLimit} \cup Amounts \subseteq [tokens : Nat \ {0}, calls : Nat \ {0}]
  /\ DailyQuota \in Nat \ {0} /\ MaxSubtasks \in Nat /\ RetryDelays \in Nat
  /\ MaxCorrections \in Nat /\ MaxAnswer \in Nat \ {0} /\ MaxClaims \in Nat

Spenders == Subtasks \cup {Master}

VARIABLES
  stage,      \* stage[j]: where job j stands, or its attempt if it has one
  limit,      \* limit[j]: its ExecutionLimits; of a subtask, its reservation
  pass,       \* pass[j]: what an attempt keeps while it executes, see NoPass
  void,       \* the jobs whose row is "cancelled", executing or not
  counted,    \* counted[j]: prompt_tokens + output_tokens of its row
  called,     \* called[j]: its rows in tool_events
  claimed,    \* claimed[j]: attempt_count
  retried,    \* retried[j]: retry_count
  daily,      \* daily_usage.tokens of the day
  spent,      \* ghost: spent[j]: the tokens its answers took
  late,       \* ghost: late[j]: those no row counts, for a cancel or a dead worker
  dropped     \* ghost: the jobs whose counter was overwritten with less

countVars  == <<counted, daily, spent, late, dropped>>
rowVars    == <<limit, void, called, claimed, retried>>
budgetVars == <<stage, pass, rowVars, countVars>>

NoLimit == [tokens |-> 0, calls |-> 0]

\* base: base_prompt_tokens + base_output_tokens; tokens and calls: what the
\* model loop has counted (RequestProgress, AgentState.tool_calls); left: the
\* corrections of its language the final answer may still have; allowance:
\* max_tokens and max_tool_calls of attempt_context.
NoPass == [base |-> 0, tokens |-> 0, calls |-> 0, left |-> 0, allowance |-> NoLimit]

BudgetInit ==
  /\ stage = [j \in Spenders |-> IF j = Master THEN "queued" ELSE "absent"]
  /\ limit = [j \in Spenders |-> IF j = Master THEN MasterLimit ELSE NoLimit]
  /\ pass = [j \in Spenders |-> NoPass]
  /\ void = {}
  /\ counted = [j \in Spenders |-> 0] /\ called = [j \in Spenders |-> 0]
  /\ claimed = [j \in Spenders |-> 0] /\ retried = [j \in Spenders |-> 0]
  /\ daily = 0
  /\ spent = [j \in Spenders |-> 0] /\ late = [j \in Spenders |-> 0]
  /\ dropped = {}

-----------------------------------------------------------------------------
(* Counters.                                                               *)

\* The sum of what f gives the members of S, counted unit by unit.
Units(f, S) == UNION {{j} \X (1 .. f[j]) : j \in S}
Total(f, S) == Cardinality(Units(f, S))

Shares(what) == [c \in Subtasks |-> limit[c][what]]

\* Mutant: a subtask that has ended gives its reservation back.
ReservedUntilEnded(j, what) ==
  LET ended == {"completed", "blocked", "failed", "interrupted", "cancelled"} IN
  IF j = Master THEN Total(Shares(what), {c \in Subtasks : stage[c] \notin ended}) ELSE 0

\* reserved_budget
Reserved(j, what) == IF j = Master THEN Total(Shares(what), Subtasks) ELSE 0

\* base plus what the attempt has counted itself: what it would save.
Sum(j) == pass[j].base + pass[j].tokens

\* An answer of "took" tokens (0: none) is counted and saved, and then the row
\* is written again with "kept".  update_job_usage passes a cancelled row by;
\* the trigger job_token_usage adds what is more to the day.
Count(j, took, kept) ==
  LET sum == Sum(j) + took IN
  /\ spent' = [spent EXCEPT ![j] = @ + took]
  /\ IF j \in void
     THEN /\ late' = [late EXCEPT ![j] = @ + took]
          /\ UNCHANGED <<counted, daily, dropped>>
     ELSE /\ counted' = [counted EXCEPT ![j] = kept]
          /\ daily' = IF sum > counted[j] THEN daily + sum - counted[j] ELSE daily
          /\ dropped' = IF kept < sum THEN dropped \cup {j} ELSE dropped
          /\ UNCHANGED late

Save(j) == Count(j, 0, Sum(j))

\* budget_check, of a job that is not cancelled
Exhausted(j, pendingTool, pendingModel) ==
  \/ counted[j] + Reserved(j, "tokens") + pendingModel > limit[j].tokens
  \/ called[j] + pendingTool + Reserved(j, "calls") > limit[j].calls
  \/ daily + pendingModel > DailyQuota

\* limit_reason, of a model loop that has counted "tokens" and "calls".
OverAllowance(j, tokens, calls) ==
  tokens > pass[j].allowance.tokens \/ calls > pass[j].allowance.calls

At(j, where) == stage[j] = where

Goto(j, where) == stage' = [stage EXCEPT ![j] = where]
Stay(j, where) == Goto(j, where) /\ UNCHANGED pass

\* What an attempt reports of a cancelled job changes nothing.
EndPass(j, where) ==
  /\ Goto(j, IF j \in void THEN "cancelled" ELSE where)
  /\ pass' = [pass EXCEPT ![j] = NoPass]

-----------------------------------------------------------------------------
(* An attempt.  budget_check ends it when it finds the job cancelled.      *)

ClaimSpender(j) ==
  /\ At(j, "queued") /\ daily < DailyQuota /\ Total(claimed, Spenders) < MaxClaims
  /\ Goto(j, "head")
  /\ claimed' = [claimed EXCEPT ![j] = @ + 1]
  /\ pass' = [pass EXCEPT ![j] = [NoPass EXCEPT !.base = counted[j]]]
  /\ UNCHANGED <<limit, void, called, retried, countVars>>

\* The head of the loop of JobRunner.run, for the first time and after a retry.
BeginPass(j) ==
  LET left == [tokens |-> limit[j].tokens - pass[j].base - Reserved(j, "tokens"),
               calls  |-> limit[j].calls - called[j] - Reserved(j, "calls")]
  IN
  /\ At(j, "head")
  /\ IF j \in void \/ Exhausted(j, 0, 0) \/ left.tokens <= 0 \/ left.calls <= 0
     THEN EndPass(j, "blocked")
     ELSE Goto(j, "turn") /\ pass' = [pass EXCEPT ![j].allowance = left]
  /\ UNCHANGED <<rowVars, countVars>>

AskWithinBudget(j) ==
  /\ At(j, "turn")
  /\ IF j \in void \/ Exhausted(j, 0, 1) \/ OverAllowance(j, pass[j].tokens, pass[j].calls)
     THEN EndPass(j, "blocked") ELSE Stay(j, "asked")
  /\ UNCHANGED <<rowVars, countVars>>

\* save_progress has counted the answer when the limits are looked at again.
AnswerCosts(j, tokens) ==
  LET sum == Sum(j) + tokens IN
  /\ At(j, "asked")
  /\ Count(j, tokens, sum)
  /\ IF \/ j \in void
        \/ sum + Reserved(j, "tokens") > limit[j].tokens
        \/ daily' > DailyQuota
        \/ OverAllowance(j, pass[j].tokens + tokens, pass[j].calls)
     THEN EndPass(j, "blocked")
     ELSE /\ pass' = [pass EXCEPT ![j].tokens = @ + tokens, ![j].left = MaxCorrections]
          /\ \E next \in {"tool", "final"} : Goto(j, next)
  /\ UNCHANGED rowVars

\* enforce_reply_language: the final answer is in another language.  What was
\* counted so far is saved, and the model is asked, within budget or not.
AskCorrection(j) ==
  /\ At(j, "final") /\ pass[j].left > 0
  /\ Save(j)
  /\ Goto(j, "correcting")
  /\ pass' = [pass EXCEPT ![j].left = @ - 1]
  /\ UNCHANGED rowVars

\* record_usage alone: the row does not know of the answer yet.
CorrectionCosts(j, tokens) ==
  /\ At(j, "correcting")
  /\ Goto(j, "final")
  /\ pass' = [pass EXCEPT ![j].tokens = @ + tokens]
  /\ spent' = [spent EXCEPT ![j] = @ + tokens]
  /\ late' = IF j \in void THEN [late EXCEPT ![j] = @ + tokens] ELSE late
  /\ UNCHANGED <<rowVars, counted, daily, dropped>>

\* The heartbeat emits what was counted so far.
Heartbeat(j) ==
  /\ stage[j] \in {"final", "correcting"}
  /\ Save(j)
  /\ UNCHANGED <<stage, pass, rowVars>>

\* The provider fails: again after a delay, if nothing was changed, or for good.
ModelUnavailable(j, transient) ==
  /\ stage[j] \in {"asked", "correcting"}
  /\ IF transient /\ retried[j] < RetryDelays
     THEN /\ Goto(j, "head")
          /\ retried' = IF j \in void THEN retried ELSE [retried EXCEPT ![j] = @ + 1]
          /\ pass' = [pass EXCEPT ![j] = [NoPass EXCEPT !.base = Sum(j)]]
     ELSE EndPass(j, "failed") /\ UNCHANGED retried
  /\ Save(j)
  /\ UNCHANGED <<limit, void, called, claimed>>

CallWithinBudget(j) ==
  /\ At(j, "tool")
  /\ IF j \in void \/ Exhausted(j, 1, 0) \/ OverAllowance(j, pass[j].tokens, pass[j].calls + 1)
     THEN EndPass(j, "blocked")
     ELSE Goto(j, "call") /\ pass' = [pass EXCEPT ![j].calls = @ + 1]
  /\ UNCHANGED <<rowVars, countVars>>

\* add_tool_event; then the next call of the same answer, or the next turn.
CallEnds(j) ==
  /\ At(j, "call")
  /\ called' = [called EXCEPT ![j] = @ + 1]
  /\ \E next \in {"tool", "turn"} : Stay(j, next)
  /\ UNCHANGED <<limit, void, claimed, retried, countVars>>

\* A call that needs an approval leaves no event; it is made again when approved.
CallSuspended(j) ==
  /\ At(j, "call") /\ j \notin void
  /\ EndPass(j, "waiting_approval")
  /\ UNCHANGED <<rowVars, countVars>>

Existing == {c \in Subtasks : stage[c] # "absent"}

\* Within a tool call of the parent, which will be counted.
CreateShare(c, amount) ==
  LET used == [tokens |-> counted[Master], calls |-> called[Master] + 1] IN
  /\ At(Master, "call") /\ Master \notin void /\ At(c, "absent")
  /\ Cardinality(Existing) < MaxSubtasks
  /\ \A what \in DOMAIN amount :
       amount[what] + Reserved(Master, what) + used[what] < limit[Master][what]
  /\ Stay(c, "queued")
  /\ limit' = [limit EXCEPT ![c] = amount]
  /\ UNCHANGED <<void, called, claimed, retried, countVars>>

\* The corrections are over: the loop looks at its limits, everything is saved,
\* and the runner looks at the budget before it writes its verdict.
AttemptCompletes(j) ==
  /\ At(j, "final")
  /\ Save(j)
  /\ EndPass(j, IF \/ Sum(j) + Reserved(j, "tokens") > limit[j].tokens
                   \/ called[j] + Reserved(j, "calls") > limit[j].calls
                   \/ daily' > DailyQuota
                   \/ OverAllowance(j, pass[j].tokens, pass[j].calls)
                THEN "blocked"
                ELSE IF j = Master /\ \E c \in Existing : stage[c] # "completed" THEN "waiting_children"
                ELSE "completed")
  /\ UNCHANGED rowVars

-----------------------------------------------------------------------------
(* Other ends.                                                             *)

Executing == {"turn", "asked", "tool", "call", "final", "correcting"}

\* A failed call, a limit of the loop, a missing verification, an open plan.
AttemptStops(j, how) ==
  /\ stage[j] \in Executing
  /\ Save(j)
  /\ EndPass(j, how)
  /\ UNCHANGED rowVars

\* The timeout of JobRunner.run: its result has no tokens.
AttemptTimesOut(j) ==
  /\ stage[j] \in Executing
  /\ EndPass(j, "blocked")
  /\ Count(j, 0, pass[j].base)
  /\ UNCHANGED rowVars

\* An exception: fail_job without tokens, by the runner or by the worker.
AttemptRaises(j) ==
  /\ stage[j] \in {"head", "final"}
  /\ EndPass(j, "failed")
  /\ Count(j, 0, 0)
  /\ UNCHANGED rowVars

\* A worker that stops cancels the attempt, which emits its totals; so does a
\* worker that learns of a cancelled job.
AttemptInterrupted(j) ==
  /\ stage[j] \in Executing \cup {"head"}
  /\ Save(j)
  /\ EndPass(j, "interrupted")
  /\ UNCHANGED rowVars

\* What an attempt has counted and its row, which is not cancelled, has not.
Unsaved(j) == IF stage[j] \in {"final", "correcting"} /\ j \notin void THEN Sum(j) - counted[j] ELSE 0

\* A worker that dies.
AttemptDies(j) ==
  /\ stage[j] \in Executing
  /\ EndPass(j, "interrupted")
  /\ late' = [late EXCEPT ![j] = @ + Unsaved(j)]
  /\ UNCHANGED <<rowVars, counted, daily, spent, dropped>>

\* cancel_job: the row of the job and of all its subtasks that may be cancelled.
\* What executes goes on until it finds out.
Voided(j) == {k \in Spenders : /\ k = j \/ j = Master
                              /\ k \notin void
                              /\ stage[k] \in Executing \cup {"head", "queued", "waiting_approval",
                                                            "waiting_children", "interrupted"}}

CancelSpender(j) ==
  /\ j \in Voided(j)
  /\ void' = void \cup Voided(j)
  /\ stage' = [k \in Spenders |-> IF k \in Voided(j) /\ stage[k] \notin Executing \cup {"head"}
                                THEN "cancelled" ELSE stage[k]]
  /\ late' = [k \in Spenders |-> IF k \in Voided(j) THEN late[k] + Unsaved(k) ELSE late[k]]
  /\ UNCHANGED <<pass, limit, called, claimed, retried, counted, daily, spent, dropped>>

\* resume_job, the approval of what the job waits for, or the retry of an
\* occurrence of a schedule.
RequeueSpender(j) ==
  /\ \/ stage[j] \in {"blocked", "interrupted", "waiting_approval"}
     \/ j = Master /\ At(j, "failed")
  /\ Stay(j, "queued")
  /\ UNCHANGED <<rowVars, countVars>>

\* reconcile_children
JoinShares ==
  /\ At(Master, "waiting_children")
  /\ \/ /\ \E c \in Existing : c \in void \/ stage[c] \in {"failed", "blocked", "interrupted"}
        /\ Stay(Master, "blocked")
     \/ /\ \A c \in Existing : stage[c] = "completed"
        /\ Stay(Master, "queued")
  /\ UNCHANGED <<rowVars, countVars>>

-----------------------------------------------------------------------------
BudgetNext ==
  \/ \E j \in Spenders :
       \/ ClaimSpender(j) \/ BeginPass(j) \/ AskWithinBudget(j)
       \/ \E tokens \in 1 .. MaxAnswer : AnswerCosts(j, tokens) \/ CorrectionCosts(j, tokens)
       \/ AskCorrection(j) \/ Heartbeat(j)
       \/ \E transient \in BOOLEAN : ModelUnavailable(j, transient)
       \/ CallWithinBudget(j) \/ CallEnds(j) \/ CallSuspended(j)
       \/ AttemptCompletes(j) \/ AttemptTimesOut(j) \/ AttemptRaises(j)
       \/ \E how \in {"failed", "blocked"} : AttemptStops(j, how)
       \/ AttemptInterrupted(j) \/ AttemptDies(j) \/ CancelSpender(j) \/ RequeueSpender(j)
  \/ \E c \in Subtasks, amount \in Amounts : CreateShare(c, amount)
  \/ JoinShares

BudgetSpec == BudgetInit /\ [][BudgetNext]_budgetVars

-----------------------------------------------------------------------------
(* Properties.                                                             *)

BudgetTypeOK ==
  /\ stage \in [Spenders -> {"absent", "queued", "head", "waiting_approval", "waiting_children", "blocked",
                             "failed", "interrupted", "completed", "cancelled"} \cup Executing]
  /\ limit \in [Spenders -> {NoLimit, MasterLimit} \cup Amounts]
  /\ \A f \in {counted, called, claimed, retried, spent, late} : f \in [Spenders -> Nat]
  /\ pass \in [Spenders -> [base : Nat, tokens : Nat, calls : Nat, left : 0 .. MaxCorrections,
                            allowance : [tokens : Nat, calls : Nat]]]
  /\ \A j \in Spenders : pass[j] # NoPass => stage[j] \in Executing \cup {"head"}
  /\ daily \in Nat /\ dropped \subseteq Spenders /\ void \subseteq Spenders

\* By how much an attempt may pass its limit: with its last answer, which is
\* asked for while a token is left, or with the corrections of it, which are
\* asked for in any case.
Overshoot == IF MaxCorrections = 0 THEN MaxAnswer - 1 ELSE MaxCorrections * MaxAnswer

\* What the answers under way may take when nobody counts them any more.
Unstopped == IF MaxCorrections = 0 THEN MaxAnswer ELSE MaxCorrections * MaxAnswer

(* A job and its subtasks together make no more tool calls than the job    *)
(* alone may, and as long as no counter was overwritten their tokens, but   *)
(* for those no row counts, exceed the job's for each of them by its last   *)
(* answer or by the corrections of that (create_subtask, budget_check,     *)
(* enforce_reply_language; docs/operations.md, "Subtasks, permissions and   *)
(* budgets").                                                              *)
FamilyWithinLimits ==
  /\ Total(called, Spenders) <= MasterLimit.calls
  /\ dropped = {} => Total([j \in Spenders |-> spent[j] - late[j]], Spenders)
                       <= MasterLimit.tokens + (Cardinality(Existing) + 1) * Overshoot

(* The day's usage is what all answers took, whatever becomes of the       *)
(* counters of the jobs, but for those no row counts: of a cancelled job    *)
(* and of a worker that died over a corrected answer, each time no more    *)
(* than one attempt has under way; and for corrections that are about to   *)
(* be saved.  It exceeds the quota by the answers under way at most         *)
(* (job_token_usage).  A job's counter is what its answers took, over all  *)
(* attempts and retries, with the same exceptions, until a timeout or an   *)
(* exception overwrites it.                                                *)
UsageAccounted ==
  LET unseen == [j \in Spenders |-> late[j] + Unsaved(j)] IN
  /\ daily + Total(unseen, Spenders) = Total(spent, Spenders)
  /\ daily < DailyQuota + Cardinality(Spenders) * ((MaxCorrections + 1) * MaxAnswer)
  /\ \A j \in Spenders \ dropped : counted[j] + unseen[j] = spent[j]
  /\ \A j \in Spenders : late[j] <= claimed[j] * Unstopped

(* docs/operations.md: metrics "retain cumulative ... total tokens".       *)
TokensCumulative == [][\A j \in Spenders : counted'[j] >= counted[j]]_budgetVars

(* What a family of jobs takes is bounded, and is all accounted for.       *)
BudgetsHold == FamilyWithinLimits /\ UsageAccounted
=============================================================================
