---------------------------- MODULE AgentRuntime ----------------------------
(***************************************************************************)
(* One run of the bounded agent loop: AgentRuntime.run with the hooks of   *)
(* ModelToolLoop, the PermissionEngine, the ToolExecutor, and the          *)
(* ApprovalBroker that hands a request to the user.                        *)
(*                                                                         *)
(* A step reaches from one await at which the run can suspend to the next; *)
(* "trail" keeps the RunStates it went through.  Between the steps         *)
(* the user answers, time runs out, and the run may be cancelled.          *)
(***************************************************************************)
EXTENDS Integers, Sequences, FiniteSets

CONSTANTS
  Tools,           \* registered tools
  Rule,            \* Rule[t]: what the policy says of t
  MaxIterations,   \* ExecutionLimits
  MaxToolCalls,
  RepeatLimit,
  MayAsk,          \* CLARIFICATIONS_ENABLED: ask_user is handled
  MaxCallsPerTurn  \* bound: tool calls in one answer of the model

ASSUME RuntimeAssumption ==
  /\ Rule \in [Tools -> {"allow", "require_approval", "deny"}]
  /\ MayAsk \in BOOLEAN
  /\ MaxIterations \in Nat \ {0} /\ MaxToolCalls \in Nat \ {0}
  /\ RepeatLimit \in Nat \ {0} /\ MaxCallsPerTurn \in Nat \ {0}

VARIABLES
  trail,      \* AgentState.status: its values in the last step, the latest last
  point,      \* where the run is suspended, or "over"
  iteration,
  toolCalls,  \* AgentState.tool_calls
  calls,      \* the calls of the model's answer that are not finished
  counts,     \* tool_counts: how often each call was asked for
  thread,     \* messages: the roles, an assistant message with its number of calls
  saved,      \* what append_exchange has written to the session
  ending,     \* what a call that is being reported will end the run with
  asked,      \* the approval request: "none", "open", or the answer submitted to it
  expired,    \* is the request's time over?
  ran,        \* ghost: tool executions begun, each with the grant it had
  outcome     \* what run() returned or raised

runtimeVars == <<trail, point, iteration, toolCalls, calls, counts, thread, saved, ending,
                 asked, expired, ran, outcome>>
loopVars == <<iteration, toolCalls, calls, counts>>
textVars == <<thread, saved>>
askVars  == <<asked, expired>>

RunState == {"idle", "preparing", "thinking", "action_requested", "authorizing", "executing",
             "observing", "completed", "failed", "cancelled", "waiting_for_approval", "waiting_for_input"}

\* _ALLOWED: what AgentState.transition does not refuse.
Allowed(from) ==
  CASE from = "idle" -> {"preparing", "cancelled"}
    [] from = "preparing" -> {"thinking", "failed", "cancelled"}
    [] from = "thinking" -> {"action_requested", "completed", "failed", "cancelled", "waiting_for_input"}
    [] from = "action_requested" -> {"authorizing", "failed", "cancelled", "waiting_for_input"}
    [] from = "authorizing" -> {"executing", "failed", "cancelled", "waiting_for_approval", "waiting_for_input"}
    [] from = "executing" -> {"observing", "failed", "cancelled", "waiting_for_approval"}
    [] from = "observing" -> {"thinking", "action_requested", "failed", "cancelled"}
    [] OTHER -> {}

State == trail[Len(trail)]

\* What the model may ask for: a tool, with arguments that validate or not,
\* or a name that is not registered.
Requests == [tool : Tools, valid : BOOLEAN] \cup {[tool |-> "unknown", valid |-> TRUE]}

RuntimeInit ==
  /\ trail = <<"idle">>
  /\ point = "start"
  /\ iteration = 0 /\ toolCalls = 0
  /\ calls = <<>>
  /\ counts = [q \in Requests |-> 0]
  /\ thread = <<>> /\ saved = <<>>
  /\ ending = "none"
  /\ asked = "none" /\ expired = FALSE
  /\ ran = <<>>
  /\ outcome = "none"

-----------------------------------------------------------------------------
(* Ends of a run.                                                          *)

\* The states the step goes through, after the one it starts in.
Through(states) == trail' = <<State>> \o states

Over(result) == point' = "over" /\ outcome' = result /\ UNCHANGED ending

\* _stop
Stop(before, result) ==
  /\ Through(before \o <<"failed">>)
  /\ Over(result)

\* on_tool_finished is awaited before the run stops.
Report(before, result) ==
  /\ Through(before)
  /\ point' = "report" /\ ending' = result
  /\ UNCHANGED outcome

Suspend(before, where) ==
  /\ Through(before)
  /\ point' = where
  /\ UNCHANGED <<ending, outcome>>

-----------------------------------------------------------------------------
(* The model.  "limited" is what limit_reason says: an elapsed time, a     *)
(* token limit or a job's budget, none of which the loop controls.         *)

Start ==
  /\ point = "start"
  /\ Suspend(<<"preparing">>, "turn")
  /\ UNCHANGED <<loopVars, textVars, askVars, ran>>

\* From the head of the loop to the request to the model.
AskModel(limited) ==
  /\ point = "turn"
  /\ IF iteration = MaxIterations
     THEN Stop(<<>>, "failed") /\ UNCHANGED iteration
     ELSE /\ iteration' = iteration + 1
          /\ IF limited THEN Stop(<<>>, "blocked") ELSE Suspend(<<"thinking">>, "model")
  /\ UNCHANGED <<toolCalls, calls, counts, textVars, askVars, ran>>

ModelRaises ==
  /\ point = "model"
  /\ Stop(<<>>, "raised")
  /\ UNCHANGED <<loopVars, textVars, askVars, ran>>

\* An answer without calls; "empty" if it has no text either.
ModelAnswers(limited, empty) ==
  /\ point = "model"
  /\ IF limited THEN Stop(<<>>, "blocked")
     ELSE IF empty THEN Stop(<<>>, "failed")
     ELSE Suspend(<<>>, "final")
  /\ UNCHANGED <<loopVars, textVars, askVars, ran>>

ModelCalls(requests) ==
  /\ point = "model"
  /\ Suspend(<<>>, "call")
  /\ calls' = requests
  /\ thread' = Append(thread, [role |-> "assistant", calls |-> Len(requests)])
  /\ UNCHANGED <<iteration, toolCalls, counts, saved, askVars, ran>>

\* on_final: the answer, a reminder that was not created, a limit, an error.
\* A run whose last event is not recorded raises, completed though it is.
Finalize(result, recorded) ==
  /\ point = "final"
  /\ IF result = "completed"
     THEN Through(<<"completed">>) /\ Over(IF recorded THEN "completed" ELSE "raised")
     ELSE Stop(<<>>, result)
  /\ UNCHANGED <<loopVars, textVars, askVars, ran>>

-----------------------------------------------------------------------------
(* A tool call.                                                            *)

WithinCalls(n) == n <= MaxToolCalls

\* From the request to the first await: a verdict, or a question to the user.
Consider(limited, permitted) ==
  LET q == Head(calls)
      seen == counts[q] + 1
      asking == <<"action_requested">>
      checking == <<"action_requested", "authorizing">>
      stopped == limited \/ ~WithinCalls(toolCalls + 1)
  IN
  /\ point = "call"
  /\ toolCalls' = toolCalls + 1
  /\ counts' = IF stopped THEN counts ELSE [counts EXCEPT ![q] = seen]
  /\ IF stopped THEN Stop(asking, "blocked")
     ELSE IF seen >= RepeatLimit THEN Report(asking, "blocked")
     ELSE IF q.tool = "unknown" THEN Report(checking, "blocked")
     ELSE IF ~q.valid THEN Report(checking, "failed")
     ELSE IF Rule[q.tool] = "require_approval" THEN Suspend(checking, "approval")
     ELSE IF Rule[q.tool] = "allow" /\ permitted THEN Suspend(checking, "request")
     ELSE Report(checking, "blocked")
  /\ IF point' = "approval" THEN asked' = "open" /\ expired' = FALSE ELSE UNCHANGED askVars
  /\ UNCHANGED <<iteration, calls, textVars, ran>>

\* ApprovalBroker.submit, before the request expires.
Submit(choice) ==
  /\ point = "approval" /\ asked = "open" /\ ~expired
  /\ asked' = choice
  /\ UNCHANGED <<trail, point, loopVars, textVars, ending, expired, ran, outcome>>

\* ApprovalBroker.cancel_run
DenyOpenRequest ==
  /\ point = "approval" /\ asked = "open"
  /\ asked' = "deny"
  /\ UNCHANGED <<trail, point, loopVars, textVars, ending, expired, ran, outcome>>

\* The timer, which may beat the task to an answer that was given in time.
Expire ==
  /\ point = "approval" /\ ~expired
  /\ expired' = TRUE
  /\ UNCHANGED <<trail, point, loopVars, textVars, ending, asked, ran, outcome>>

\* Mutant: a request that was not denied is granted.
GrantedUnlessDenied == asked # "deny"

\* apply_approval
GrantedByAnswer == asked = "allow_once" /\ ~expired

\* request() returns: an answer, or "deny" when its time is over.
Answered(permitted) ==
  /\ point = "approval" /\ (asked # "open" \/ expired)
  /\ IF GrantedByAnswer /\ permitted THEN Suspend(<<>>, "request") ELSE Report(<<>>, "blocked")
  /\ UNCHANGED <<loopVars, textVars, askVars, ran>>

Grant(t) == IF Rule[t] = "require_approval" THEN asked ELSE Rule[t]

\* on_tool_requested, then the start of the tool.
BeginTool(limited) ==
  /\ point = "request"
  /\ IF limited THEN Stop(<<>>, "blocked") /\ UNCHANGED ran
     ELSE /\ Suspend(<<"executing">>, "tool")
          /\ ran' = Append(ran, [request |-> Head(calls), grant |-> Grant(Head(calls).tool), expired |-> expired])
  /\ UNCHANGED <<loopVars, textVars, askVars>>

\* ask_user ends the run with a question, or with "failed" if it asks wrongly.
\* If the event is not recorded the handler asks for "failed", which is refused.
AskUser(wellFormed, recorded) ==
  /\ MayAsk /\ point = "request"
  /\ IF ~wellFormed THEN Stop(<<>>, "failed")
     ELSE IF recorded THEN Through(<<"waiting_for_input">>) /\ Over("waiting_input")
     ELSE Through(<<"waiting_for_input", "failed">>) /\ Over("raised")
  /\ UNCHANGED <<loopVars, textVars, askVars, ran>>

ToolFails(result) ==
  /\ point = "tool"
  /\ Report(<<>>, result)
  /\ UNCHANGED <<loopVars, textVars, askVars, ran>>

\* Exceptions that pass through: a job's approval, a job's limit.
ToolPasses(needsApproval) ==
  /\ point = "tool"
  /\ IF needsApproval THEN Through(<<"waiting_for_approval">>) /\ Over("raised") ELSE Stop(<<>>, "raised")
  /\ UNCHANGED <<loopVars, textVars, askVars, ran>>

ToolFinishes ==
  /\ point = "tool"
  /\ Suspend(<<>>, "finished")
  /\ UNCHANGED <<loopVars, textVars, askVars, ran>>

\* append_exchange: the assistant message with all of its observations.
Exchange(rest, said) ==
  IF rest # <<>> THEN saved
  ELSE LET first == CHOOSE i \in DOMAIN said :
                      said[i].role = "assistant" /\ \A j \in i + 1 .. Len(said) : said[j].role = "tool"
       IN saved \o SubSeq(said, first, Len(said))

\* The observation; then the next call, or the next turn.
Observe ==
  LET said == Append(thread, [role |-> "tool", calls |-> 0]) IN
  /\ point = "finished"
  /\ Suspend(<<"observing">>, IF Len(calls) > 1 THEN "call" ELSE "turn")
  /\ calls' = Tail(calls)
  /\ thread' = said
  /\ saved' = Exchange(Tail(calls), said)
  /\ UNCHANGED <<iteration, toolCalls, counts, askVars, ran>>

Reported ==
  /\ point = "report"
  /\ Stop(<<>>, ending)
  /\ UNCHANGED <<loopVars, textVars, askVars, ran>>

\* task.cancel(), delivered where the run is suspended.
Cancelled ==
  /\ point \in {"model", "final", "approval", "request", "tool", "finished", "report"}
  /\ Through(<<"cancelled">>)
  /\ Over("cancelled")
  /\ UNCHANGED <<loopVars, textVars, askVars, ran>>

\* A hook raises: storage, progress or the sink of tool events.
HookRaises ==
  /\ point \in {"turn", "model", "call", "final", "request", "finished", "report"}
  /\ Stop(<<>>, "raised")
  /\ UNCHANGED <<loopVars, textVars, askVars, ran>>

-----------------------------------------------------------------------------
RunStep ==
  \/ Start
  \/ \E limited \in BOOLEAN :
       \/ AskModel(limited)
       \/ \E empty \in BOOLEAN : ModelAnswers(limited, empty)
       \/ \E permitted \in BOOLEAN : Consider(limited, permitted)
       \/ BeginTool(limited)
  \/ \E n \in 1 .. MaxCallsPerTurn : \E requests \in [1 .. n -> Requests] : ModelCalls(requests)
  \/ \E result \in {"completed", "failed", "blocked", "raised"}, recorded \in BOOLEAN : Finalize(result, recorded)
  \/ \E permitted \in BOOLEAN : Answered(permitted)
  \/ \E wellFormed, recorded \in BOOLEAN : AskUser(wellFormed, recorded)
  \/ \E result \in {"failed", "timed_out"} : ToolFails(result)
  \/ \E needsApproval \in BOOLEAN : ToolPasses(needsApproval)
  \/ ModelRaises \/ ToolFinishes \/ Observe \/ Reported

AnswerStep == DenyOpenRequest \/ Expire \/ \E choice \in {"allow_once", "deny"} : Submit(choice)

RuntimeNext == RunStep \/ AnswerStep \/ Cancelled \/ HookRaises

RuntimeSpec == RuntimeInit /\ [][RuntimeNext]_runtimeVars

-----------------------------------------------------------------------------
(* Properties.                                                             *)

RuntimeTypeOK ==
  /\ trail \in Seq(RunState) /\ trail # <<>>
  /\ point \in {"start", "turn", "model", "final", "call", "approval", "request", "tool",
                "finished", "report", "over"}
  /\ iteration \in 0 .. MaxIterations /\ toolCalls \in Nat
  /\ calls \in Seq(Requests) /\ counts \in [Requests -> Nat]
  /\ asked \in {"none", "open", "allow_once", "deny"} /\ expired \in BOOLEAN

(* No step of a run asks AgentState.transition for a transition it refuses *)
(* with a ValueError (agent/state.py), except the one that is to report    *)
(* that the question to the user could not be recorded.                    *)
LegalTransitions ==
  \A i \in 1 .. Len(trail) - 1 :
    trail[i + 1] \in Allowed(trail[i]) \/ (trail[i] = "waiting_for_input" /\ outcome = "raised")

(* A tool that needs approval begins only on an answer "allow_once" to its *)
(* own request, submitted before the request expired, and a denied tool    *)
(* never (ApprovalBroker.request, ToolExecutor.authorize).                 *)
RunsOnGrant ==
  \A i \in DOMAIN ran :
    CASE Rule[ran[i].request.tool] = "allow" -> TRUE
      [] Rule[ran[i].request.tool] = "require_approval" -> ran[i].grant = "allow_once" /\ ~ran[i].expired
      [] OTHER -> FALSE

(* A run begins at most MaxToolCalls tools, and the same call fewer times  *)
(* than RepeatLimit.                                                       *)
CallsBounded ==
  /\ Len(ran) <= MaxToolCalls
  /\ \A q \in Requests : Cardinality({i \in DOMAIN ran : ran[i].request = q}) < RepeatLimit

\* Each assistant message is followed by as many observations as it has calls.
Observed(said) ==
  \A i \in DOMAIN said : said[i].role = "assistant" =>
    /\ i + said[i].calls <= Len(said)
    /\ \A j \in i + 1 .. i + said[i].calls : said[j].role = "tool"

(* Whenever the model is asked, and in the session at any time, every tool *)
(* call has its observation (append_exchange, messages).                   *)
ExchangesWhole == (point \in {"turn", "model"} => Observed(thread)) /\ Observed(saved)

(* However a run goes, answers and cancels included: its states follow on, *)
(* its tools were granted and bounded, and its conversation is well formed.*)
RunIsLawful == LegalTransitions /\ RunsOnGrant /\ CallsBounded /\ ExchangesWhole
=============================================================================
