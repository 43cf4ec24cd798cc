----------------------------- MODULE MCServices -----------------------------
(***************************************************************************)
(* Small instances of the services around the job queue.  In these models  *)
(* no two of them share state, so that a behaviour of all of them is one   *)
(* behaviour of each, interleaved: it is enough to explore them one at a   *)
(* time.  The focus of a behaviour is the service that moves in it; the    *)
(* others stay in one initial state.                                       *)
(***************************************************************************)
EXTENDS Reminders, AgentRuns, RunStream, AgentRuntime, Budgets, PlanSteps, Library,
        SkillProposals, Notices, Conversations, Migrations, VoiceTurns, ToolAccess, Knowledge

CONSTANT Focus      \* the services to explore

VARIABLE focus

servicesVars == <<reminderVars, agentRunVars, streamVars, runtimeVars, budgetVars, planVars,
                  libraryVars, proposalVars, noticeVars, conversationVars, migrationsVars,
                  voiceVars, toolVars, knowledgeVars, focus>>

\* Where a service has several initial states, the others see one of them.
Init ==
  /\ focus \in Focus
  /\ RemindersInit /\ AgentRunsInit /\ StreamInit /\ RuntimeInit /\ BudgetInit /\ PlanInit
  /\ ProposalInit /\ NoticeInit /\ ConversationInit
  /\ LibraryInit    /\ (focus = "library" \/ policy = CHOOSE p \in Policies : TRUE)
  /\ MigrationsInit /\ (focus = "migrations" \/ ~tables)
  /\ VoiceInit      /\ (focus = "voice" \/ session = CHOOSE s \in VoiceSessions : TRUE)
  /\ ToolInit       /\ (focus = "tools" \/ request = CHOOSE q \in RequestsMade : TRUE)
  /\ KnowledgeInit  /\ (focus = "knowledge" \/ files = [p \in Paths |-> Missing])

\* All services but one stand still.
Alone(service) ==
  /\ focus = service
  /\ IF service \in {"tasks", "reminders"} THEN TRUE ELSE UNCHANGED reminderVars
  /\ IF service = "runs"          THEN TRUE ELSE UNCHANGED agentRunVars
  /\ IF service = "stream"        THEN TRUE ELSE UNCHANGED streamVars
  /\ IF service = "runtime"       THEN TRUE ELSE UNCHANGED runtimeVars
  /\ IF service = "budgets"       THEN TRUE ELSE UNCHANGED budgetVars
  /\ IF service = "plans"         THEN TRUE ELSE UNCHANGED planVars
  /\ IF service = "library"       THEN TRUE ELSE UNCHANGED libraryVars
  /\ IF service = "proposals"     THEN TRUE ELSE UNCHANGED proposalVars
  /\ IF service = "notices"       THEN TRUE ELSE UNCHANGED noticeVars
  /\ IF service = "conversations" THEN TRUE ELSE UNCHANGED conversationVars
  /\ IF service = "migrations"    THEN TRUE ELSE UNCHANGED migrationsVars
  /\ IF service = "voice"         THEN TRUE ELSE UNCHANGED voiceVars
  /\ IF service = "tools"         THEN TRUE ELSE UNCHANGED toolVars
  /\ IF service = "knowledge"     THEN TRUE ELSE UNCHANGED knowledgeVars
  /\ UNCHANGED focus

Next ==
  \/ Alone("tasks")         /\ AssistantTaskStep
  \/ Alone("reminders")     /\ ReminderStep
  \/ Alone("runs")          /\ AgentRunsNext
  \/ Alone("stream")        /\ StreamNext
  \/ Alone("runtime")       /\ RuntimeNext
  \/ Alone("budgets")       /\ BudgetNext
  \/ Alone("plans")         /\ PlanNext
  \/ Alone("library")       /\ LibraryNext
  \/ Alone("proposals")     /\ ProposalNext
  \/ Alone("notices")       /\ NoticeNext
  \/ Alone("conversations") /\ ConversationNext
  \/ Alone("migrations")    /\ MigrationsNext
  \/ Alone("voice")         /\ VoiceNext
  \/ Alone("tools")         /\ ToolNext
  \/ Alone("knowledge")     /\ KnowledgeNext

Spec == Init /\ [][Next]_servicesVars

\* The type invariant of every service.
ServicesTypeOK ==
  /\ RemindersTypeOK /\ AgentRunsTypeOK /\ StreamTypeOK /\ RuntimeTypeOK /\ BudgetTypeOK
  /\ PlanTypeOK /\ LibraryTypeOK /\ ProposalTypeOK /\ NoticeTypeOK /\ ConversationTypeOK
  /\ MigrationsTypeOK /\ VoiceTypeOK /\ ToolTypeOK /\ KnowledgeTypeOK

-----------------------------------------------------------------------------
(* Values of the constants. *)

OneTitle        == [r \in ReminderIds |-> "water"]
AllowOne        == [t \in Tools |-> IF t = "a" THEN "allow" ELSE "require_approval"]
ThreeAndThree   == [tokens |-> 3, calls |-> 3]
OneAndOne       == {[tokens |-> 1, calls |-> 1]}
SmallBundle     == {[skills |-> <<<<"s", "y">>>>, names |-> {"s"}]}
OldAndNew       == [h \in Hosts |-> IF h = "old" THEN 2 ELSE 4]
KindOfEach      == <<"plain", "marked", "additive", "checked">>
TwoServers      == <<"m", "n">>
AllowedNames    == [s \in {"m", "n"} |-> IF s = "m" THEN {"a", "b"} ELSE {"a"}]
ListingsOf      == {<<"a">>, <<"a", "b">>, <<"a", "a">>, <<"bad">>}
SkillLimits     == [k \in Skills |-> IF k = "k" THEN {Remote("m", "a"), Chat, DelegateTool} ELSE Unlimited]
ProfileTools    == [r \in Roles |-> {Reading, Chat}]
ProfileSkill    == [r \in Roles |-> IF r = "coding" THEN "k" ELSE Unlimited]
SelectionsAsked == {{Remote("m", "a")}, {Remote("m", "b"), Remote("n", "a")}, {Chat, Writing}, {Chat}}
ChunksOf        == [t \in Texts |-> IF t = "x" THEN 2 ELSE 1]
=============================================================================
