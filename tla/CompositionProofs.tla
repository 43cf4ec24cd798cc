-------------------------- MODULE CompositionProofs --------------------------
(***************************************************************************)
(* The services together.  A behaviour of MCServices is a behaviour of     *)
(* each of the services, so that what is proved of one of them by itself   *)
(* holds of them all together, which is what the run of MCServices         *)
(* explores: its invariants and properties are the corollaries.            *)
(***************************************************************************)
EXTENDS MCServices, LibraryProofs, DeliveryProofs, AgentRunProofs, ServiceProofs

\* Every service starts as it starts by itself.
LEMMA StartsOfEach ==
  Init => /\ RemindersInit /\ AgentRunsInit /\ StreamInit /\ RuntimeInit /\ BudgetInit /\ PlanInit
          /\ LibraryInit /\ ProposalInit /\ NoticeInit /\ ConversationInit /\ MigrationsInit
          /\ VoiceInit /\ ToolInit /\ KnowledgeInit
BY DEF Init

\* A step of one service is a step of it, and of no other.
LEMMA StepsOfEach ==
  ASSUME [Next]_servicesVars
  PROVE  /\ [RemindersNext]_reminderVars
         /\ [AgentRunsNext]_agentRunVars
         /\ [StreamNext]_streamVars
         /\ [RuntimeNext]_runtimeVars
         /\ [BudgetNext]_budgetVars
         /\ [PlanNext]_planVars
         /\ [LibraryNext]_libraryVars
         /\ [ProposalNext]_proposalVars
         /\ [NoticeNext]_noticeVars
         /\ [ConversationNext]_conversationVars
         /\ [MigrationsNext]_migrationsVars
         /\ [VoiceNext]_voiceVars
         /\ [ToolNext]_toolVars
         /\ [KnowledgeNext]_knowledgeVars
<1> USE DEF Next, Alone, servicesVars
<1>1. [RemindersNext]_reminderVars
  BY DEF RemindersNext
<1>2. [AgentRunsNext]_agentRunVars
  OBVIOUS
<1>3. [StreamNext]_streamVars
  OBVIOUS
<1>4. [RuntimeNext]_runtimeVars
  OBVIOUS
<1>5. [BudgetNext]_budgetVars
  OBVIOUS
<1>6. [PlanNext]_planVars
  OBVIOUS
<1>7. [LibraryNext]_libraryVars
  OBVIOUS
<1>8. [ProposalNext]_proposalVars
  OBVIOUS
<1>9. [NoticeNext]_noticeVars
  OBVIOUS
<1>10. [ConversationNext]_conversationVars
  OBVIOUS
<1>11. [MigrationsNext]_migrationsVars
  OBVIOUS
<1>12. [VoiceNext]_voiceVars
  OBVIOUS
<1>13. [ToolNext]_toolVars
  OBVIOUS
<1>14. [KnowledgeNext]_knowledgeVars
  OBVIOUS
<1> QED
  BY <1>1, <1>2, <1>3, <1>4, <1>5, <1>6, <1>7, <1>8, <1>9, <1>10, <1>11, <1>12, <1>13, <1>14

(* A behaviour of the services together is one of each of them: no two     *)
(* share a variable, and each step is a step of one.                       *)
THEOREM EachIsItself ==
  Spec => /\ RemindersSpec /\ AgentRunsSpec /\ StreamSpec /\ RuntimeSpec /\ BudgetSpec /\ PlanSpec
          /\ LibrarySpec /\ ProposalSpec /\ NoticeSpec /\ ConversationSpec /\ MigrationsSpec
          /\ VoiceSpec /\ ToolSpec /\ KnowledgeSpec
<1>1. Spec => RemindersSpec
  BY StartsOfEach, StepsOfEach, PTL DEF Spec, RemindersSpec
<1>2. Spec => AgentRunsSpec
  BY StartsOfEach, StepsOfEach, PTL DEF Spec, AgentRunsSpec
<1>3. Spec => StreamSpec
  BY StartsOfEach, StepsOfEach, PTL DEF Spec, StreamSpec
<1>4. Spec => RuntimeSpec
  BY StartsOfEach, StepsOfEach, PTL DEF Spec, RuntimeSpec
<1>5. Spec => BudgetSpec
  BY StartsOfEach, StepsOfEach, PTL DEF Spec, BudgetSpec
<1>6. Spec => PlanSpec
  BY StartsOfEach, StepsOfEach, PTL DEF Spec, PlanSpec
<1>7. Spec => LibrarySpec
  BY StartsOfEach, StepsOfEach, PTL DEF Spec, LibrarySpec
<1>8. Spec => ProposalSpec
  BY StartsOfEach, StepsOfEach, PTL DEF Spec, ProposalSpec
<1>9. Spec => NoticeSpec
  BY StartsOfEach, StepsOfEach, PTL DEF Spec, NoticeSpec
<1>10. Spec => ConversationSpec
  BY StartsOfEach, StepsOfEach, PTL DEF Spec, ConversationSpec
<1>11. Spec => MigrationsSpec
  BY StartsOfEach, StepsOfEach, PTL DEF Spec, MigrationsSpec
<1>12. Spec => VoiceSpec
  BY StartsOfEach, StepsOfEach, PTL DEF Spec, VoiceSpec
<1>13. Spec => ToolSpec
  BY StartsOfEach, StepsOfEach, PTL DEF Spec, ToolSpec
<1>14. Spec => KnowledgeSpec
  BY StartsOfEach, StepsOfEach, PTL DEF Spec, KnowledgeSpec
<1> QED
  BY <1>1, <1>2, <1>3, <1>4, <1>5, <1>6, <1>7, <1>8, <1>9, <1>10, <1>11, <1>12, <1>13, <1>14

(* The types of all the services hold in every state they reach together.  *)
THEOREM TypesHold == Spec => []ServicesTypeOK
<1>1. Spec => /\ []RemindersTypeOK /\ []AgentRunsTypeOK /\ []StreamTypeOK /\ []RuntimeTypeOK
              /\ []BudgetTypeOK /\ []PlanTypeOK /\ []LibraryTypeOK /\ []ProposalTypeOK
              /\ []NoticeTypeOK /\ []ConversationTypeOK /\ []MigrationsTypeOK /\ []VoiceTypeOK
              /\ []ToolTypeOK /\ []KnowledgeTypeOK
  BY EachIsItself, RemindersArrive, RunsExclude, StreamsAreTrue, RunsAreLawful, FamiliesStayWithin,
     PlansAreTrue, LibraryPinned, ProposalsAreKept, NoticesAreSeen, ConversationsAreWhole, UpgradesAreSafe,
     TurnsKept, AccessIsRight, IndexesAreTrue, PTL
<1>2. /\ RemindersTypeOK /\ AgentRunsTypeOK /\ StreamTypeOK /\ RuntimeTypeOK
      /\ BudgetTypeOK /\ PlanTypeOK /\ LibraryTypeOK /\ ProposalTypeOK
      /\ NoticeTypeOK /\ ConversationTypeOK /\ MigrationsTypeOK /\ VoiceTypeOK
      /\ ToolTypeOK /\ KnowledgeTypeOK
      => ServicesTypeOK
  BY DEF ServicesTypeOK
<1> QED
  BY <1>1, <1>2, PTL

(* What each service promises it promises among the others.                *)
THEOREM ServicesKeepFaith ==
  Spec => /\ [](/\ RemindersReach /\ RunsAreExclusive /\ StreamIsTrue /\ RunIsLawful /\ BudgetsHold
                /\ LibraryIsPinned /\ ProposalsHold /\ NoticesReach /\ AccessHolds)
          /\ PlanIsTrue /\ NothingForgotten /\ SafeUpgrades /\ TurnsAreKept /\ IndexIsTrue
BY EachIsItself, RemindersArrive, RunsExclude, StreamsAreTrue, RunsAreLawful, FamiliesStayWithin,
   PlansAreTrue, LibraryPinned, ProposalsAreKept, NoticesAreSeen, ConversationsAreWhole, UpgradesAreSafe,
   TurnsKept, AccessIsRight, IndexesAreTrue, PTL
=============================================================================
