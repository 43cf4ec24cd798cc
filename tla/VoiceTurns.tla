----------------------------- MODULE VoiceTurns -----------------------------
(***************************************************************************)
(* Voice interaction: VoiceController and VoiceState of interfaces/voice,  *)
(* with the session's skill selection of skills/registry.py.               *)
(*                                                                         *)
(* One turn is one task: it listens, transcribes, reserves the session     *)
(* with an agent run, runs the agent, keeps the result and speaks it.  A   *)
(* control task may cancel it at any await, answer its approval, or, when  *)
(* no turn is under way, change session and skills.  Another process of    *)
(* the same user may hold a session's active run.  Writes to the database  *)
(* succeed here; AgentRuns has those that fail.                            *)
(***************************************************************************)
EXTENDS Naturals, Sequences, SequencesExt

CONSTANTS
    VoiceSessions,  \* conversations of the voice channel
    VoiceSkills,    \* skills the user may activate
    Clarifying,     \* CLARIFICATIONS_ENABLED: a run may ask the user
    MaxTurns,       \* bound: turns that reach the agent
    MaxSwitches     \* bound: changes of session and of skills

ASSUME VoiceAssumption ==
    /\ VoiceSessions # {} /\ Clarifying \in BOOLEAN
    /\ MaxTurns \in Nat /\ MaxSwitches \in Nat

\* Runs are numbered in the order this controller begins them.
Turns == 1..MaxTurns
Nothing == 0

SettledStatus ==
    {"completed", "failed", "cancelled"} \cup (IF Clarifying THEN {"waiting_input"} ELSE {})
\* present() and the conversation keep the text of these outcomes only.
ANSWERED == {"completed", "waiting_input"}

VARIABLES
    phase,          \* where run_once stands; "idle": no task
    stopping,       \* the task has been cancelled and has not handled it yet
    session,        \* state.session_id
    runs,           \* this controller's agent runs
    busyElsewhere,  \* sessions whose active run another process holds
    runId,          \* run_id of the turn under way
    runFinished,    \* run_finished of the turn under way
    prior,          \* prior of the turn under way
    clarification,  \* _pending_clarification: the run whose request is open
    conversation,       \* conversation[s]: the conversation, as <<role, run>>
    approval,       \* a request of the run is pending in the broker
    display,        \* state.status
    selected,       \* the controller's SkillSelection
    stored,         \* stored[s]: session_skills rows
    registered,     \* skills the registry can resolve
    switches        \* history: changes made so far

voiceVars == <<phase, stopping, session, runs, busyElsewhere, runId,
               runFinished, prior, clarification, conversation, approval, display,
               selected, stored, registered, switches>>

turnVars == <<runId, runFinished, prior>>
skillVars == <<selected, stored, registered>>

VoiceTypeOK ==
    /\ phase \in {"idle", "listening", "transcribing", "thinking", "speaking",
                  "closed"}
    /\ stopping \in BOOLEAN /\ approval \in BOOLEAN /\ runFinished \in BOOLEAN
    /\ session \in VoiceSessions
    /\ runs \in SeqOf([session : VoiceSessions, origin : Turns,
                       status : SettledStatus \cup {"running"}], MaxTurns)
    /\ busyElsewhere \subseteq VoiceSessions
    /\ {runId, prior, clarification} \subseteq 0..MaxTurns
    /\ \A s \in VoiceSessions : \A i \in DOMAIN conversation[s] :
          conversation[s][i] \in {"user", "assistant"} \X Turns
    /\ display \in SettledStatus \cup {"idle", "listening", "transcribing",
          "thinking", "waiting_approval", "speaking", "no_speech", "blocked"}
    /\ selected \in SeqOf(VoiceSkills, Len(selected))
    /\ \A s \in VoiceSessions : Range(stored[s]) \subseteq VoiceSkills
    /\ registered \subseteq VoiceSkills
    /\ switches \in 0..MaxSwitches

VoiceInit ==
    /\ phase = "idle" /\ stopping = FALSE
    /\ session \in VoiceSessions
    /\ runs = <<>> /\ busyElsewhere = {}
    /\ runId = Nothing /\ runFinished = FALSE /\ prior = Nothing
    /\ clarification = Nothing
    /\ conversation = [s \in VoiceSessions |-> <<>>]
    /\ approval = FALSE /\ display = "idle"
    /\ selected = <<>>
    /\ stored = [s \in VoiceSessions |-> <<>>]
    /\ registered = VoiceSkills
    /\ switches = 0

Busy == phase \in {"listening", "transcribing", "thinking", "speaking"}

\* The task ends: finally clears the approval and the task.
TurnEnds(shown) ==
    /\ phase' = "idle" /\ stopping' = FALSE
    /\ approval' = FALSE
    /\ display' = shown
    /\ runId' = Nothing /\ runFinished' = FALSE /\ prior' = Nothing

Say(role, r) == conversation' =
    [conversation EXCEPT ![session] = Append(@, <<role, r>>)]

-----------------------------------------------------------------------------
\* run_once, up to its first await.
Listen ==
    /\ phase = "idle"
    /\ Range(selected) \subseteq registered
    /\ phase' = "listening" /\ display' = "listening"
    /\ approval' = FALSE
    /\ UNCHANGED <<stopping, session, runs, busyElsewhere, turnVars,
                   clarification, conversation, skillVars, switches>>

SkillUnavailable ==
    /\ phase = "idle"
    /\ ~(Range(selected) \subseteq registered)
    /\ display' = "blocked"
    /\ UNCHANGED <<phase, stopping, session, runs, busyElsewhere, turnVars,
                   clarification, conversation, approval, skillVars, switches>>

Captured ==
    /\ phase = "listening" /\ ~stopping
    /\ phase' = "transcribing" /\ display' = "transcribing"
    /\ UNCHANGED <<stopping, session, runs, busyElsewhere, turnVars,
                   clarification, conversation, approval, skillVars,
                   switches>>

HeardNothing ==
    /\ phase = "transcribing" /\ ~stopping
    /\ TurnEnds("no_speech")
    /\ UNCHANGED <<session, runs, busyElsewhere, clarification, conversation,
                   skillVars, switches>>

\* Mutant: the open question is taken before the session is reserved.
HeardButBusyForgets ==
    /\ phase = "transcribing" /\ ~stopping
    /\ session \in busyElsewhere
    /\ clarification' = Nothing
    /\ TurnEnds("blocked")
    /\ UNCHANGED <<session, runs, busyElsewhere, conversation, skillVars,
                   switches>>

\* begin_agent_run is refused while the session has an active run.
HeardButBusy ==
    /\ phase = "transcribing" /\ ~stopping
    /\ session \in busyElsewhere
    /\ TurnEnds("blocked")
    /\ UNCHANGED <<session, runs, busyElsewhere, clarification, conversation,
                   skillVars, switches>>

\* begin, start, the history and the user's message, without an await; the
\* request carries an open question's request with it.
Origin(r) == IF clarification = Nothing THEN r ELSE clarification

Heard ==
    /\ phase = "transcribing" /\ ~stopping
    /\ session \notin busyElsewhere
    /\ Len(runs) < MaxTurns
    /\ LET r == Len(runs) + 1 IN
        /\ runs' = Append(runs, [session |-> session, status |-> "running",
                                 origin |-> Origin(r)])
        /\ runId' = r
        /\ Say("user", r)
    /\ prior' = clarification
    /\ clarification' = Nothing
    /\ phase' = "thinking" /\ display' = "thinking"
    /\ UNCHANGED <<stopping, session, busyElsewhere, runFinished, approval,
                   skillVars, switches>>

\* on_event shows what the run does; on_request shows a pending approval.
AskApproval ==
    /\ phase = "thinking" /\ ~stopping /\ ~approval
    /\ approval' = TRUE /\ display' = "waiting_approval"
    /\ UNCHANGED <<phase, stopping, session, runs, busyElsewhere, turnVars,
                   clarification, conversation, skillVars, switches>>

\* submit_approval, or the broker's own timeout, which denies.
AnswerApproval ==
    /\ approval /\ ~stopping
    /\ approval' = FALSE
    /\ display' \in {display, "thinking"}
    /\ UNCHANGED <<phase, stopping, session, runs, busyElsewhere, turnVars,
                   clarification, conversation, skillVars, switches>>

FinishRun(r, status) ==
    runs' = [runs EXCEPT ![r].status = IF @ = "running" THEN status ELSE @]

\* The executor returns: presentation, conversation, clarification and run.
TurnAnswered(status) ==
    /\ phase = "thinking" /\ ~stopping /\ ~approval
    /\ IF status \in ANSWERED
         THEN Say("assistant", runId) ELSE UNCHANGED conversation
    /\ clarification' = IF status = "waiting_input"
                          THEN IF prior = Nothing THEN runId ELSE prior
                          ELSE clarification
    /\ FinishRun(runId, status)
    /\ runFinished' = TRUE
    /\ phase' = "speaking" /\ display' = "speaking"
    /\ UNCHANGED <<stopping, session, busyElsewhere, runId, prior, approval,
                   skillVars, switches>>

Spoken ==
    /\ phase = "speaking" /\ ~stopping
    /\ TurnEnds(runs[runId].status)
    /\ UNCHANGED <<session, runs, busyElsewhere, clarification, conversation,
                   skillVars, switches>>

\* The two handlers settle the run unless it was finished.
SettleUnfinished(status) ==
    IF runId # Nothing /\ ~runFinished
      THEN FinishRun(runId, status) ELSE UNCHANGED runs

\* A provider or the executor raises.
TurnFails ==
    /\ Busy /\ ~stopping
    /\ SettleUnfinished("failed")
    /\ TurnEnds("failed")
    /\ UNCHANGED <<session, busyElsewhere, clarification, conversation,
                   skillVars, switches>>

\* cancel(): the broker denies the run's requests and the task is cancelled.
CancelTurn ==
    /\ Busy /\ ~stopping
    /\ stopping' = TRUE
    /\ approval' = FALSE
    /\ UNCHANGED <<phase, session, runs, busyElsewhere, turnVars, clarification,
                   conversation, display, skillVars, switches>>

TurnCancelled ==
    /\ stopping
    /\ SettleUnfinished("cancelled")
    /\ TurnEnds("cancelled")
    /\ UNCHANGED <<session, busyElsewhere, clarification, conversation,
                   skillVars, switches>>

\* close() cancels the turn first and closes the providers once each.
CloseController ==
    /\ phase = "idle"
    /\ phase' = "closed"
    /\ UNCHANGED <<stopping, session, runs, busyElsewhere, turnVars,
                   clarification, conversation, approval, display, skillVars,
                   switches>>

-----------------------------------------------------------------------------
\* _select_session: refused during a turn; a fresh state and no open question.
SelectSession(s) ==
    /\ phase = "idle" /\ switches < MaxSwitches
    /\ session' = s
    /\ selected' = stored[s]
    /\ clarification' = Nothing
    /\ display' = "idle"
    /\ switches' = switches + 1
    /\ UNCHANGED <<phase, stopping, runs, busyElsewhere, turnVars, conversation,
                   approval, stored, registered>>

ActivateSkill(n) ==
    /\ phase = "idle" /\ switches < MaxSwitches
    /\ n \in registered /\ n \notin Range(selected)
    /\ selected' = Append(selected, n)
    /\ stored' = [stored EXCEPT ![session] = selected']
    /\ switches' = switches + 1
    /\ UNCHANGED <<phase, stopping, session, runs, busyElsewhere, turnVars,
                   clarification, conversation, approval, display, registered>>

DeactivateSkill(n) ==
    /\ phase = "idle" /\ switches < MaxSwitches
    /\ \E i \in DOMAIN selected : selected[i] = n /\ selected' = RemoveAt(selected, i)
    /\ stored' = [stored EXCEPT ![session] = selected']
    /\ switches' = switches + 1
    /\ UNCHANGED <<phase, stopping, session, runs, busyElsewhere, turnVars,
                   clarification, conversation, approval, display, registered>>

\* A skill is gone from the registry of a later release.
SkillRemoved(n) ==
    /\ n \in registered /\ phase = "idle" /\ switches < MaxSwitches
    /\ registered' = registered \ {n}
    /\ switches' = switches + 1
    /\ UNCHANGED <<phase, stopping, session, runs, busyElsewhere, turnVars,
                   clarification, conversation, approval, display, selected, stored>>

\* Another process of the same user reserves a session and lets it go.
ElsewhereBegins(s) ==
    /\ s \notin busyElsewhere
    /\ \A r \in DOMAIN runs :
          runs[r].session = s => runs[r].status # "running"
    /\ busyElsewhere' = busyElsewhere \cup {s}
    /\ UNCHANGED <<phase, stopping, session, runs, turnVars, clarification,
                   conversation, approval, display, skillVars, switches>>

ElsewhereEnds(s) ==
    /\ s \in busyElsewhere
    /\ busyElsewhere' = busyElsewhere \ {s}
    /\ UNCHANGED <<phase, stopping, session, runs, turnVars, clarification,
                   conversation, approval, display, skillVars, switches>>

VoiceNext ==
    \/ Listen \/ SkillUnavailable \/ Captured \/ HeardNothing \/ HeardButBusy
    \/ Heard \/ AskApproval \/ AnswerApproval \/ Spoken \/ TurnFails
    \/ CancelTurn \/ TurnCancelled \/ CloseController
    \/ \E status \in SettledStatus : TurnAnswered(status)
    \/ \E s \in VoiceSessions :
          SelectSession(s) \/ ElsewhereBegins(s) \/ ElsewhereEnds(s)
    \/ \E n \in VoiceSkills :
          ActivateSkill(n) \/ DeactivateSkill(n) \/ SkillRemoved(n)

VoiceSpec == VoiceInit /\ [][VoiceNext]_voiceVars

-----------------------------------------------------------------------------
\* However a turn ends, its run has ended with it: no session stays reserved.
NothingLeftRunning ==
    \A r \in DOMAIN runs : runs[r].status = "running" => r = runId

\* The conversation tells what happened: an answer stands in it exactly for the
\* runs that gave one, after the words it answers, and in the run's session.
Spoke(role, r) ==
    {i \in DOMAIN conversation[runs[r].session] :
        conversation[runs[r].session][i] = <<role, r>>}

ConversationTells ==
    \A r \in DOMAIN runs :
        /\ \E q \in 1..Len(conversation[runs[r].session]) :
              /\ Spoke("user", r) = {q}
              /\ \A a \in Spoke("assistant", r) : a = q + 1
        /\ Spoke("assistant", r) # {} <=> runs[r].status \in ANSWERED

\* A result that was kept stays: a cancel while it is spoken, or a speech
\* provider that fails, changes the display and not the run.
ResultsStay ==
    [][\A r \in DOMAIN runs : runs[r].status # "running" =>
          runs'[r] = runs[r]]_voiceVars

\* An open question belongs to the last run, and only a run that carries it or
\* a change of session takes it away: silence, a busy session or a provider
\* that fails before the agent runs do not.
QuestionIsOpen ==
    clarification # Nothing =>
        LET last == Last(runs) IN
        /\ last.status = "waiting_input" /\ last.session = session
        /\ clarification = last.origin

QuestionIsCarried ==
    [][clarification # Nothing /\ clarification' # clarification =>
          \/ switches' # switches
          \/ /\ Len(runs') > Len(runs)
             /\ Last(runs').origin = clarification]_voiceVars

\* What a voice user may rely on, over all turns and their cancels.
TurnsAreKept ==
    [](NothingLeftRunning /\ ConversationTells /\ QuestionIsOpen)
        /\ ResultsStay /\ QuestionIsCarried
=============================================================================
