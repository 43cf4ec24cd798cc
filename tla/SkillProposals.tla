--------------------------- MODULE SkillProposals ---------------------------
(***************************************************************************)
(* Draft skills, proposed by a user or detected from repeated runs of an   *)
(* automation, and what users and the retention cleanup do with them.      *)
(*                                                                         *)
(* The jobs they come from are the ones that have completed, in the order  *)
(* they did, each with its workspace's automation version and the UTC day. *)
(***************************************************************************)
EXTENDS Integers, Sequences, FiniteSets

CONSTANTS
  Workflows,       \* versions of one automation, each with its workspace
  DetectedName,    \* "<automation>-workflow": the name of every detected draft
  DraftNames,      \* names users give their proposals and skills
  MaxCited,        \* bound: jobs a user's proposal cites
  MaxProposals,    \* bound: rows of skill_draft_proposals
  MaxCompletions,  \* bound: completed jobs
  MaxDays          \* bound: UTC days

ASSUME ProposalAssumption ==
  /\ MaxCited \in Nat /\ MaxProposals \in Nat /\ MaxCompletions \in Nat /\ MaxDays \in Nat \ {0}
  /\ "none" \notin Workflows

VARIABLES
  day,        \* the current UTC day
  completed,  \* completed[j]: the j-th job to complete, its workflow and day
  drafts,     \* drafts[p]: a row of skill_draft_proposals
  history,    \* history[p]: the statuses skill_proposal_events records of p
  library     \* skills by name: the draft published under it, 0 for a user's own

proposalVars == <<day, completed, drafts, history, library>>

ProposalInit ==
  /\ day = 1 /\ completed = <<>>
  /\ drafts = <<>> /\ history = <<>>
  /\ library = <<>>

-----------------------------------------------------------------------------
(* Jobs complete and days pass.                                            *)

JobCompletes(w) ==
  /\ Len(completed) < MaxCompletions
  /\ completed' = Append(completed, [workflow |-> w, day |-> day])
  /\ UNCHANGED <<day, drafts, history, library>>

NextDay ==
  /\ day < MaxDays
  /\ day' = day + 1
  /\ UNCHANGED <<completed, drafts, history, library>>

\* A user creates a skill of the name a draft has.
UserCreatesSkill(n) ==
  /\ n \notin DOMAIN library
  /\ library' = [k \in DOMAIN library \cup {n} |-> IF k = n THEN 0 ELSE library[k]]
  /\ UNCHANGED <<day, completed, drafts, history>>

-----------------------------------------------------------------------------
(* The table and its triggers.                                             *)

\* skill_draft_proposals_created logs the row.
InsertDraft(row) ==
  /\ Len(drafts) < MaxProposals
  /\ drafts' = Append(drafts, row)
  /\ history' = Append(history, <<row.status>>)

\* WHEN of skill_draft_proposals_changed.
Logged(old, new) == old # new

\* UPDATE of the rows in the domain of changes.
UpdateDrafts(changes) ==
  /\ drafts' = [p \in DOMAIN drafts |-> IF p \in DOMAIN changes THEN changes[p] ELSE drafts[p]]
  /\ history' = [p \in DOMAIN drafts |->
       IF p \in DOMAIN changes /\ Logged(drafts[p].status, changes[p].status)
       THEN Append(history[p], changes[p].status) ELSE history[p]]

Emptied(row) == [row EXCEPT !.name = "", !.text = "", !.sources = {}]

-----------------------------------------------------------------------------
(* create_skill_proposal                                                   *)

\* Completed jobs of one workspace; "grants" stands for instructions that ask
\* for access, which only approval refuses.
Propose(n, text, sources) ==
  /\ sources \subseteq DOMAIN completed /\ Cardinality(sources) \in 2 .. MaxCited
  /\ \A j, k \in sources : completed[j].workflow = completed[k].workflow
  /\ InsertDraft([name |-> n, text |-> text, sources |-> sources, status |-> "pending",
                  key |-> "none", redacted |-> FALSE])
  /\ UNCHANGED <<day, completed, library>>

-----------------------------------------------------------------------------
(* detect_repeated_workflow_proposals                                      *)

RunsOf(w) == {j \in DOMAIN completed : completed[j].workflow = w}

Latest(jobs) == CHOOSE j \in jobs : \A k \in jobs : k <= j

\* COUNT(*) >= 3 and COUNT(DISTINCT day) >= 2
Repeated(w) ==
  /\ Cardinality(RunsOf(w)) >= 3
  /\ Cardinality({completed[j].day : j \in RunsOf(w)}) >= 2

\* Mutant: the three latest runs.
LastThree(w) ==
  LET one == Latest(RunsOf(w))
      two == Latest(RunsOf(w) \ {one})
  IN {one, two, Latest(RunsOf(w) \ {one, two})}

\* The latest run, the latest of another day, and the latest of the rest.
Evidence(w) ==
  LET one == Latest(RunsOf(w))
      two == Latest({j \in RunsOf(w) : completed[j].day # completed[one].day})
  IN {one, two, Latest(RunsOf(w) \ {one, two})}

\* SELECT by detection_key, whatever became of the proposal.
DetectedBefore(w) == \E p \in DOMAIN drafts : drafts[p].key = w

\* A draft of every candidate that has none, in one transaction.
DetectRepeated ==
  LET fresh == {w \in Workflows : Repeated(w) /\ ~DetectedBefore(w)} IN
  /\ fresh # {}
  /\ Len(drafts) + Cardinality(fresh) <= MaxProposals
  /\ \E order \in [1 .. Cardinality(fresh) -> fresh] :
       /\ \A a, b \in DOMAIN order : order[a] = order[b] => a = b
       /\ drafts' = drafts \o [k \in DOMAIN order |->
            [name |-> DetectedName, text |-> "plain", sources |-> Evidence(order[k]), status |-> "pending",
             key |-> order[k], redacted |-> FALSE]]
       /\ history' = history \o [k \in DOMAIN order |-> <<"pending">>]
  /\ UNCHANGED <<day, completed, library>>

-----------------------------------------------------------------------------
(* Decisions.                                                              *)

\* The proposal is published only under a name no skill has.
Free(n) == n \notin DOMAIN library

\* approve_skill_proposal: publication and decision in one transaction.
ApproveDraft(p) ==
  /\ p \in DOMAIN drafts /\ drafts[p].status = "pending"
  /\ drafts[p].text = "plain"
  /\ Free(drafts[p].name)
  /\ library' = [n \in DOMAIN library \cup {drafts[p].name} |->
                   IF n \in DOMAIN library THEN library[n] ELSE p]
  /\ UpdateDrafts([q \in {p} |-> [drafts[q] EXCEPT !.status = "approved"]])
  /\ UNCHANGED <<day, completed>>

RejectDraft(p) ==
  /\ p \in DOMAIN drafts /\ drafts[p].status = "pending"
  /\ UpdateDrafts([q \in {p} |-> [drafts[q] EXCEPT !.status = "rejected"]])
  /\ UNCHANGED <<day, completed, library>>

DeleteDraft(p) ==
  /\ p \in DOMAIN drafts /\ drafts[p].status # "deleted"
  /\ UpdateDrafts([q \in {p} |-> [Emptied(drafts[q]) EXCEPT !.status = "deleted"]])
  /\ UNCHANGED <<day, completed, library>>

\* cleanup: rejected drafts older than the cutoff lose what they quote.
RedactRejected ==
  /\ \E old \in SUBSET {p \in DOMAIN drafts : drafts[p].status = "rejected" /\ ~drafts[p].redacted} :
       /\ old # {}
       /\ UpdateDrafts([p \in old |-> [Emptied(drafts[p]) EXCEPT !.redacted = TRUE]])
  /\ UNCHANGED <<day, completed, library>>

-----------------------------------------------------------------------------
ProposalNext ==
  \/ \E w \in Workflows : JobCompletes(w)
  \/ NextDay
  \/ \E n \in DraftNames : UserCreatesSkill(n)
  \/ \E n \in DraftNames, text \in {"plain", "grants"}, sources \in SUBSET (1 .. MaxCompletions) :
       Propose(n, text, sources)
  \/ DetectRepeated
  \/ \E p \in 1 .. MaxProposals : ApproveDraft(p) \/ RejectDraft(p) \/ DeleteDraft(p)
  \/ RedactRejected

ProposalSpec == ProposalInit /\ [][ProposalNext]_proposalVars

-----------------------------------------------------------------------------
(* Properties.                                                             *)

(* Types, and the CHECK of the table: a deleted or redacted row is empty.  *)
ProposalTypeOK ==
  /\ day \in 1 .. MaxDays /\ Len(history) = Len(drafts)
  /\ \A j \in DOMAIN completed : completed[j] \in [workflow : Workflows, day : 1 .. day]
  /\ \A p \in DOMAIN drafts :
       /\ drafts[p].status \in {"pending", "approved", "rejected", "deleted"}
       /\ drafts[p].status = "deleted" \/ drafts[p].redacted => Emptied(drafts[p]) = drafts[p]
       /\ drafts[p].redacted => drafts[p].status \in {"rejected", "deleted"}

(* The log of a proposal is one decision after another, each recorded once *)
(* and the last one its status, through retention too; and a repeated      *)
(* workflow is proposed once and never again, decided, redacted or deleted *)
(* (cleanup: "preserving the decision row, event history, and              *)
(* repeated-workflow hash").                                               *)
DecisionsKept ==
  /\ \A p \in DOMAIN drafts :
       /\ history[p][Len(history[p])] = drafts[p].status
       /\ \A a, b \in DOMAIN history[p] : history[p][a] = history[p][b] => a = b
  /\ \A p, q \in DOMAIN drafts : drafts[p].key = drafts[q].key /\ drafts[p].key # "none" => p = q

(* What a detected draft cites are three runs of its workflow on more than *)
(* one day, in whatever order runs completed ("spanning at least two UTC   *)
(* dates").                                                                *)
EvidenceSpansDays ==
  \A p \in DOMAIN drafts :
    drafts[p].key # "none" /\ drafts[p].sources # {} =>
      /\ Cardinality(drafts[p].sources) = 3
      /\ Cardinality({completed[j].day : j \in drafts[p].sources}) >= 2
      /\ \A j \in drafts[p].sources : completed[j].workflow = drafts[p].key

(* An approved draft is the skill of its name, and no text that asks for   *)
(* access is in the library because of a proposal.                         *)
ApprovedIsPublished ==
  \A p \in DOMAIN drafts :
    drafts[p].status = "approved" =>
      /\ drafts[p].name \in DOMAIN library /\ library[drafts[p].name] = p
      /\ drafts[p].text # "grants"

(* A draft is decided once, on evidence, and published as it was approved. *)
ProposalsHold == DecisionsKept /\ EvidenceSpansDays /\ ApprovedIsPublished
=============================================================================
