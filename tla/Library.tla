------------------------------ MODULE Library ------------------------------
(***************************************************************************)
(* The library of saved work: skills and automations with their numbered   *)
(* versions, the schedule and the jobs that pin a version, and the import  *)
(* of a bundle, which writes several skills and an automation in           *)
(* transactions of their own.                                              *)
(*                                                                         *)
(* A version may select MCP tools.  The selection is pinned to the operator *)
(* policy of mcp_integration/job_policy.py, which is read again at every   *)
(* boundary, and no attempt of a job with a selection gets past it.        *)
(*                                                                         *)
(* Instructions are the members of a small set; names, schemas, templates  *)
(* and descriptions are represented by whether they validate: what does    *)
(* not is refused before anything is written.                              *)
(***************************************************************************)
EXTENDS Integers, Sequences

CONSTANTS
  SkillNames,     \* names of skills
  Instructions,   \* what a skill version may say, once it is redacted
  Importers,      \* processes that import a bundle
  Bundles,        \* bundles: skills is a sequence of <<name, text>>, names a set
  Policies,       \* operator policies
  Admitting,      \* those that admit the selection in its workspace
  NoPin,          \* the selection of an automation without one
  MaxVersions,    \* bound: versions of a skill, and of the automation
  MaxPinnedJobs   \* bound: jobs of the automation and its schedule

ASSUME LibraryAssumption ==
  /\ Admitting \subseteq Policies /\ NoPin \notin Policies
  /\ MaxVersions \in Nat \ {0} /\ MaxPinnedJobs \in Nat
  /\ Bundles \subseteq [skills : Seq(SkillNames \X Instructions), names : SUBSET SkillNames]

VARIABLES
  skills,       \* skills[n]: current_version and the texts of skill_versions
  automation,   \* the automation: current_version and automation_versions
  policy,       \* the operator's policy file
  snapshot,     \* schedule_automation_snapshots of one schedule; version 0: no schedule
  pinned,       \* pinned[j]: a job of the automation, and what its attempts read
  importing     \* importing[i]: where importer i is, and what it has read

libraryVars == <<skills, automation, policy, snapshot, pinned, importing>>

NoSnapshot == [version |-> 0]

Idle == [step |-> "idle"]

LibraryInit ==
  /\ skills = [n \in SkillNames |-> [current |-> 0, versions |-> <<>>]]
  /\ automation = [current |-> 0, versions |-> <<>>]
  /\ policy \in Policies
  /\ snapshot = NoSnapshot
  /\ pinned = <<>>
  /\ importing = [i \in Importers |-> Idle]

-----------------------------------------------------------------------------
(* Skills.                                                                 *)

Known(n) == skills[n].current > 0

\* The row skills.current_version points at.
CurrentText(n) == skills[n].versions[skills[n].current]

InsertSkill(n, text) ==
  /\ ~Known(n)
  /\ skills' = [skills EXCEPT ![n] = [current |-> 1, versions |-> <<text>>]]

\* Mutant: the new version is inserted, and current_version stays.
AppendRowOnly(n, text) ==
  /\ Known(n) /\ skills[n].current < MaxVersions
  /\ skills' = [skills EXCEPT ![n].versions = Append(@, text)]

\* INSERT of version current_version + 1 and UPDATE in one transaction.
AppendVersion(n, text) ==
  /\ Known(n) /\ skills[n].current < MaxVersions
  /\ skills' = [skills EXCEPT ![n] = [current |-> @.current + 1, versions |-> Append(@.versions, text)]]

CreateSkill(n, text) == InsertSkill(n, text) /\ UNCHANGED <<automation, policy, snapshot, pinned, importing>>

ReviseSkill(n, text) == AppendVersion(n, text) /\ UNCHANGED <<automation, policy, snapshot, pinned, importing>>

-----------------------------------------------------------------------------
(* Selections.  revalidate_selection reads the policy file again: the pin  *)
(* holds only while the whole policy is the one it was made under.         *)

\* The operator edits the file.
EditPolicy(p) ==
  /\ p # policy
  /\ policy' = p
  /\ UNCHANGED <<skills, automation, snapshot, pinned, importing>>

PinHolds(pin) == pin = NoPin \/ (pin = policy /\ pin \in Admitting)

-----------------------------------------------------------------------------
(* The automation.  A version links the skill versions that are current    *)
(* when it is written.                                                     *)

\* _resolve_skill_versions, of names that are known.
Resolve(names) == [n \in names |-> skills[n].current]

\* noted is a ghost: the skill versions the writer had looked at or written.
WriteVersion(names, pin, noted) ==
  /\ \A n \in names : Known(n)
  /\ automation.current < MaxVersions
  /\ automation' = [current  |-> automation.current + 1,
                    versions |-> Append(automation.versions,
                                   [links |-> Resolve(names), pin |-> pin, noted |-> noted])]

\* The selection is pinned and validated before the transaction begins, so a
\* policy that was replaced in between may still be stored.
CreateAutomation(names, pin) ==
  /\ automation.current = 0
  /\ WriteVersion(names, pin, <<>>)
  /\ UNCHANGED <<skills, policy, snapshot, pinned, importing>>

ReviseAutomation(names, pin) ==
  /\ automation.current > 0
  /\ WriteVersion(names, pin, <<>>)
  /\ UNCHANGED <<skills, policy, snapshot, pinned, importing>>

-----------------------------------------------------------------------------
(* Jobs and the schedule of the automation.                                *)

LinksOf(version) == automation.versions[version].links
PinOf(version) == automation.versions[version].pin

TextsOf(links) == [n \in DOMAIN links |-> skills[n].versions[links[n]]]

\* given is a ghost: what the version said when it was pinned.
PinJob(version, given, pin) ==
  /\ Len(pinned) < MaxPinnedJobs
  /\ pinned' = Append(pinned, [version |-> version, given |-> given, pin |-> pin, got |-> {}])

\* create_automation_job: resolve, validate and pin in one transaction.
CreateAutomationJob ==
  /\ automation.current > 0 /\ PinHolds(PinOf(automation.current))
  /\ PinJob(automation.current, TextsOf(LinksOf(automation.current)), PinOf(automation.current))
  /\ UNCHANGED <<skills, automation, policy, snapshot, importing>>

\* _prepare_automation_snapshot of a version; said is a ghost.
Prepared(version) ==
  [version |-> version, links |-> LinksOf(version), pin |-> PinOf(version),
   said |-> TextsOf(LinksOf(version))]

CreateAutomationSchedule ==
  /\ snapshot = NoSnapshot /\ automation.current > 0
  /\ PinHolds(PinOf(automation.current))
  /\ snapshot' = Prepared(automation.current)
  /\ UNCHANGED <<skills, automation, policy, pinned, importing>>

\* Only to a newer version; the timing stays.
UpgradeAutomationSchedule(version) ==
  /\ snapshot # NoSnapshot /\ version <= automation.current
  /\ PinHolds(PinOf(version))
  /\ version > snapshot.version
  /\ snapshot' = Prepared(version)
  /\ UNCHANGED <<skills, automation, policy, pinned, importing>>

\* Mutant: an occurrence runs the version that is current when it fires.
FireCurrent ==
  /\ snapshot # NoSnapshot
  /\ PinJob(automation.current, snapshot.said, snapshot.pin)
  /\ UNCHANGED <<skills, automation, policy, snapshot, importing>>

\* fire_schedule compares the snapshot with the version it names; Schedules
\* has the occurrences.
FireSnapshot ==
  /\ snapshot # NoSnapshot
  /\ LinksOf(snapshot.version) = snapshot.links
  /\ PinOf(snapshot.version) = snapshot.pin /\ PinHolds(snapshot.pin)
  /\ PinJob(snapshot.version, snapshot.said, snapshot.pin)
  /\ UNCHANGED <<skills, automation, policy, snapshot, importing>>

\* list_automation_skill_versions: the links of the pinned version.
SkillsListed(version) == TextsOf(LinksOf(version))

\* Every attempt of a job reads its skills again; a job with a selection is
\* blocked before that, whether or not its pin still holds.
AttemptReads(j) ==
  /\ j <= Len(pinned) /\ pinned[j].pin = NoPin
  /\ pinned' = [pinned EXCEPT ![j].got = @ \cup {SkillsListed(pinned[j].version)}]
  /\ UNCHANGED <<skills, automation, policy, snapshot, importing>>

-----------------------------------------------------------------------------
(* import_bundle.  Every lookup and every write is a transaction of its    *)
(* own, and nothing is undone on an error.                                 *)

Become(i, state) == importing' = [importing EXCEPT ![i] = state]

\* The skill versions a record of them holds, with that of n.
With(noted, n, version) ==
  [m \in DOMAIN noted \cup {n} |-> IF m = n THEN version ELSE noted[m]]

Supplied(bundle) == {bundle.skills[k][1] : k \in DOMAIN bundle.skills}

\* Nothing is written when a skill the automation names is missing.
BeginImport(i, bundle) ==
  /\ importing[i] = Idle
  /\ \A n \in bundle.names \ Supplied(bundle) : Known(n)
  /\ Become(i, [step |-> "look", bundle |-> bundle, at |-> 1, verdict |-> "none", noted |-> <<>>])
  /\ UNCHANGED <<skills, automation, policy, snapshot, pinned>>

\* get_skill, and get_current_skill_version of a skill that exists.
LookSkill(i) ==
  LET s == importing[i] IN
  /\ s.step = "look" /\ s.at <= Len(s.bundle.skills)
  /\ LET n == s.bundle.skills[s.at][1]
         same == Known(n) /\ CurrentText(n) = s.bundle.skills[s.at][2]
     IN Become(i, IF same
                  THEN [s EXCEPT !.at = @ + 1, !.noted = With(@, n, skills[n].current)]
                  ELSE [s EXCEPT !.step = "write", !.verdict = IF Known(n) THEN "revise" ELSE "create"])
  /\ UNCHANGED <<skills, automation, policy, snapshot, pinned>>

\* create_skill raises when somebody else created the skill in between.
WriteSkill(i) ==
  LET s == importing[i] IN
  /\ s.step = "write"
  /\ LET n == s.bundle.skills[s.at][1]
         text == s.bundle.skills[s.at][2]
         stored == [s EXCEPT !.step = "look", !.at = @ + 1, !.noted = With(@, n, skills'[n].current)]
     IN \/ s.verdict = "create" /\ InsertSkill(n, text) /\ Become(i, stored)
        \/ s.verdict = "create" /\ Known(n) /\ Become(i, Idle) /\ UNCHANGED skills
        \/ s.verdict = "revise" /\ AppendVersion(n, text) /\ Become(i, stored)
  /\ UNCHANGED <<automation, policy, snapshot, pinned>>

\* get_automation
LookAutomation(i) ==
  LET s == importing[i] IN
  /\ s.step = "look" /\ s.at > Len(s.bundle.skills)
  /\ Become(i, [s EXCEPT !.step = "publish", !.verdict = IF automation.current = 0 THEN "create" ELSE "revise"])
  /\ UNCHANGED <<skills, automation, policy, snapshot, pinned>>

\* create_automation raises when somebody else created it in between; a bundle
\* cannot select tools.
Publish(i) ==
  LET s == importing[i] IN
  /\ s.step = "publish"
  /\ IF s.verdict = "create" /\ automation.current > 0
     THEN UNCHANGED automation
     ELSE WriteVersion(s.bundle.names, NoPin, s.noted)
  /\ Become(i, Idle)
  /\ UNCHANGED <<skills, policy, snapshot, pinned>>

\* The process ends, or a later validation raises, between two transactions.
AbandonImport(i) ==
  /\ importing[i] # Idle
  /\ Become(i, Idle)
  /\ UNCHANGED <<skills, automation, policy, snapshot, pinned>>

-----------------------------------------------------------------------------
LibraryNext ==
  \/ \E n \in SkillNames, text \in Instructions : CreateSkill(n, text) \/ ReviseSkill(n, text)
  \/ \E names \in SUBSET SkillNames, pin \in Admitting \cup {NoPin} :
       CreateAutomation(names, pin) \/ ReviseAutomation(names, pin)
  \/ \E p \in Policies : EditPolicy(p)
  \/ CreateAutomationJob \/ CreateAutomationSchedule \/ FireSnapshot
  \/ \E version \in 1 .. MaxVersions : UpgradeAutomationSchedule(version)
  \/ \E j \in 1 .. MaxPinnedJobs : AttemptReads(j)
  \/ \E i \in Importers :
       \/ \E bundle \in Bundles : BeginImport(i, bundle)
       \/ LookSkill(i) \/ WriteSkill(i) \/ LookAutomation(i) \/ Publish(i) \/ AbandonImport(i)

LibrarySpec == LibraryInit /\ [][LibraryNext]_libraryVars

-----------------------------------------------------------------------------
(* Properties.                                                             *)

(* Types; and current_version is the number of the last version row.       *)
LibraryTypeOK ==
  /\ \A n \in SkillNames : skills[n].versions \in Seq(Instructions) /\ skills[n].current = Len(skills[n].versions)
  /\ automation.current = Len(automation.versions)
  /\ \A v \in 1 .. automation.current : \A n \in DOMAIN automation.versions[v].links :
       automation.versions[v].links[n] \in 1 .. skills[n].current
  /\ policy \in Policies /\ snapshot.version \in 0 .. automation.current
  /\ \A j \in 1 .. Len(pinned) :
       pinned[j].version \in 1 .. automation.current /\ pinned[j].pin \in Policies \cup {NoPin}
  /\ \A i \in Importers : importing[i].step \in {"idle", "look", "write", "publish"}

(* Whatever is revised or imported afterwards, every attempt of a job is   *)
(* given the instructions its automation version had when the job was      *)
(* created (create_automation_job: "Resolve, validate, and pin a run"), and *)
(* a scheduled one those it had when the schedule was created or upgraded   *)
(* ("Pin a saved version and its execution inputs").  Nothing runs of a    *)
(* version that selects tools.                                             *)
RunsArePinned ==
  \A j \in 1 .. Len(pinned) :
    /\ pinned[j].got \subseteq {pinned[j].given}
    /\ PinOf(pinned[j].version) # NoPin => pinned[j].got = {}

(* The skills an automation links never go back: a later version links no  *)
(* older skill version, and an import's automation none older than those   *)
(* the import compared with its bundle or wrote, however two imports and   *)
(* their revisions interleave.                                             *)
LinksMoveForward ==
  \A v \in 1 .. automation.current :
    LET this == automation.versions[v] IN
    /\ \A w \in 1 .. v : \A n \in DOMAIN this.links \cap DOMAIN automation.versions[w].links :
         automation.versions[w].links[n] <= this.links[n]
    /\ \A n \in DOMAIN this.links \cap DOMAIN this.noted : this.noted[n] <= this.links[n]

(* What runs is what was pinned, and what is linked is never older.        *)
LibraryIsPinned == RunsArePinned /\ LinksMoveForward
=============================================================================
