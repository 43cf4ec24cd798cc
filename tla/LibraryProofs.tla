---------------------------- MODULE LibraryProofs ----------------------------
(***************************************************************************)
(* Theorems about what a user's jobs are made from: the library of skills, *)
(* automations and bundles, and the drafts of skills detected in completed *)
(* jobs, for any number of names, versions, importers and drafts.          *)
(***************************************************************************)
EXTENDS Library, SkillProposals, SequenceTheorems, FiniteSetTheorems, WellFoundedInduction,
        TLAPS

\* A set of numbers has a least one.
LEMMA LeastNat ==
  ASSUME NEW T, T \subseteq Nat, T # {}
  PROVE  \E x \in T : \A y \in T : x <= y
<1> DEFINE R == OpToRel(<, Nat)
<1>1. IsWellFoundedOn(R, Nat)
  BY NatLessThanWellFounded
<1> HIDE DEF R
<1>2. PICK x \in T : \A y \in T : ~(<<y, x>> \in R)
  BY <1>1, WFMin, Zenon
<1>3. \A y \in T : y < x => <<y, x>> \in R
  BY DEF R, OpToRel
<1>4. \A y \in T : ~(y < x)
  BY <1>2, <1>3
<1> QED
  BY <1>4

-----------------------------------------------------------------------------
(* The library of saved work.                                              *)

SkillRow == [current : Nat, versions : Seq(Instructions)]

Links == UNION {[names -> Nat] : names \in SUBSET SkillNames}

TextSets == UNION {[names -> Instructions] : names \in SUBSET SkillNames}

Pins == Policies \cup {NoPin}

VersionRow == [links : Links, pin : Pins, noted : Links]

PinnedRow == [version : Nat, given : TextSets, pin : Pins, got : SUBSET TextSets]

ImportState == [step : {"look", "write", "publish"}, bundle : Bundles, at : Nat \ {0},
                verdict : {"none", "create", "revise"}, noted : Links]

\* Are all versions of f among those the skills have?
AllExist(f) == \A n \in DOMAIN f : f[n] \in 1 .. skills[n].current

SkillRows ==
  /\ skills \in [SkillNames -> SkillRow]
  /\ \A n \in SkillNames : skills[n].current = Len(skills[n].versions)

\* Every version links versions that exist, and is never changed.
VersionRows ==
  /\ automation \in [current : Nat, versions : Seq(VersionRow)]
  /\ automation.current = Len(automation.versions)
  /\ \A v \in 1 .. automation.current : AllExist(LinksOf(v))

\* What a job or the schedule was given is what its version still says.
PinsTrue ==
  /\ snapshot = NoSnapshot \/ \E v \in 1 .. automation.current : snapshot = Prepared(v)
  /\ pinned \in Seq(PinnedRow)
  /\ \A j \in 1 .. Len(pinned) :
       /\ pinned[j].version \in 1 .. automation.current
       /\ pinned[j].given = TextsOf(LinksOf(pinned[j].version))
       /\ pinned[j].pin = PinOf(pinned[j].version)

\* An import has looked at versions that exist.
ImportsTrue ==
  /\ DOMAIN importing = Importers
  /\ \A i \in Importers :
       \/ importing[i] = Idle
       \/ /\ importing[i] \in ImportState
          /\ AllExist(importing[i].noted)
          /\ importing[i].step = "write" => importing[i].at <= Len(importing[i].bundle.skills)

LibraryInv ==
  /\ policy \in Policies
  /\ SkillRows /\ VersionRows /\ PinsTrue /\ ImportsTrue
  /\ LibraryIsPinned

\* Rows of skill versions are only added.
SkillsGrow ==
  /\ SkillRows'
  /\ \A n \in SkillNames :
       /\ skills[n].current <= skills'[n].current
       /\ \A v \in 1 .. skills[n].current : skills'[n].versions[v] = skills[n].versions[v]

LEMMA NoLinks == <<>> \in Links /\ DOMAIN <<>> = {}
<1>1. <<>> \in [{} -> Nat]
  OBVIOUS
<1> QED
  BY <1>1 DEF Links

LEMMA LinksFacts ==
  ASSUME NEW f \in Links
  PROVE  DOMAIN f \subseteq SkillNames /\ \A n \in DOMAIN f : f[n] \in Nat
BY DEF Links

LEMMA LinksFunctions ==
  ASSUME NEW f, DOMAIN f \subseteq SkillNames, \A n \in DOMAIN f : f[n] \in Nat,
         f = [n \in DOMAIN f |-> f[n]]
  PROVE  f \in Links
<1>1. f \in [DOMAIN f -> Nat]
  OBVIOUS
<1> QED
  BY <1>1 DEF Links

LEMMA WithFacts ==
  ASSUME NEW f \in Links, NEW k \in SkillNames, NEW v \in Nat
  PROVE  /\ With(f, k, v) \in Links
         /\ DOMAIN With(f, k, v) = DOMAIN f \cup {k}
         /\ With(f, k, v)[k] = v
         /\ \A m \in DOMAIN f : m # k => With(f, k, v)[m] = f[m]
<1> DEFINE g == With(f, k, v)
<1>1. /\ g = [m \in DOMAIN g |-> g[m]] /\ DOMAIN g = DOMAIN f \cup {k}
      /\ g[k] = v /\ \A m \in DOMAIN f : m # k => g[m] = f[m]
  BY DEF With
<1> HIDE DEF g
<1>2. g \in Links
  BY <1>1, LinksFacts, LinksFunctions
<1> QED
  BY <1>1, <1>2 DEF g

\* What is linked is what the skills say, whatever is added to them.
LEMMA TextsStay ==
  ASSUME SkillRows, NEW f \in Links, AllExist(f)
  PROVE  /\ TextsOf(f) \in TextSets
         /\ SkillsGrow => TextsOf(f)' = TextsOf(f) /\ AllExist(f)'
<1>1. DOMAIN f \subseteq SkillNames /\ \A n \in DOMAIN f : f[n] \in Nat /\ f[n] \in 1 .. skills[n].current
  BY LinksFacts DEF AllExist
<1>2. \A n \in DOMAIN f : skills[n].versions[f[n]] \in Instructions
  BY <1>1, ElementOfSeq DEF SkillRows, SkillRow
<1>3. TextsOf(f) \in [DOMAIN f -> Instructions]
  BY <1>2 DEF TextsOf
<1>4. ASSUME SkillsGrow PROVE TextsOf(f)' = TextsOf(f) /\ AllExist(f)'
  <2>1. \A n \in DOMAIN f : skills'[n].versions[f[n]] = skills[n].versions[f[n]]
    BY <1>1, <1>4 DEF SkillsGrow
  <2>2. AllExist(f)'
    BY <1>1, <1>4 DEF SkillsGrow, SkillRows, SkillRow, AllExist
  <2> QED
    BY <2>1, <2>2 DEF TextsOf
<1> QED
  BY <1>1, <1>3, <1>4 DEF TextSets

LEMMA VersionFacts ==
  ASSUME VersionRows, NEW v \in 1 .. automation.current
  PROVE  /\ automation.versions[v] \in VersionRow /\ LinksOf(v) \in Links /\ PinOf(v) \in Pins
         /\ AllExist(LinksOf(v))
<1>1. automation.versions \in Seq(VersionRow) /\ v \in 1 .. Len(automation.versions)
  BY DEF VersionRows
<1>2. automation.versions[v] \in VersionRow
  BY <1>1, ElementOfSeq
<1> QED
  BY <1>2 DEF VersionRows, VersionRow, LinksOf, PinOf

LEMMA SkillsSame == SkillRows /\ skills' = skills => SkillsGrow
BY DEF SkillRows, SkillsGrow

\* A create or a revision adds one row.
LEMMA SkillWritten ==
  ASSUME SkillRows, NEW n \in SkillNames, NEW text \in Instructions,
         InsertSkill(n, text) \/ AppendVersion(n, text)
  PROVE  SkillsGrow /\ skills'[n].current \in 1 .. skills'[n].current
<1>1. CASE InsertSkill(n, text)
  <2> DEFINE row == [current |-> 1, versions |-> <<text>>]
  <2>1. row \in SkillRow /\ row.current = Len(row.versions)
    BY DEF SkillRow
  <2>2. \A m \in SkillNames : skills'[m] = IF m = n THEN row ELSE skills[m]
    BY <1>1 DEF InsertSkill, SkillRows
  <2>3. skills[n].current = 0
    BY <1>1 DEF InsertSkill, Known, SkillRows, SkillRow
  <2>4. SkillRows'
    BY <1>1, <2>1, <2>2 DEF InsertSkill, SkillRows
  <2>5. row.current = 1
    OBVIOUS
  <2> HIDE DEF row
  <2>6. \A m \in SkillNames : skills[m].current \in Nat
    BY DEF SkillRows, SkillRow
  <2>7. skills'[n].current = 1 /\ 1 .. skills[n].current = {} /\ skills[n].current <= 1
    BY <2>2, <2>3, <2>5
  <2>8. \A m \in SkillNames : m # n => skills'[m] = skills[m] /\ skills[m].current <= skills[m].current
    BY <2>2, <2>6
  <2> QED
    BY <2>4, <2>7, <2>8 DEF SkillsGrow
<1>2. CASE AppendVersion(n, text)
  <2> DEFINE row == [current |-> skills[n].current + 1, versions |-> Append(skills[n].versions, text)]
  <2>1. skills[n].versions \in Seq(Instructions) /\ skills[n].current = Len(skills[n].versions) /\ skills[n].current \in Nat
    BY DEF SkillRows, SkillRow
  <2>2. /\ row \in SkillRow /\ row.current = Len(row.versions)
        /\ \A v \in 1 .. skills[n].current : row.versions[v] = skills[n].versions[v]
    BY <2>1, AppendProperties DEF SkillRow
  <2>3. \A m \in SkillNames : skills'[m] = IF m = n THEN row ELSE skills[m]
    BY <1>2 DEF AppendVersion, SkillRows
  <2>4. SkillRows'
    BY <1>2, <2>2, <2>3 DEF AppendVersion, SkillRows
  <2>5. row.current = skills[n].current + 1
    OBVIOUS
  <2> HIDE DEF row
  <2> QED
    BY <2>1, <2>2, <2>3, <2>4, <2>5 DEF SkillsGrow, SkillRows, SkillRow
<1> QED
  BY <1>1, <1>2

\* Nothing that is pinned or linked notices that skills grow.
LEMMA GrowthKeeps ==
  ASSUME LibraryInv, SkillsGrow, UNCHANGED <<automation, snapshot, pinned>>
  PROVE  VersionRows' /\ PinsTrue' /\ LibraryIsPinned'
<1>1. \A v \in 1 .. automation.current :
        /\ LinksOf(v)' = LinksOf(v) /\ PinOf(v)' = PinOf(v)
        /\ TextsOf(LinksOf(v))' = TextsOf(LinksOf(v)) /\ AllExist(LinksOf(v))'
  <2> TAKE v \in 1 .. automation.current
  <2>1. LinksOf(v)' = LinksOf(v) /\ PinOf(v)' = PinOf(v)
    BY DEF LinksOf, PinOf
  <2>2. LinksOf(v) \in Links /\ AllExist(LinksOf(v))
    BY VersionFacts DEF LibraryInv
  <2>3. \A f \in Links : AllExist(f) => TextsOf(f)' = TextsOf(f) /\ AllExist(f)'
    BY TextsStay DEF LibraryInv
  <2> QED
    BY <2>1, <2>2, <2>3
<1>2. VersionRows'
  BY <1>1 DEF LibraryInv, VersionRows
<1>3. PinsTrue'
  BY <1>1 DEF LibraryInv, PinsTrue, Prepared
<1>4. LibraryIsPinned'
  BY <1>1 DEF LibraryInv, LibraryIsPinned, RunsArePinned, LinksMoveForward, PinsTrue
<1> QED
  BY <1>2, <1>3, <1>4

LEMMA SkillsStep ==
  ASSUME LibraryInv, NEW n \in SkillNames, NEW text \in Instructions, CreateSkill(n, text) \/ ReviseSkill(n, text)
  PROVE  LibraryInv'
<1>1. SkillsGrow
  BY SkillWritten DEF LibraryInv, CreateSkill, ReviseSkill
<1>2. UNCHANGED <<automation, policy, snapshot, pinned, importing>>
  BY DEF CreateSkill, ReviseSkill
<1>3. \A f \in Links : AllExist(f) => AllExist(f)'
  BY <1>1, TextsStay DEF LibraryInv
<1>4. ImportsTrue'
  BY <1>2, <1>3 DEF LibraryInv, ImportsTrue, ImportState
<1> QED
  BY <1>1, <1>2, <1>4, GrowthKeeps DEF LibraryInv, SkillsGrow

\* A new version of the automation: no older one changes, and it links what is
\* current, which no link and nothing an import looked at is ahead of.
LEMMA VersionWritten ==
  ASSUME LibraryInv, NEW names \in SUBSET SkillNames, NEW pin \in Pins, NEW noted \in Links, AllExist(noted),
         WriteVersion(names, pin, noted), UNCHANGED <<skills, policy, snapshot, pinned>>, ImportsTrue'
  PROVE  LibraryInv'
<1> DEFINE new == [links |-> Resolve(names), pin |-> pin, noted |-> noted]
           last == automation.current + 1
<1>1. /\ DOMAIN Resolve(names) = names /\ Resolve(names) \in Links
      /\ \A n \in names : Resolve(names)[n] = skills[n].current
      /\ AllExist(Resolve(names))
  <2>1. \A n \in names : skills[n].current \in Nat /\ skills[n].current > 0
    BY DEF WriteVersion, Known, LibraryInv, SkillRows, SkillRow
  <2>2. Resolve(names) \in [names -> Nat]
    BY <2>1 DEF Resolve
  <2> QED
    BY <2>1, <2>2 DEF Resolve, Links, AllExist
<1>2. /\ automation.versions \in Seq(VersionRow) /\ automation.current = Len(automation.versions)
      /\ automation.current \in Nat /\ new \in VersionRow
  BY <1>1 DEF LibraryInv, VersionRows, VersionRow
<1>3. automation' = [current |-> last, versions |-> Append(automation.versions, new)]
  BY DEF WriteVersion
<1>4. /\ automation'.versions \in Seq(VersionRow) /\ Len(automation'.versions) = last
      /\ \A v \in 1 .. automation.current : automation'.versions[v] = automation.versions[v]
      /\ automation'.versions[last] = new
      /\ automation'.current = last
  <2> HIDE DEF new
  <2>1. automation'.versions = Append(automation.versions, new) /\ automation'.current = last
    BY <1>3
  <2> QED
    BY <1>2, <2>1, AppendProperties
<1>5. /\ \A v \in 1 .. automation.current : LinksOf(v)' = LinksOf(v) /\ PinOf(v)' = PinOf(v)
      /\ automation'.versions[last].links = Resolve(names)
  <2>1. new.links = Resolve(names)
    OBVIOUS
  <2> HIDE DEF new, last
  <2> QED
    BY <1>4, <2>1 DEF LinksOf, PinOf
<1>6. \A v \in 1 .. automation.current : AllExist(LinksOf(v)) /\ AllExist(LinksOf(v))' /\ TextsOf(LinksOf(v))' = TextsOf(LinksOf(v))
  BY <1>5, VersionFacts DEF LibraryInv, AllExist, TextsOf
<1>7. \A v \in 1 .. last : v \in 1 .. automation.current \/ v = last
  BY <1>2
<1>8. VersionRows'
  <2>1. \A v : v = last => AllExist(LinksOf(v))'
    BY <1>1, <1>5 DEF AllExist, LinksOf
  <2>2. \A v \in 1 .. last : AllExist(LinksOf(v))'
    <3> TAKE v \in 1 .. last
    <3>1. CASE v = last
      BY <2>1, <3>1
    <3>2. CASE v \in 1 .. automation.current
      BY <1>6, <3>2
    <3> QED
      BY <1>7, <3>1, <3>2
  <2>3. automation' \in [current : Nat, versions : Seq(VersionRow)]
    BY <1>2, <1>3, <1>4
  <2> QED
    BY <1>4, <2>2, <2>3 DEF VersionRows
<1>9. PinsTrue'
  <2>1. automation'.current = last /\ \A v \in 1 .. automation.current : v \in 1 .. last
    BY <1>2, <1>4
  <2>2. \A v \in 1 .. automation.current : Prepared(v)' = Prepared(v)
    BY <1>5, <1>6 DEF Prepared
  <2> QED
    BY <1>5, <1>6, <2>1, <2>2 DEF LibraryInv, PinsTrue
<1>10. RunsArePinned'
  BY <1>5 DEF LibraryInv, LibraryIsPinned, RunsArePinned, PinsTrue
<1>11. LinksMoveForward'
  <2> DEFINE Forward(v) ==
        /\ \A w \in 1 .. v : \A n \in DOMAIN automation'.versions[v].links \cap DOMAIN automation'.versions[w].links :
             automation'.versions[w].links[n] <= automation'.versions[v].links[n]
        /\ \A n \in DOMAIN automation'.versions[v].links \cap DOMAIN automation'.versions[v].noted :
             automation'.versions[v].noted[n] <= automation'.versions[v].links[n]
  <2>1. ASSUME NEW v \in 1 .. automation.current PROVE Forward(v)
    <3>1. \A w \in 1 .. v : w \in 1 .. automation.current
      BY <1>2
    <3> QED
      BY <1>4, <3>1 DEF LibraryInv, LibraryIsPinned, LinksMoveForward
  <2>2. Forward(last)
    <3>1. \A n \in names : skills[n].current \in Nat
      BY DEF LibraryInv, SkillRows, SkillRow
    <3>2. automation'.versions[last].links = Resolve(names) /\ automation'.versions[last].noted = noted
      BY <1>4
    <3>3. \A n \in names \cap DOMAIN noted : noted[n] <= Resolve(names)[n]
      BY <1>1, <3>1 DEF AllExist
    <3>4. ASSUME NEW w \in 1 .. last, NEW n \in names, n \in DOMAIN automation'.versions[w].links
          PROVE  automation'.versions[w].links[n] <= Resolve(names)[n]
      <4>1. CASE w = last
        BY <1>1, <3>1, <3>2, <4>1
      <4>2. CASE w \in 1 .. automation.current
        <5>1. automation'.versions[w].links = LinksOf(w)
          BY <1>4, <4>2 DEF LinksOf
        <5> QED
          BY <1>1, <1>6, <3>1, <3>4, <4>2, <5>1 DEF AllExist
      <4> QED
        BY <1>7, <4>1, <4>2
    <3> QED
      BY <1>1, <3>2, <3>3, <3>4
  <2>3. \A v \in 1 .. last : Forward(v)
    BY <1>7, <2>1, <2>2
  <2> QED
    BY <1>4, <2>3 DEF LinksMoveForward
<1> QED
  BY <1>8, <1>9, <1>10, <1>11 DEF LibraryInv, LibraryIsPinned, SkillRows

LEMMA AutomationStep ==
  ASSUME LibraryInv, NEW names \in SUBSET SkillNames, NEW pin \in Admitting \cup {NoPin},
         CreateAutomation(names, pin) \/ ReviseAutomation(names, pin)
  PROVE  LibraryInv'
<1>1. pin \in Pins /\ <<>> \in Links /\ AllExist(<<>>)
  BY LibraryAssumption, NoLinks DEF Pins, AllExist
<1>2. WriteVersion(names, pin, <<>>) /\ UNCHANGED <<skills, policy, snapshot, pinned, importing>>
  BY DEF CreateAutomation, ReviseAutomation
<1>3. ImportsTrue'
  BY <1>2 DEF LibraryInv, ImportsTrue, AllExist
<1> QED
  BY <1>1, <1>2, <1>3, VersionWritten

\* Pinning a job or a schedule, and what attempts read.
LEMMA JobPinned ==
  ASSUME LibraryInv, NEW v \in 1 .. automation.current,
         PinJob(v, TextsOf(LinksOf(v)), PinOf(v)), UNCHANGED <<skills, automation, policy, snapshot, importing>>
  PROVE  LibraryInv'
<1> DEFINE row == [version |-> v, given |-> TextsOf(LinksOf(v)), pin |-> PinOf(v), got |-> {}]
<1>1. TextsOf(LinksOf(v)) \in TextSets /\ PinOf(v) \in Pins
  BY VersionFacts, TextsStay DEF LibraryInv
<1>2. row \in PinnedRow
  BY <1>1 DEF PinnedRow, LibraryInv, VersionRows
<1>3. pinned \in Seq(PinnedRow) /\ Len(pinned) \in Nat
  BY LenProperties DEF LibraryInv, PinsTrue
<1>4. pinned' = Append(pinned, row)
  BY DEF PinJob
<1>5. /\ row.version = v /\ row.given = TextsOf(LinksOf(v)) /\ row.pin = PinOf(v) /\ row.got = {}
  OBVIOUS
<1> HIDE DEF row
<1>6. /\ pinned' \in Seq(PinnedRow) /\ Len(pinned') = Len(pinned) + 1
      /\ \A j \in 1 .. Len(pinned) : pinned'[j] = pinned[j]
      /\ pinned'[Len(pinned) + 1] = row
  BY <1>2, <1>3, <1>4, AppendProperties
<1>7. \A j \in 1 .. Len(pinned') : j \in 1 .. Len(pinned) \/ j = Len(pinned) + 1
  BY <1>3, <1>6
<1>8. PinsTrue' /\ RunsArePinned'
  <2>1. \A w : TextsOf(LinksOf(w))' = TextsOf(LinksOf(w)) /\ PinOf(w)' = PinOf(w) /\ Prepared(w)' = Prepared(w)
    BY DEF TextsOf, LinksOf, PinOf, Prepared
  <2> QED
    BY <1>5, <1>6, <1>7, <2>1 DEF LibraryInv, PinsTrue, LibraryIsPinned, RunsArePinned
<1> QED
  BY <1>8 DEF LibraryInv, SkillRows, VersionRows, ImportsTrue, AllExist, LinksOf, LibraryIsPinned, LinksMoveForward

LEMMA JobsStep ==
  ASSUME LibraryInv, CreateAutomationJob \/ FireSnapshot
  PROVE  LibraryInv'
<1>1. CASE CreateAutomationJob
  BY <1>1, JobPinned DEF CreateAutomationJob, LibraryInv, VersionRows
<1>2. CASE FireSnapshot
  <2>1. PICK v \in 1 .. automation.current : snapshot = Prepared(v)
    BY <1>2 DEF FireSnapshot, LibraryInv, PinsTrue
  <2>2. snapshot.version = v /\ snapshot.said = TextsOf(LinksOf(v)) /\ snapshot.pin = PinOf(v)
    BY <2>1 DEF Prepared
  <2> QED
    BY <1>2, <2>2, JobPinned DEF FireSnapshot
<1> QED
  BY <1>1, <1>2

LEMMA ScheduleStep ==
  ASSUME LibraryInv,
         CreateAutomationSchedule \/ \E version \in 1 .. MaxVersions : UpgradeAutomationSchedule(version)
  PROVE  LibraryInv'
<1>1. PICK v \in 1 .. automation.current : snapshot' = Prepared(v)
  BY DEF CreateAutomationSchedule, UpgradeAutomationSchedule, LibraryInv, VersionRows
<1>2. UNCHANGED <<skills, automation, policy, pinned, importing>>
  BY DEF CreateAutomationSchedule, UpgradeAutomationSchedule
<1>3. \A w : TextsOf(LinksOf(w))' = TextsOf(LinksOf(w)) /\ PinOf(w)' = PinOf(w) /\ Prepared(w)' = Prepared(w)
  BY <1>2 DEF TextsOf, LinksOf, PinOf, Prepared
<1>4. PinsTrue'
  BY <1>1, <1>2, <1>3 DEF LibraryInv, PinsTrue
<1> QED
  BY <1>2, <1>4 DEF LibraryInv, SkillRows, VersionRows, ImportsTrue, AllExist, LinksOf, PinOf, LibraryIsPinned,
                    RunsArePinned, LinksMoveForward

LEMMA AttemptStep ==
  ASSUME LibraryInv, NEW j \in 1 .. MaxPinnedJobs, AttemptReads(j)
  PROVE  LibraryInv'
<1>1. pinned \in Seq(PinnedRow) /\ j \in 1 .. Len(pinned) /\ pinned \in [1 .. Len(pinned) -> PinnedRow]
  BY LenProperties DEF LibraryInv, PinsTrue, AttemptReads
<1>2. SkillsListed(pinned[j].version) = pinned[j].given /\ pinned[j] \in PinnedRow
  BY <1>1 DEF SkillsListed, LibraryInv, PinsTrue
<1> DEFINE row == [pinned[j] EXCEPT !.got = @ \cup {pinned[j].given}]
<1>3. /\ row \in PinnedRow /\ row.version = pinned[j].version /\ row.given = pinned[j].given
      /\ row.pin = pinned[j].pin /\ row.got = pinned[j].got \cup {pinned[j].given}
  BY <1>2 DEF PinnedRow
<1>4. pinned' = [pinned EXCEPT ![j] = row]
  BY <1>2 DEF AttemptReads
<1> HIDE DEF row
<1>5. /\ pinned' \in Seq(PinnedRow) /\ Len(pinned') = Len(pinned)
      /\ \A k \in 1 .. Len(pinned) : pinned'[k] = IF k = j THEN row ELSE pinned[k]
  BY <1>1, <1>3, <1>4, ExceptSeq
<1>6. UNCHANGED <<skills, automation, policy, snapshot, importing>> /\ pinned[j].pin = NoPin
  BY DEF AttemptReads
<1>7. PinsTrue' /\ RunsArePinned'
  <2>1. \A w : TextsOf(LinksOf(w))' = TextsOf(LinksOf(w)) /\ PinOf(w)' = PinOf(w) /\ Prepared(w)' = Prepared(w)
    BY <1>6 DEF TextsOf, LinksOf, PinOf, Prepared
  <2> QED
    <3>1. /\ pinned[j].pin = PinOf(pinned[j].version) /\ pinned[j].got \subseteq {pinned[j].given}
      BY <1>1 DEF LibraryInv, PinsTrue, LibraryIsPinned, RunsArePinned
    <3>2. /\ row.got \subseteq {row.given} /\ row.pin = NoPin /\ PinOf(row.version) = NoPin
      BY <1>3, <1>6, <3>1
    <3>3. \A k \in 1 .. Len(pinned) :
            /\ pinned'[k].version = pinned[k].version /\ pinned'[k].given = pinned[k].given
            /\ pinned'[k].pin = pinned[k].pin
            /\ k # j => pinned'[k] = pinned[k]
      BY <1>3, <1>5
    <3>4. PinsTrue'
      BY <1>5, <1>6, <2>1, <3>3 DEF LibraryInv, PinsTrue
    <3>5. RunsArePinned'
      BY <1>5, <1>6, <2>1, <3>2, <3>3 DEF LibraryInv, LibraryIsPinned, RunsArePinned
    <3> QED
      BY <3>4, <3>5
<1> QED
  BY <1>6, <1>7 DEF LibraryInv, SkillRows, VersionRows, ImportsTrue, AllExist, LinksOf, LibraryIsPinned, LinksMoveForward

\* Imports.  None of the steps between two writes touches the library.
LEMMA ImportMoves ==
  ASSUME LibraryInv, NEW i \in Importers, NEW state, Become(i, state),
         UNCHANGED <<skills, automation, policy, snapshot, pinned>>,
         \/ state = Idle
         \/ /\ state \in ImportState /\ AllExist(state.noted)
            /\ state.step = "write" => state.at <= Len(state.bundle.skills)
  PROVE  LibraryInv'
<1>1. \A k \in Importers : importing'[k] = IF k = i THEN state ELSE importing[k]
  BY DEF Become, LibraryInv, ImportsTrue
<1>2. DOMAIN importing' = Importers
  BY DEF Become, LibraryInv, ImportsTrue
<1>3. \A f : AllExist(f)' <=> AllExist(f)
  BY DEF AllExist
<1>4. ImportsTrue'
  BY <1>1, <1>2, <1>3 DEF LibraryInv, ImportsTrue
<1> QED
  BY <1>4, SkillsSame, GrowthKeeps DEF LibraryInv, SkillRows

LEMMA BundleFacts ==
  ASSUME LibraryInv, NEW i \in Importers, importing[i] # Idle
  PROVE  /\ importing[i] \in ImportState /\ AllExist(importing[i].noted)
         /\ importing[i].noted \in Links
         /\ importing[i].bundle.names \in SUBSET SkillNames
         /\ \A k \in 1 .. Len(importing[i].bundle.skills) :
              importing[i].bundle.skills[k][1] \in SkillNames /\ importing[i].bundle.skills[k][2] \in Instructions
         /\ Len(importing[i].bundle.skills) \in Nat
<1>1. importing[i] \in ImportState /\ AllExist(importing[i].noted)
  BY DEF LibraryInv, ImportsTrue
<1>2. importing[i].bundle \in [skills : Seq(SkillNames \X Instructions), names : SUBSET SkillNames]
  BY <1>1, LibraryAssumption DEF ImportState
<1>3. importing[i].bundle.skills \in Seq(SkillNames \X Instructions)
  BY <1>2
<1>4. \A k \in 1 .. Len(importing[i].bundle.skills) : importing[i].bundle.skills[k] \in SkillNames \X Instructions
  BY <1>3, ElementOfSeq
<1> QED
  BY <1>1, <1>2, <1>3, <1>4, LenProperties DEF ImportState

LEMMA ImportBeginsStep ==
  ASSUME LibraryInv, NEW i \in Importers, NEW bundle \in Bundles, BeginImport(i, bundle)
  PROVE  LibraryInv'
<1> DEFINE state == [step |-> "look", bundle |-> bundle, at |-> 1, verdict |-> "none", noted |-> <<>>]
<1>1. state \in ImportState /\ AllExist(state.noted) /\ state.step # "write"
  BY NoLinks DEF ImportState, AllExist
<1>2. Become(i, state) /\ UNCHANGED <<skills, automation, policy, snapshot, pinned>>
  BY DEF BeginImport
<1> HIDE DEF state
<1> QED
  BY <1>1, <1>2, ImportMoves

\* What an import's state is made of.
LEMMA ImportFields ==
  ASSUME NEW s \in ImportState
  PROVE  s.noted \in Links /\ s.at \in Nat \ {0} /\ s.at + 1 \in Nat \ {0} /\ s.bundle \in Bundles
BY DEF ImportState

\* The skill an import is about.
LEMMA SkillUnderWay ==
  ASSUME LibraryInv, NEW i \in Importers, importing[i] # Idle, importing[i].at <= Len(importing[i].bundle.skills)
  PROVE  /\ importing[i].bundle.skills[importing[i].at][1] \in SkillNames
         /\ importing[i].bundle.skills[importing[i].at][2] \in Instructions
<1>1. importing[i].at \in Nat \ {0} /\ Len(importing[i].bundle.skills) \in Nat
  BY BundleFacts, ImportFields
<1>2. importing[i].at \in 1 .. Len(importing[i].bundle.skills)
  BY <1>1
<1> QED
  BY <1>2, BundleFacts

LEMMA LookSkillStep ==
  ASSUME LibraryInv, NEW i \in Importers, LookSkill(i)
  PROVE  LibraryInv'
<1>1. PICK s : s = importing[i]
  OBVIOUS
<1>2. PICK n : n = s.bundle.skills[s.at][1]
  OBVIOUS
<1>3. /\ s.step = "look" /\ s.at <= Len(s.bundle.skills) /\ s # Idle
      /\ UNCHANGED <<skills, automation, policy, snapshot, pinned>>
  BY <1>1, SMTT(20) DEF LookSkill, Idle
<1>4. s \in ImportState /\ AllExist(s.noted) /\ n \in SkillNames
  BY <1>1, <1>2, <1>3, BundleFacts, SkillUnderWay
<1>5. CASE /\ Known(n)
           /\ Become(i, [s EXCEPT !.at = @ + 1, !.noted = With(@, n, skills[n].current)])
  <2>1. skills[n].current \in Nat /\ skills[n].current > 0
    BY <1>4, <1>5 DEF Known, LibraryInv, SkillRows, SkillRow
  <2>2. PICK g : g = With(s.noted, n, skills[n].current)
    OBVIOUS
  <2>3. g \in Links /\ AllExist(g)
    <3>1. s.noted \in Links
      BY <1>4, ImportFields
    <3>2. /\ g \in Links /\ DOMAIN g = DOMAIN s.noted \cup {n}
          /\ g[n] = skills[n].current /\ \A m \in DOMAIN s.noted : m # n => g[m] = s.noted[m]
      BY <1>4, <2>1, <2>2, <3>1, WithFacts, ZenonT(30)
    <3>3. \A m \in DOMAIN g : g[m] \in 1 .. skills[m].current
      <4> TAKE m \in DOMAIN g
      <4>1. CASE m = n
        BY <2>1, <3>2, <4>1
      <4>2. CASE m # n
        BY <1>4, <3>2, <4>2 DEF AllExist
      <4> QED
        BY <4>1, <4>2
    <3> QED
      BY <3>2, <3>3 DEF AllExist
  <2>4. PICK t : t = [s EXCEPT !.step = "look", !.at = @ + 1, !.noted = g]
    OBVIOUS
  <2>5. t \in ImportState /\ t.noted = g /\ t.step = "look"
    BY <1>4, <2>3, <2>4, ImportFields DEF ImportState
  <2>6. t = [s EXCEPT !.at = @ + 1, !.noted = With(@, n, skills[n].current)]
    BY <1>3, <1>4, <2>2, <2>4 DEF ImportState
  <2> QED
    BY <1>3, <1>5, <2>3, <2>5, <2>6, ImportMoves
<1>6. CASE Become(i, [s EXCEPT !.step = "write", !.verdict = IF Known(n) THEN "revise" ELSE "create"])
  <2>1. PICK verdict \in {"revise", "create"} : Become(i, [s EXCEPT !.step = "write", !.verdict = verdict])
    BY <1>6
  <2>2. PICK t : t = [s EXCEPT !.step = "write", !.verdict = verdict]
    OBVIOUS
  <2>3. t \in ImportState /\ t.noted = s.noted /\ t.at = s.at /\ t.bundle = s.bundle
    BY <1>4, <2>2 DEF ImportState
  <2> QED
    BY <1>3, <1>4, <2>1, <2>2, <2>3, ImportMoves
<1> QED
  BY <1>1, <1>2, <1>5, <1>6 DEF LookSkill, Zenon

LEMMA LookStep ==
  ASSUME LibraryInv, NEW i \in Importers, LookAutomation(i) \/ AbandonImport(i)
  PROVE  LibraryInv'
<1>1. importing[i] # Idle /\ UNCHANGED <<skills, automation, policy, snapshot, pinned>>
  BY DEF LookAutomation, AbandonImport, Idle
<1>2. CASE LookAutomation(i)
  <2>1. PICK verdict \in {"revise", "create"} : Become(i, [importing[i] EXCEPT !.step = "publish", !.verdict = verdict])
    BY <1>2 DEF LookAutomation
  <2>2. PICK t : t = [importing[i] EXCEPT !.step = "publish", !.verdict = verdict]
    OBVIOUS
  <2>3. importing[i] \in ImportState /\ AllExist(importing[i].noted)
    BY <1>1, BundleFacts
  <2>4. t \in ImportState /\ t.noted = importing[i].noted /\ t.step = "publish"
    BY <2>2, <2>3 DEF ImportState
  <2> QED
    BY <1>1, <2>1, <2>2, <2>3, <2>4, ImportMoves
<1>3. CASE AbandonImport(i)
  BY <1>1, <1>3, ImportMoves DEF AbandonImport
<1> QED
  BY <1>2, <1>3

LEMMA ImportWritesStep ==
  ASSUME LibraryInv, NEW i \in Importers, WriteSkill(i)
  PROVE  LibraryInv'
<1>1. PICK s : s = importing[i]
  OBVIOUS
<1>2. PICK n, text : n = s.bundle.skills[s.at][1] /\ text = s.bundle.skills[s.at][2]
  OBVIOUS
<1>3. s # Idle /\ s.step = "write" /\ UNCHANGED <<automation, policy, snapshot, pinned>>
  BY <1>1 DEF WriteSkill, Idle
<1>4. s \in ImportState /\ AllExist(s.noted) /\ n \in SkillNames /\ text \in Instructions
  <2>1. s.at <= Len(s.bundle.skills)
    BY <1>1, <1>3 DEF LibraryInv, ImportsTrue
  <2> QED
    BY <1>1, <1>2, <1>3, <2>1, BundleFacts, SkillUnderWay
<1>5. CASE Become(i, Idle) /\ UNCHANGED skills
  BY <1>3, <1>5, ImportMoves
<1>6. CASE /\ InsertSkill(n, text) \/ AppendVersion(n, text)
           /\ Become(i, [s EXCEPT !.step = "look", !.at = @ + 1, !.noted = With(@, n, skills'[n].current)])
  <2>1. SkillsGrow /\ skills'[n].current \in 1 .. skills'[n].current
    BY <1>4, <1>6, SkillWritten DEF LibraryInv
  <2>2. skills'[n].current \in Nat
    BY <1>4, <2>1 DEF SkillsGrow, SkillRows, SkillRow
  <2>3. \A f \in Links : AllExist(f) => \A m \in DOMAIN f : f[m] \in 1 .. skills'[m].current
    BY <2>1, TextsStay DEF LibraryInv, AllExist
  <2>4. PICK g : g = With(s.noted, n, skills'[n].current)
    OBVIOUS
  <2>5. g \in Links /\ \A m \in DOMAIN g : g[m] \in 1 .. skills'[m].current
    <3>1. s.noted \in Links
      BY <1>4, ImportFields
    <3>2. /\ g \in Links /\ DOMAIN g = DOMAIN s.noted \cup {n}
          /\ g[n] = skills'[n].current /\ \A m \in DOMAIN s.noted : m # n => g[m] = s.noted[m]
      BY <1>4, <2>2, <2>4, <3>1, WithFacts, ZenonT(30)
    <3>3. \A m \in DOMAIN g : g[m] \in 1 .. skills'[m].current
      <4> TAKE m \in DOMAIN g
      <4>1. CASE m = n
        BY <2>1, <3>2, <4>1
      <4>2. CASE m # n
        BY <1>4, <2>3, <3>1, <3>2, <4>2
      <4> QED
        BY <4>1, <4>2
    <3> QED
      BY <3>2, <3>3
  <2>6. PICK t : t = [s EXCEPT !.step = "look", !.at = @ + 1, !.noted = g]
    OBVIOUS
  <2>7. t \in ImportState /\ t.noted = g /\ t.step = "look"
    BY <1>4, <2>5, <2>6, ImportFields DEF ImportState
  <2>8. Become(i, t)
    BY <1>6, <2>4, <2>6
  <2>9. /\ DOMAIN importing' = Importers
        /\ \A k \in Importers : importing'[k] = IF k = i THEN t ELSE importing[k]
    BY <2>8 DEF Become, LibraryInv, ImportsTrue
  <2>10. ImportsTrue'
    <3>1. \A k \in Importers : importing[k] \in ImportState /\ AllExist(importing[k].noted) =>
            \A m \in DOMAIN importing[k].noted : importing[k].noted[m] \in 1 .. skills'[m].current
      BY <2>3, ImportFields
    <3> QED
      BY <2>5, <2>7, <2>9, <3>1 DEF LibraryInv, ImportsTrue, AllExist
  <2> QED
    BY <1>3, <2>1, <2>10, GrowthKeeps DEF LibraryInv, SkillsGrow
<1> QED
  BY <1>1, <1>2, <1>5, <1>6 DEF WriteSkill

LEMMA PublishStep ==
  ASSUME LibraryInv, NEW i \in Importers, Publish(i)
  PROVE  LibraryInv'
<1>1. importing[i] # Idle /\ UNCHANGED <<skills, policy, snapshot, pinned>> /\ Become(i, Idle)
  BY DEF Publish, Idle
<1>2. CASE UNCHANGED automation
  BY <1>1, <1>2, ImportMoves
<1>3. CASE WriteVersion(importing[i].bundle.names, NoPin, importing[i].noted)
  <2>1. ImportsTrue'
    BY <1>1 DEF Become, LibraryInv, ImportsTrue, AllExist
  <2> QED
    BY <1>1, <1>3, <2>1, BundleFacts, VersionWritten DEF Pins
<1> QED
  BY <1>2, <1>3 DEF Publish

LEMMA LibraryStart == LibraryInit => LibraryInv
<1> SUFFICES ASSUME LibraryInit PROVE LibraryInv
  OBVIOUS
<1>1. <<>> \in Seq(Instructions) /\ <<>> \in Seq(VersionRow) /\ <<>> \in Seq(PinnedRow) /\ Len(<<>>) = 0
  BY EmptySeq
<1>2. SkillRows
  BY <1>1 DEF LibraryInit, SkillRows, SkillRow
<1>3. VersionRows /\ PinsTrue /\ ImportsTrue /\ LibraryIsPinned
  BY <1>1 DEF LibraryInit, VersionRows, PinsTrue, ImportsTrue, LibraryIsPinned, RunsArePinned, LinksMoveForward
<1> QED
  BY <1>2, <1>3 DEF LibraryInit, LibraryInv

LEMMA LibraryStep == LibraryInv /\ [LibraryNext]_libraryVars => LibraryInv'
<1> SUFFICES ASSUME LibraryInv, [LibraryNext]_libraryVars PROVE LibraryInv'
  OBVIOUS
<1>1. CASE UNCHANGED libraryVars
  <2>1. UNCHANGED <<skills, automation, policy, snapshot, pinned, importing>>
    BY <1>1 DEF libraryVars
  <2>2. ImportsTrue'
    BY <2>1 DEF LibraryInv, ImportsTrue, AllExist
  <2> QED
    BY <2>1, <2>2, SkillsSame, GrowthKeeps DEF LibraryInv, SkillRows
<1>2. CASE \E p \in Policies : EditPolicy(p)
  <2>1. policy' \in Policies /\ UNCHANGED <<skills, automation, snapshot, pinned, importing>>
    BY <1>2 DEF EditPolicy
  <2>2. ImportsTrue'
    BY <2>1 DEF LibraryInv, ImportsTrue, AllExist
  <2> QED
    BY <2>1, <2>2, SkillsSame, GrowthKeeps DEF LibraryInv, SkillRows
<1>3. CASE LibraryNext
  BY <1>2, <1>3, SkillsStep, AutomationStep, JobsStep, ScheduleStep, AttemptStep, ImportBeginsStep, LookSkillStep, LookStep, ImportWritesStep,
     PublishStep DEF LibraryNext
<1> QED
  BY <1>1, <1>3

\* However skills and automations are revised and imported while jobs and a
\* schedule wait: what runs is what was pinned, and what is linked is never
\* older than what an earlier version linked or the import looked at.
THEOREM LibraryPinned == LibrarySpec => [](LibraryTypeOK /\ LibraryIsPinned)
<1>1. LibraryInv => LibraryTypeOK /\ LibraryIsPinned
  <2> SUFFICES ASSUME LibraryInv PROVE LibraryTypeOK /\ LibraryIsPinned
    OBVIOUS
  <2>1. \A n \in SkillNames : skills[n].versions \in Seq(Instructions) /\ skills[n].current = Len(skills[n].versions)
    BY DEF LibraryInv, SkillRows, SkillRow
  <2>2. automation.current = Len(automation.versions) /\ automation.current \in Nat
    BY DEF LibraryInv, VersionRows
  <2>3. \A v \in 1 .. automation.current : \A n \in DOMAIN automation.versions[v].links :
          automation.versions[v].links[n] \in 1 .. skills[n].current
    BY DEF LibraryInv, VersionRows, AllExist, LinksOf
  <2>4. snapshot.version \in 0 .. automation.current
    BY <2>2 DEF LibraryInv, PinsTrue, NoSnapshot, Prepared
  <2>5. \A v \in 1 .. automation.current : PinOf(v) \in Pins
    BY VersionFacts DEF LibraryInv
  <2>6. \A i \in Importers : importing[i].step \in {"idle", "look", "write", "publish"}
    BY DEF LibraryInv, ImportsTrue, ImportState, Idle
  <2> QED
    BY <2>1, <2>2, <2>3, <2>4, <2>5, <2>6 DEF LibraryInv, LibraryTypeOK, PinsTrue, Pins
<1> QED
  BY <1>1, LibraryStart, LibraryStep, PTL DEF LibrarySpec

-----------------------------------------------------------------------------
(* Draft skills.                                                           *)

Statuses == {"pending", "approved", "rejected", "deleted"}

Draft == [name : DraftNames \cup {DetectedName, ""}, text : {"plain", "grants", ""}, sources : SUBSET Nat,
          status : Statuses, key : Workflows \cup {"none"}, redacted : BOOLEAN]

\* All a proposal's log may say.
Logs == {<<"pending">>, <<"pending", "approved">>, <<"pending", "rejected">>, <<"pending", "deleted">>,
         <<"pending", "approved", "deleted">>, <<"pending", "rejected", "deleted">>}

\* What became of a draft.
Decided(old, new) ==
  \/ old = "pending" /\ new \in {"approved", "rejected", "deleted"}
  \/ old \in {"approved", "rejected"} /\ new = "deleted"

\* Three jobs of the workflow that have completed, on more than one day.
Spanning(sources, w) ==
  /\ sources \subseteq 1 .. Len(completed)
  /\ Cardinality(sources) = 3
  /\ Cardinality({completed[j].day : j \in sources}) >= 2
  /\ \A j \in sources : completed[j].workflow = w

Supported(row) == row.key # "none" /\ row.sources # {} => Spanning(row.sources, row.key)

Published(p, row) ==
  row.status = "approved" => /\ row.name \in DOMAIN library /\ library[row.name] = p
                             /\ row.text # "grants"

Told(p) == history[p] \in Logs /\ history[p][Len(history[p])] = drafts[p].status

Completion == [workflow : Workflows, day : Nat]

ProposalInv ==
  /\ day \in 1 .. MaxDays
  /\ completed \in Seq(Completion)
  /\ drafts \in Seq(Draft)
  /\ history \in Seq(Logs) /\ Len(history) = Len(drafts)
  /\ \A p \in 1 .. Len(drafts) :
       Told(p) /\ Supported(drafts[p]) /\ Published(p, drafts[p])
  /\ \A p, q \in 1 .. Len(drafts) : drafts[p].key = drafts[q].key /\ drafts[p].key # "none" => p = q

\* Jobs that have completed stay as they are; so does what is published.
Onwards ==
  /\ completed' \in Seq(Completion) /\ Len(completed) <= Len(completed')
  /\ \A j \in 1 .. Len(completed) : completed'[j] = completed[j]
  /\ \A n \in DOMAIN library : n \in (DOMAIN library)' /\ library'[n] = library[n]

LEMMA FunctionIsSeq ==
  ASSUME NEW S, NEW n \in Nat, NEW f \in [1 .. n -> S]
  PROVE  f \in Seq(S) /\ Len(f) = n
<1>1. f \in Seq(S)
  BY SeqDef
<1>2. Len(f) \in Nat /\ DOMAIN f = 1 .. Len(f)
  BY <1>1, LenProperties
<1>3. DOMAIN f = 1 .. n
  OBVIOUS
<1> QED
  BY <1>1, <1>2, <1>3

\* A set of places in a sequence has a last one, which is what Latest finds.
LEMMA LatestFacts ==
  ASSUME NEW n \in Nat, NEW S, S \subseteq 1 .. n, S # {}
  PROVE  Latest(S) \in S /\ \A k \in S : k <= Latest(S)
<1> DEFINE T == {m \in Nat : \A k \in S : k <= m}
<1>1. n \in T
  OBVIOUS
<1>2. PICK top \in T : \A m \in T : top <= m
  BY <1>1, LeastNat
<1>3. top \in S
  <2> SUFFICES ASSUME top \notin S PROVE FALSE
    OBVIOUS
  <2>1. \A k \in S : k \in Nat /\ k >= 1 /\ k <= top /\ k # top
    BY <1>2
  <2>2. PICK k \in S : k >= 1 /\ k <= top /\ k # top
    BY <2>1
  <2>3. top - 1 \in Nat /\ \A m \in S : m <= top - 1
    BY <1>2, <2>1, <2>2
  <2> QED
    BY <1>2, <2>3
<1>4. \A k \in S : k <= top
  BY <1>2
<1>5. \E j \in S : \A k \in S : k <= j
  BY <1>3, <1>4
<1> QED
  BY <1>5 DEF Latest

LEMMA TwoDays ==
  ASSUME NEW S, IsFiniteSet(S), NEW a \in S, NEW b \in S, a # b
  PROVE  Cardinality(S) >= 2 /\ Cardinality({a, b}) = 2
<1>1. IsFiniteSet({a}) /\ Cardinality({a}) = 1
  BY FS_Singleton
<1>2. IsFiniteSet({a} \cup {b}) /\ Cardinality({a} \cup {b}) = 2
  <2>1. PICK one : one = {a}
    OBVIOUS
  <2>2. b \notin one /\ IsFiniteSet(one) /\ Cardinality(one) = 1
    BY <1>1, <2>1
  <2>3. IsFiniteSet(one \cup {b}) /\ Cardinality(one \cup {b}) = Cardinality(one) + 1
    BY <2>2, FS_AddElement
  <2> QED
    BY <2>1, <2>2, <2>3
<1>3. {a} \cup {b} = {a, b} /\ {a, b} \in SUBSET S
  OBVIOUS
<1>4. Cardinality({a, b}) <= Cardinality(S) /\ Cardinality(S) \in Nat
  BY <1>3, FS_Subset, FS_CardinalityType
<1> QED
  BY <1>2, <1>3, <1>4

\* The days of some jobs are finitely many.
LEMMA DaysFinite ==
  ASSUME NEW S, IsFiniteSet(S)
  PROVE  IsFiniteSet({completed[j].day : j \in S})
<1> DEFINE f == [j \in S |-> completed[j].day]
           T == {completed[j].day : j \in S}
<1>1. f \in Surjection(S, T)
  BY DEF Surjection
<1> QED
  BY <1>1, FS_Surjection

LEMMA EvidenceSpans ==
  ASSUME ProposalInv, NEW w, Repeated(w)
  PROVE  Spanning(Evidence(w), w)
<1>1. PICK runs : runs = RunsOf(w)
  OBVIOUS
<1>2. Len(completed) \in Nat /\ DOMAIN completed = 1 .. Len(completed)
  BY LenProperties DEF ProposalInv
<1>3. runs \subseteq 1 .. Len(completed) /\ \A j \in runs : completed[j].workflow = w
  BY <1>1, <1>2 DEF RunsOf
<1>4. IsFiniteSet(runs) /\ Cardinality(runs) >= 3 /\ Cardinality({completed[j].day : j \in runs}) >= 2
  <2>1. IsFiniteSet(1 .. Len(completed))
    BY <1>2, FS_Interval
  <2> QED
    BY <1>1, <1>3, <2>1, FS_Subset DEF Repeated
<1>5. PICK one : one = Latest(runs)
  OBVIOUS
<1>6. one \in runs
  <2>1. runs # {}
    BY <1>4, FS_EmptySet
  <2> QED
    BY <1>2, <1>3, <1>5, <2>1, LatestFacts
<1>7. PICK others : others = {j \in runs : completed[j].day # completed[one].day}
  OBVIOUS
<1>8. others # {}
  <2> SUFFICES ASSUME others = {} PROVE FALSE
    OBVIOUS
  <2>1. PICK d : d = completed[one].day
    OBVIOUS
  <2>2. {completed[j].day : j \in runs} = {d}
    BY <1>6, <1>7, <2>1
  <2>3. Cardinality({d}) = 1
    BY FS_Singleton
  <2> QED
    BY <1>4, <2>2, <2>3
<1>9. PICK two : two = Latest(others)
  OBVIOUS
<1>10. two \in runs /\ completed[two].day # completed[one].day /\ one # two
  <2>1. two \in others
    BY <1>2, <1>3, <1>7, <1>8, <1>9, LatestFacts
  <2> QED
    BY <1>7, <2>1
<1>11. Cardinality({one, two}) = 2 /\ IsFiniteSet({one, two})
  <2>1. {one, two} \in SUBSET runs
    BY <1>6, <1>10
  <2> QED
    BY <1>4, <1>6, <1>10, <2>1, TwoDays, FS_Subset
<1>12. PICK rest : rest = runs \ {one, two}
  OBVIOUS
<1>13. rest # {}
  <2> SUFFICES ASSUME rest = {} PROVE FALSE
    OBVIOUS
  <2>1. runs = {one, two}
    BY <1>6, <1>10, <1>12
  <2> QED
    BY <1>4, <1>11, <2>1
<1>14. PICK three : three = Latest(rest)
  OBVIOUS
<1>15. three \in runs /\ three \notin {one, two}
  <2>1. three \in rest
    BY <1>2, <1>3, <1>12, <1>13, <1>14, LatestFacts
  <2> QED
    BY <1>12, <2>1
<1>16. PICK cited : cited = {one, two, three}
  OBVIOUS
<1>17. Evidence(w) = cited
  BY <1>1, <1>5, <1>7, <1>9, <1>12, <1>14, <1>16 DEF Evidence
<1>18. Cardinality(cited) = 3 /\ IsFiniteSet(cited)
  <2>1. cited = {one, two} \cup {three}
    BY <1>16
  <2> QED
    BY <1>11, <1>15, <2>1, FS_AddElement
<1>19. Cardinality({completed[j].day : j \in cited}) >= 2
  <2>1. IsFiniteSet({completed[j].day : j \in cited})
    BY <1>18, DaysFinite
  <2>2. completed[one].day \in {completed[j].day : j \in cited} /\ completed[two].day \in {completed[j].day : j \in cited}
    BY <1>16
  <2> QED
    BY <1>10, <2>1, <2>2, TwoDays
<1> QED
  BY <1>3, <1>6, <1>10, <1>15, <1>16, <1>17, <1>18, <1>19 DEF Spanning

\* A draft that was detected cites what it cited, whatever completes since.
LEMMA StaysSupported ==
  ASSUME ProposalInv, Onwards, NEW row, Supported(row)
  PROVE  Supported(row)'
<1> SUFFICES ASSUME row.key # "none", row.sources # {} PROVE Spanning(row.sources, row.key)'
  BY DEF Supported
<1>1. PICK S, w : S = row.sources /\ w = row.key
  OBVIOUS
<1>2. /\ S \subseteq 1 .. Len(completed) /\ Cardinality(S) = 3
      /\ Cardinality({completed[j].day : j \in S}) >= 2
      /\ \A j \in S : completed[j].workflow = w
  BY <1>1 DEF Supported, Spanning
<1>3. Len(completed) \in Nat /\ Len(completed') \in Nat
  BY LenProperties DEF ProposalInv, Onwards
<1>4. S \subseteq 1 .. Len(completed') /\ \A j \in S : completed'[j] = completed[j]
  BY <1>2, <1>3 DEF Onwards
<1>5. {completed'[j].day : j \in S} = {completed[j].day : j \in S}
  BY <1>4
<1> QED
  BY <1>1, <1>2, <1>4, <1>5 DEF Spanning

LEMMA AppendToOne ==
  ASSUME NEW a, NEW b
  PROVE  Append(<<a>>, b) = <<a, b>>
<1> DEFINE S == {a, b}
<1>1. <<a>> \in Seq(S) /\ b \in S /\ <<a, b>> \in Seq(S) /\ Len(<<a>>) = 1 /\ Len(<<a, b>>) = 2
  OBVIOUS
<1>2. PICK t : t = Append(<<a>>, b)
  OBVIOUS
<1>3. t \in Seq(S) /\ Len(t) = 2 /\ t[1] = a /\ t[2] = b
  BY <1>1, <1>2, AppendProperties
<1>4. \A i \in 1 .. 2 : t[i] = <<a, b>>[i]
  BY <1>3
<1> QED
  BY <1>1, <1>2, <1>3, <1>4, SeqEqual

LEMMA AppendToTwo ==
  ASSUME NEW a, NEW b, NEW c
  PROVE  Append(<<a, b>>, c) = <<a, b, c>>
<1> DEFINE S == {a, b, c}
<1>1. <<a, b>> \in Seq(S) /\ c \in S /\ <<a, b, c>> \in Seq(S) /\ Len(<<a, b>>) = 2 /\ Len(<<a, b, c>>) = 3
  OBVIOUS
<1>2. PICK t : t = Append(<<a, b>>, c)
  OBVIOUS
<1>3. t \in Seq(S) /\ Len(t) = 3 /\ t[1] = a /\ t[2] = b /\ t[3] = c
  BY <1>1, <1>2, AppendProperties
<1>4. \A i \in 1 .. 3 : t[i] = <<a, b, c>>[i]
  BY <1>3
<1> QED
  BY <1>1, <1>2, <1>3, <1>4, SeqEqual

\* An entry is added to the log as the draft is decided.
LEMMA LogGrows ==
  ASSUME NEW h \in Logs, NEW s, Decided(h[Len(h)], s)
  PROVE  Append(h, s) \in Logs /\ Append(h, s)[Len(Append(h, s))] = s
<1>1. CASE h = <<"pending">>
  <2>1. Append(h, s) = <<"pending", s>> /\ s \in {"approved", "rejected", "deleted"}
    BY <1>1, AppendToOne DEF Decided
  <2> QED
    BY <2>1 DEF Logs
<1>2. CASE h \in {<<"pending", "approved">>, <<"pending", "rejected">>}
  <2>1. PICK first : h = <<"pending", first>> /\ first \in {"approved", "rejected"}
    BY <1>2
  <2>2. Append(h, s) = <<"pending", first, s>> /\ s = "deleted"
    BY <2>1, AppendToTwo DEF Decided
  <2> QED
    BY <2>1, <2>2 DEF Logs
<1>3. CASE h \in {<<"pending", "deleted">>, <<"pending", "approved", "deleted">>, <<"pending", "rejected", "deleted">>}
  <2>1. h[Len(h)] = "deleted"
    BY <1>3
  <2> QED
    BY <2>1 DEF Decided
<1> QED
  BY <1>1, <1>2, <1>3 DEF Logs

\* No log says a thing twice.
LEMMA LogsDiffer ==
  ASSUME NEW h \in Logs
  PROVE  \A a, b \in DOMAIN h : h[a] = h[b] => a = b
BY DEF Logs

\* What no action on drafts is about.
LEMMA NothingDecided ==
  ASSUME ProposalInv, Onwards, day' \in 1 .. MaxDays, UNCHANGED <<drafts, history>>
  PROVE  ProposalInv'
<1>1. \A p \in 1 .. Len(drafts) : Told(p)' /\ Supported(drafts[p])' /\ Published(p, drafts[p])'
  <2> TAKE p \in 1 .. Len(drafts)
  <2>1. Told(p)' /\ Published(p, drafts[p])'
    BY DEF ProposalInv, Told, Published, Onwards
  <2>2. PICK row : row = drafts[p]
    OBVIOUS
  <2>3. Supported(row)'
    BY <2>2, StaysSupported DEF ProposalInv
  <2>4. drafts'[p] = row
    BY <2>2
  <2> QED
    BY <2>1, <2>3, <2>4 DEF Supported
<1> QED
  BY <1>1 DEF ProposalInv, Onwards

\* Some drafts are changed: decided, emptied, or both.
LEMMA DraftsChange ==
  ASSUME ProposalInv, Onwards, day' \in 1 .. MaxDays,
         NEW changes, DOMAIN changes \subseteq 1 .. Len(drafts),
         \A p \in DOMAIN changes :
           /\ changes[p] \in Draft
           /\ changes[p].key = drafts[p].key /\ changes[p].sources \in {{}, drafts[p].sources}
           /\ changes[p].status # drafts[p].status => Decided(drafts[p].status, changes[p].status)
           /\ Published(p, changes[p])',
         UpdateDrafts(changes)
  PROVE  ProposalInv'
<1>1. PICK n : n = Len(drafts)
  OBVIOUS
<1>2. n \in Nat /\ DOMAIN drafts = 1 .. n /\ Len(history) = n
  BY <1>1, LenProperties DEF ProposalInv
<1>3. \A p \in 1 .. n : drafts[p] \in Draft /\ history[p] \in Logs
  BY <1>1, <1>2, ElementOfSeq DEF ProposalInv
<1>4. \A p \in DOMAIN changes :
        /\ changes[p] \in Draft
        /\ changes[p].key = drafts[p].key /\ changes[p].sources \in {{}, drafts[p].sources}
        /\ changes[p].status # drafts[p].status => Decided(drafts[p].status, changes[p].status)
        /\ Published(p, changes[p])'
  OBVIOUS
<1>5. DOMAIN changes \subseteq 1 .. n
  BY <1>1
<1>6. /\ drafts' = [p \in 1 .. n |-> IF p \in DOMAIN changes THEN changes[p] ELSE drafts[p]]
      /\ history' = [p \in 1 .. n |->
           IF p \in DOMAIN changes /\ drafts[p].status # changes[p].status
           THEN Append(history[p], changes[p].status) ELSE history[p]]
  BY <1>2 DEF UpdateDrafts, Logged
<1>7. ASSUME NEW p \in 1 .. n
      PROVE  /\ drafts'[p] \in Draft /\ history'[p] \in Logs
             /\ history'[p][Len(history'[p])] = drafts'[p].status
             /\ drafts'[p].key = drafts[p].key
             /\ Supported(drafts[p])' /\ Published(p, drafts[p])'
  <2>1. Told(p) /\ Supported(drafts[p]) /\ Published(p, drafts[p])
    BY <1>1 DEF ProposalInv
  <2>2. CASE p \notin DOMAIN changes
    <3>1. drafts'[p] = drafts[p] /\ history'[p] = history[p]
      BY <1>6, <2>2
    <3>2. PICK row : row = drafts[p]
      OBVIOUS
    <3>3. Supported(row)'
      BY <2>1, <3>2, StaysSupported
    <3>4. Published(p, row)'
      BY <2>1, <3>2 DEF Published, Onwards
    <3> QED
      BY <1>3, <2>1, <3>1, <3>2, <3>3, <3>4 DEF Told, Supported, Published
  <2>3. CASE p \in DOMAIN changes
    <3>1. PICK row : row = changes[p]
      OBVIOUS
    <3>2. drafts'[p] = row
      BY <1>6, <2>3, <3>1
    <3>3. row \in Draft /\ row.key = drafts[p].key /\ row.sources \in {{}, drafts[p].sources}
      BY <1>4, <2>3, <3>1
    <3>4. Published(p, row)'
      BY <1>4, <2>3, <3>1
    <3>5. Supported(row)'
      <4>1. Supported(row)
        BY <2>1, <3>3 DEF Supported
      <4> QED
        BY <4>1, StaysSupported
    <3>6. history'[p] \in Logs /\ history'[p][Len(history'[p])] = row.status
      <4>1. CASE row.status = drafts[p].status
        <5>1. history'[p] = history[p]
          BY <1>6, <3>1, <4>1
        <5> QED
          BY <1>3, <2>1, <4>1, <5>1 DEF Told
      <4>2. CASE row.status # drafts[p].status
        <5>1. history'[p] = Append(history[p], row.status)
          BY <1>6, <2>3, <3>1, <4>2
        <5>2. Decided(drafts[p].status, row.status)
          BY <1>4, <2>3, <3>1, <4>2
        <5>3. history[p] \in Logs /\ Decided(history[p][Len(history[p])], row.status)
          BY <1>3, <2>1, <5>2 DEF Told
        <5> QED
          BY <5>1, <5>3, LogGrows
      <4> QED
        BY <4>1, <4>2
    <3> QED
      BY <3>2, <3>3, <3>4, <3>5, <3>6 DEF Supported, Published
  <2> QED
    BY <2>2, <2>3
<1>8. drafts' \in Seq(Draft) /\ Len(drafts') = n /\ history' \in Seq(Logs) /\ Len(history') = n
  <2>1. drafts' \in [1 .. n -> Draft] /\ history' \in [1 .. n -> Logs]
    BY <1>6, <1>7
  <2> QED
    BY <1>2, <2>1, FunctionIsSeq
<1>9. \A p \in 1 .. n : Told(p)' /\ Supported(drafts[p])' /\ Published(p, drafts[p])'
  BY <1>7 DEF Told
<1>10. \A p, q \in 1 .. n : drafts'[p].key = drafts'[q].key /\ drafts'[p].key # "none" => p = q
  BY <1>1, <1>7 DEF ProposalInv
<1> QED
  BY <1>8, <1>9, <1>10 DEF ProposalInv, Onwards

\* Two sequences, one after the other.
LEMMA Joined ==
  ASSUME NEW S, NEW s \in Seq(S), NEW t \in Seq(S)
  PROVE  /\ s \o t \in Seq(S) /\ Len(s \o t) = Len(s) + Len(t)
         /\ \A i \in 1 .. Len(s) : (s \o t)[i] = s[i]
         /\ \A i \in (Len(s) + 1) .. (Len(s) + Len(t)) : (s \o t)[i] = t[i - Len(s)]
<1>1. Len(s) \in Nat /\ Len(t) \in Nat
  BY LenProperties
<1> QED
  BY <1>1, ConcatProperties

\* Drafts are added, each of a user or of a workflow that had none.
LEMMA DraftsAdded ==
  ASSUME ProposalInv, NEW rows \in Seq(Draft), NEW logs \in Seq(Logs), Len(logs) = Len(rows),
         drafts' = drafts \o rows, history' = history \o logs, UNCHANGED <<day, completed, library>>,
         \A k \in 1 .. Len(rows) :
           /\ logs[k] = <<"pending">> /\ rows[k].status = "pending"
           /\ Supported(rows[k])
           /\ rows[k].key # "none" => /\ \A p \in 1 .. Len(drafts) : drafts[p].key # rows[k].key
                                      /\ \A m \in 1 .. Len(rows) : rows[m].key = rows[k].key => m = k
  PROVE  ProposalInv'
<1>1. PICK n, add : n = Len(drafts) /\ add = Len(rows)
  OBVIOUS
<1>2. n \in Nat /\ add \in Nat /\ Len(history) = n /\ Len(logs) = add
  BY <1>1, LenProperties DEF ProposalInv
<1>3. drafts \in Seq(Draft) /\ history \in Seq(Logs)
  BY DEF ProposalInv
<1>4. /\ drafts' \in Seq(Draft) /\ Len(drafts') = n + add
      /\ \A p \in 1 .. n : drafts'[p] = drafts[p]
      /\ \A p \in (n + 1) .. (n + add) : drafts'[p] = rows[p - n]
  BY <1>1, <1>2, <1>3, Joined
<1>5. /\ history' \in Seq(Logs) /\ Len(history') = n + add
      /\ \A p \in 1 .. n : history'[p] = history[p]
      /\ \A p \in (n + 1) .. (n + add) : history'[p] = logs[p - n]
  <2>1. /\ history \o logs \in Seq(Logs) /\ Len(history \o logs) = Len(history) + Len(logs)
        /\ \A p \in 1 .. Len(history) : (history \o logs)[p] = history[p]
        /\ \A p \in (Len(history) + 1) .. (Len(history) + Len(logs)) :
             (history \o logs)[p] = logs[p - Len(history)]
    BY <1>3, Joined, ZenonT(30)
  <2> QED
    BY <1>2, <2>1
<1>6. \A p \in (n + 1) .. (n + add) : p - n \in 1 .. Len(rows)
  BY <1>1, <1>2
<1>7. ASSUME NEW p \in 1 .. (n + add)
      PROVE  Told(p)' /\ Supported(drafts[p])' /\ Published(p, drafts[p])'
  <2>1. CASE p \in 1 .. n
    <3>1. Told(p) /\ Supported(drafts[p]) /\ Published(p, drafts[p])
      BY <1>1, <2>1 DEF ProposalInv
    <3>2. drafts'[p] = drafts[p] /\ history'[p] = history[p] /\ completed' = completed /\ library' = library
      BY <1>4, <1>5, <2>1
    <3> QED
      BY <3>1, <3>2 DEF Told, Supported, Spanning, Published
  <2>2. CASE p \in (n + 1) .. (n + add)
    <3>1. PICK row : row = rows[p - n]
      OBVIOUS
    <3>2. drafts'[p] = row /\ history'[p] = <<"pending">> /\ completed' = completed
      BY <1>4, <1>5, <1>6, <2>2, <3>1, SMTT(20)
    <3>3. Supported(row) /\ row.status = "pending"
      BY <1>6, <2>2, <3>1
    <3> QED
      BY <3>2, <3>3 DEF Told, Supported, Spanning, Published, Logs
  <2>3. p \in 1 .. n \/ p \in (n + 1) .. (n + add)
    BY <1>2
  <2> QED
    BY <2>1, <2>2, <2>3
<1>8. ASSUME NEW p \in 1 .. (n + add), NEW q \in 1 .. (n + add),
             drafts'[p].key = drafts'[q].key, drafts'[p].key # "none", p < q
      PROVE  FALSE
  <2>1. CASE q \in 1 .. n
    BY <1>1, <1>2, <1>4, <1>8, <2>1 DEF ProposalInv
  <2>2. CASE q \in (n + 1) .. (n + add) /\ p \in 1 .. n
    <3>1. drafts[p].key = rows[q - n].key /\ drafts[p].key # "none"
      BY <1>4, <1>8, <2>2
    <3> QED
      BY <1>1, <1>6, <2>2, <3>1
  <2>3. CASE q \in (n + 1) .. (n + add) /\ p \in (n + 1) .. (n + add)
    <3>1. rows[p - n].key = rows[q - n].key /\ rows[q - n].key # "none"
      BY <1>4, <1>8, <2>3
    <3>2. p - n = q - n
      BY <1>6, <2>3, <3>1
    <3> QED
      BY <1>2, <1>8, <2>3, <3>2
  <2> QED
    BY <1>2, <2>1, <2>2, <2>3
<1>9. \A p, q \in 1 .. (n + add) : drafts'[p].key = drafts'[q].key /\ drafts'[p].key # "none" => p = q
  <2> SUFFICES ASSUME NEW p \in 1 .. (n + add), NEW q \in 1 .. (n + add),
                      drafts'[p].key = drafts'[q].key, drafts'[p].key # "none", p # q
               PROVE  FALSE
    OBVIOUS
  <2>1. p < q \/ q < p
    BY <1>2
  <2> QED
    BY <1>8, <2>1
<1> QED
  BY <1>4, <1>5, <1>7, <1>9 DEF ProposalInv

LEMMA ProposalInitially ==
  ASSUME ProposalInit
  PROVE  ProposalInv
BY ProposalAssumption, EmptySeq DEF ProposalInit, ProposalInv

LEMMA WorldSteps ==
  ASSUME ProposalInv,
         (\E w \in Workflows : JobCompletes(w)) \/ NextDay \/ (\E n \in DraftNames : UserCreatesSkill(n))
  PROVE  ProposalInv'
<1>1. Len(completed) \in Nat /\ completed \in Seq(Completion) /\ day \in 1 .. MaxDays /\ MaxDays \in Nat
  BY LenProperties, ProposalAssumption DEF ProposalInv
<1>2. CASE \E w \in Workflows : JobCompletes(w)
  <2>1. PICK w \in Workflows : JobCompletes(w)
    BY <1>2
  <2>2. PICK row : row = [workflow |-> w, day |-> day]
    OBVIOUS
  <2>3. row \in Completion
    BY <1>1, <2>2 DEF Completion
  <2>4. completed' = Append(completed, row) /\ UNCHANGED <<day, drafts, history, library>>
    BY <2>1, <2>2 DEF JobCompletes
  <2>5. /\ completed' \in Seq(Completion) /\ Len(completed') = Len(completed) + 1
        /\ \A j \in 1 .. Len(completed) : completed'[j] = completed[j]
    BY <1>1, <2>3, <2>4, AppendProperties
  <2>6. Onwards
    BY <1>1, <2>4, <2>5 DEF Onwards
  <2> QED
    BY <1>1, <2>4, <2>6, NothingDecided
<1>3. CASE NextDay
  <2>1. Onwards /\ UNCHANGED <<drafts, history>> /\ day' \in 1 .. MaxDays
    BY <1>1, <1>3 DEF NextDay, Onwards
  <2> QED
    BY <2>1, NothingDecided
<1>4. CASE \E n \in DraftNames : UserCreatesSkill(n)
  <2>1. PICK n \in DraftNames : UserCreatesSkill(n)
    BY <1>4
  <2>2. \A k \in DOMAIN library : k \in (DOMAIN library)' /\ library'[k] = library[k]
    BY <2>1 DEF UserCreatesSkill
  <2>3. Onwards /\ UNCHANGED <<drafts, history>> /\ day' \in 1 .. MaxDays
    BY <1>1, <2>1, <2>2 DEF UserCreatesSkill, Onwards
  <2> QED
    BY <2>3, NothingDecided
<1> QED
  BY <1>2, <1>3, <1>4

LEMMA ProposeStep ==
  ASSUME ProposalInv,
         NEW n \in DraftNames, NEW text \in {"plain", "grants"}, NEW sources \in SUBSET (1 .. MaxCompletions),
         Propose(n, text, sources)
  PROVE  ProposalInv'
<1>1. PICK row : row = [name |-> n, text |-> text, sources |-> sources, status |-> "pending",
                        key |-> "none", redacted |-> FALSE]
  OBVIOUS
<1>2. row \in Draft /\ row.status = "pending" /\ row.key = "none"
  <2>1. sources \in SUBSET Nat
    BY ProposalAssumption
  <2> QED
    BY <1>1, <2>1 DEF Draft, Statuses
<1>3. PICK log : log = <<"pending">>
  OBVIOUS
<1>4. drafts' = Append(drafts, row) /\ history' = Append(history, log) /\ UNCHANGED <<day, completed, library>>
  BY <1>1, <1>3 DEF Propose, InsertDraft
<1>5. log \in Logs
  BY <1>3 DEF Logs
<1>6. drafts' = drafts \o <<row>> /\ history' = history \o <<log>>
  BY <1>2, <1>4, <1>5, AppendIsConcat DEF ProposalInv
<1>7. PICK rows, logs : rows = <<row>> /\ logs = <<log>>
  OBVIOUS
<1>71. /\ rows \in Seq(Draft) /\ Len(rows) = 1 /\ rows[1] = row
       /\ logs \in Seq(Logs) /\ Len(logs) = 1 /\ logs[1] = log
  BY <1>2, <1>5, <1>7
<1>72. drafts' = drafts \o rows /\ history' = history \o logs
  BY <1>6, <1>7
<1>8. Supported(row)
  BY <1>2 DEF Supported
<1>9. \A k \in 1 .. Len(rows) :
        /\ logs[k] = <<"pending">> /\ rows[k].status = "pending"
        /\ Supported(rows[k]) /\ rows[k].key = "none"
  <2>1. \A k \in 1 .. Len(rows) : rows[k] = row /\ logs[k] = log
    BY <1>71
  <2> QED
    BY <1>2, <1>3, <1>8, <2>1
<1> QED
  BY <1>4, <1>71, <1>72, <1>9, DraftsAdded

\* The workflows a detection drafts are finitely many: each has completed runs.
LEMMA FreshFinite ==
  ASSUME ProposalInv, NEW fresh, \A w \in fresh : Repeated(w)
  PROVE  Cardinality(fresh) \in Nat
<1>1. PICK ran : ran = {completed[j].workflow : j \in 1 .. Len(completed)}
  OBVIOUS
<1>2. IsFiniteSet(ran)
  <2> DEFINE f == [j \in 1 .. Len(completed) |-> completed[j].workflow]
  <2>1. f \in Surjection(1 .. Len(completed), ran)
    BY <1>1 DEF Surjection
  <2>2. Len(completed) \in Int
    BY LenProperties DEF ProposalInv
  <2>3. IsFiniteSet(1 .. Len(completed))
    BY <2>2, FS_Interval
  <2> QED
    BY <2>1, <2>3, FS_Surjection
<1>3. fresh \subseteq ran
  <2> SUFFICES ASSUME NEW w \in fresh PROVE w \in ran
    OBVIOUS
  <2>1. RunsOf(w) # {}
    <3>1. Cardinality(RunsOf(w)) >= 3
      BY DEF Repeated
    <3> QED
      BY <3>1, FS_EmptySet
  <2>2. PICK j \in DOMAIN completed : completed[j].workflow = w
    BY <2>1 DEF RunsOf
  <2>3. DOMAIN completed = 1 .. Len(completed)
    BY LenProperties DEF ProposalInv
  <2> QED
    BY <1>1, <2>2, <2>3
<1> QED
  BY <1>2, <1>3, FS_Subset, FS_CardinalityType

LEMMA DetectStep ==
  ASSUME ProposalInv, DetectRepeated
  PROVE  ProposalInv'
<1>1. PICK fresh : fresh = {w \in Workflows : Repeated(w) /\ ~DetectedBefore(w)}
  OBVIOUS
<1>2. PICK n : n = Cardinality(fresh)
  OBVIOUS
<1>3. n \in Nat
  BY <1>1, <1>2, FreshFinite
<1>4. PICK order \in [1 .. n -> fresh] :
        /\ \A a, b \in DOMAIN order : order[a] = order[b] => a = b
        /\ drafts' = drafts \o [k \in DOMAIN order |->
             [name |-> DetectedName, text |-> "plain", sources |-> Evidence(order[k]), status |-> "pending",
              key |-> order[k], redacted |-> FALSE]]
        /\ history' = history \o [k \in DOMAIN order |-> <<"pending">>]
  BY <1>1, <1>2 DEF DetectRepeated
<1>5. PICK rows, logs :
        /\ rows = [k \in 1 .. n |->
             [name |-> DetectedName, text |-> "plain", sources |-> Evidence(order[k]), status |-> "pending",
              key |-> order[k], redacted |-> FALSE]]
        /\ logs = [k \in 1 .. n |-> <<"pending">>]
  OBVIOUS
<1>6. drafts' = drafts \o rows /\ history' = history \o logs /\ UNCHANGED <<day, completed, library>>
  BY <1>4, <1>5 DEF DetectRepeated
<1>7. ASSUME NEW k \in 1 .. n
      PROVE  /\ rows[k] \in Draft /\ Supported(rows[k])
             /\ rows[k].status = "pending" /\ rows[k].key = order[k]
             /\ order[k] \in Workflows /\ ~DetectedBefore(order[k])
  <2>1. order[k] \in Workflows /\ Repeated(order[k]) /\ ~DetectedBefore(order[k])
    BY <1>1, <1>4
  <2>2. PICK w, cited : w = order[k] /\ cited = Evidence(w)
    OBVIOUS
  <2>3. Spanning(cited, w)
    BY <2>1, <2>2, EvidenceSpans
  <2>4. rows[k] = [name |-> DetectedName, text |-> "plain", sources |-> cited, status |-> "pending",
                   key |-> w, redacted |-> FALSE]
    BY <1>5, <2>2
  <2>5. cited \subseteq Nat
    <3>1. Len(completed) \in Nat
      BY LenProperties DEF ProposalInv
    <3> QED
      BY <2>3, <3>1 DEF Spanning
  <2> QED
    BY <2>1, <2>2, <2>3, <2>4, <2>5 DEF Draft, Statuses, Supported
<1>8. rows \in [1 .. n -> Draft] /\ logs \in [1 .. n -> Logs]
  BY <1>5, <1>7 DEF Logs
<1>9. rows \in Seq(Draft) /\ Len(rows) = n /\ logs \in Seq(Logs) /\ Len(logs) = n
  BY <1>3, <1>8, FunctionIsSeq
<1>10. ASSUME NEW k \in 1 .. n
       PROVE  /\ logs[k] = <<"pending">>
              /\ \A p \in 1 .. Len(drafts) : drafts[p].key # rows[k].key
              /\ \A m \in 1 .. n : rows[m].key = rows[k].key => m = k
  <2>1. DOMAIN drafts = 1 .. Len(drafts) /\ DOMAIN order = 1 .. n
    BY <1>4, LenProperties DEF ProposalInv
  <2>2. \A p \in 1 .. Len(drafts) : drafts[p].key # order[k]
    BY <1>7, <2>1 DEF DetectedBefore
  <2> QED
    BY <1>4, <1>5, <1>7, <2>1, <2>2
<1> QED
  BY <1>6, <1>7, <1>9, <1>10, DraftsAdded

LEMMA DraftTypes ==
  ASSUME ProposalInv, NEW p \in DOMAIN drafts
  PROVE  /\ p \in 1 .. Len(drafts) /\ drafts[p] \in Draft /\ drafts[p].status \in Statuses
         /\ DOMAIN drafts = 1 .. Len(drafts)
         /\ Published(p, drafts[p])
<1>1. DOMAIN drafts = 1 .. Len(drafts)
  BY LenProperties DEF ProposalInv
<1>2. drafts[p] \in Draft
  BY <1>1, ElementOfSeq DEF ProposalInv
<1> QED
  BY <1>1, <1>2 DEF Draft, ProposalInv

LEMMA ApproveStep ==
  ASSUME ProposalInv, NEW p, ApproveDraft(p)
  PROVE  ProposalInv'
<1>1. PICK row : row = drafts[p]
  OBVIOUS
<1>2. p \in DOMAIN drafts /\ row.status = "pending" /\ row.text = "plain" /\ row.name \notin DOMAIN library
  BY <1>1 DEF ApproveDraft, Free
<1>3. row \in Draft /\ DOMAIN drafts = 1 .. Len(drafts) /\ p \in 1 .. Len(drafts)
  BY <1>1, <1>2, DraftTypes
<1>4. PICK new : new = [row EXCEPT !.status = "approved"]
  OBVIOUS
<1>5. /\ new \in Draft /\ new.status = "approved" /\ new.key = row.key /\ new.sources = row.sources
      /\ new.name = row.name /\ new.text = "plain"
  BY <1>2, <1>3, <1>4 DEF Draft, Statuses
<1>6. PICK changes : changes = [q \in {p} |-> [drafts[q] EXCEPT !.status = "approved"]]
  OBVIOUS
<1>7. DOMAIN changes = {p} /\ changes[p] = new
  BY <1>1, <1>4, <1>6
<1>8. /\ UpdateDrafts(changes) /\ UNCHANGED <<day, completed>>
      /\ library' = [n \in DOMAIN library \cup {row.name} |-> IF n \in DOMAIN library THEN library[n] ELSE p]
  BY <1>1, <1>6 DEF ApproveDraft
<1>9. Published(p, new)'
  BY <1>2, <1>5, <1>8 DEF Published
<1>10. Onwards
  BY <1>8, LenProperties DEF ProposalInv, Onwards
<1>11. day' \in 1 .. MaxDays
  BY <1>8 DEF ProposalInv
<1>12. \A q \in DOMAIN changes :
         /\ changes[q] \in Draft
         /\ changes[q].key = drafts[q].key /\ changes[q].sources \in {{}, drafts[q].sources}
         /\ changes[q].status # drafts[q].status => Decided(drafts[q].status, changes[q].status)
         /\ Published(q, changes[q])'
  <2>1. /\ new \in Draft
        /\ new.key = drafts[p].key /\ new.sources \in {{}, drafts[p].sources}
        /\ new.status # drafts[p].status => Decided(drafts[p].status, new.status)
        /\ Published(p, new)'
    BY <1>1, <1>2, <1>5, <1>9 DEF Decided
  <2> QED
    BY <1>7, <2>1
<1>13. DOMAIN changes \subseteq 1 .. Len(drafts)
  BY <1>3, <1>7
<1> QED
  BY <1>8, <1>10, <1>11, <1>12, <1>13, DraftsChange

\* Drafts are rejected, deleted or redacted, and nothing is published.
LEMMA DraftsDropped ==
  ASSUME ProposalInv, UNCHANGED <<day, completed, library>>,
         NEW changes, DOMAIN changes \subseteq DOMAIN drafts,
         \A p \in DOMAIN changes :
           /\ changes[p] \in Draft /\ changes[p].status # "approved"
           /\ changes[p].key = drafts[p].key /\ changes[p].sources \in {{}, drafts[p].sources}
           /\ changes[p].status # drafts[p].status => Decided(drafts[p].status, changes[p].status),
         UpdateDrafts(changes)
  PROVE  ProposalInv'
<1>1. Onwards /\ day' \in 1 .. MaxDays /\ DOMAIN drafts = 1 .. Len(drafts)
  BY LenProperties DEF ProposalInv, Onwards
<1>2. \A p \in DOMAIN changes : Published(p, changes[p])'
  BY DEF Published
<1> QED
  BY <1>1, <1>2, DraftsChange

LEMMA EmptiedFacts ==
  ASSUME NEW row \in Draft
  PROVE  /\ Emptied(row) \in Draft /\ Emptied(row).status = row.status
         /\ Emptied(row).key = row.key /\ Emptied(row).sources = {}
BY DEF Emptied, Draft

LEMMA RejectDeleteSteps ==
  ASSUME ProposalInv, NEW p, RejectDraft(p) \/ DeleteDraft(p)
  PROVE  ProposalInv'
<1>1. PICK row : row = drafts[p]
  OBVIOUS
<1>2. p \in DOMAIN drafts /\ UNCHANGED <<day, completed, library>>
  BY DEF RejectDraft, DeleteDraft
<1>3. row \in Draft /\ row.status \in Statuses
  BY <1>1, <1>2, DraftTypes
<1>4. PICK new, changes :
        /\ changes = [q \in {p} |-> new] /\ UpdateDrafts(changes)
        /\ new \in Draft /\ new.status # "approved" /\ new.key = row.key /\ new.sources \in {{}, row.sources}
        /\ Decided(row.status, new.status)
  <2>1. CASE RejectDraft(p)
    <3>1. PICK changes : changes = [q \in {p} |-> [drafts[q] EXCEPT !.status = "rejected"]] /\ UpdateDrafts(changes)
      BY <2>1 DEF RejectDraft
    <3>2. PICK new : new = [row EXCEPT !.status = "rejected"]
      OBVIOUS
    <3>3. changes = [q \in {p} |-> new]
      BY <1>1, <3>1, <3>2
    <3>4. /\ new \in Draft /\ new.status = "rejected" /\ new.key = row.key /\ new.sources = row.sources
      BY <1>3, <3>2 DEF Draft, Statuses
    <3>5. Decided(row.status, new.status)
      BY <1>1, <2>1, <3>4 DEF RejectDraft, Decided
    <3> QED
      BY <3>1, <3>3, <3>4, <3>5
  <2>2. CASE DeleteDraft(p)
    <3>1. PICK changes : changes = [q \in {p} |-> [Emptied(drafts[q]) EXCEPT !.status = "deleted"]] /\ UpdateDrafts(changes)
      BY <2>2 DEF DeleteDraft
    <3>2. PICK empty : empty = Emptied(row)
      OBVIOUS
    <3>3. PICK new : new = [empty EXCEPT !.status = "deleted"]
      OBVIOUS
    <3>4. changes = [q \in {p} |-> new]
      BY <1>1, <3>1, <3>2, <3>3
    <3>5. empty \in Draft /\ empty.key = row.key /\ empty.sources = {}
      BY <1>3, <3>2, EmptiedFacts
    <3>6. new \in Draft /\ new.status = "deleted" /\ new.key = row.key /\ new.sources = {}
      BY <3>3, <3>5 DEF Draft, Statuses
    <3>7. Decided(row.status, new.status)
      BY <1>1, <1>3, <2>2, <3>6 DEF DeleteDraft, Decided, Statuses
    <3> QED
      BY <3>1, <3>4, <3>6, <3>7
  <2> QED
    BY <2>1, <2>2
<1>5. DOMAIN changes = {p} /\ changes[p] = new
  BY <1>4
<1> QED
  BY <1>1, <1>2, <1>4, <1>5, DraftsDropped

LEMMA RedactStep ==
  ASSUME ProposalInv, RedactRejected
  PROVE  ProposalInv'
<1>1. PICK old \in SUBSET {p \in DOMAIN drafts : drafts[p].status = "rejected" /\ ~drafts[p].redacted} :
        UpdateDrafts([p \in old |-> [Emptied(drafts[p]) EXCEPT !.redacted = TRUE]])
  BY DEF RedactRejected
<1>2. PICK changes : changes = [p \in old |-> [Emptied(drafts[p]) EXCEPT !.redacted = TRUE]]
  OBVIOUS
<1>3. ASSUME NEW p \in old
      PROVE  /\ changes[p] \in Draft /\ changes[p].status = "rejected" /\ drafts[p].status = "rejected"
             /\ changes[p].key = drafts[p].key /\ changes[p].sources = {}
  <2>1. p \in DOMAIN drafts /\ drafts[p].status = "rejected"
    BY <1>1
  <2>2. PICK row, empty : row = drafts[p] /\ empty = Emptied(row)
    OBVIOUS
  <2>3. row \in Draft
    BY <2>1, <2>2, DraftTypes
  <2>4. empty \in Draft /\ empty.status = row.status /\ empty.key = row.key /\ empty.sources = {}
    BY <2>2, <2>3, EmptiedFacts
  <2>5. changes[p] = [empty EXCEPT !.redacted = TRUE]
    BY <1>2, <2>2
  <2> QED
    BY <2>1, <2>2, <2>4, <2>5 DEF Draft
<1>4. DOMAIN changes = old /\ old \subseteq DOMAIN drafts /\ UpdateDrafts(changes) /\ UNCHANGED <<day, completed, library>>
  BY <1>1, <1>2 DEF RedactRejected
<1> QED
  BY <1>3, <1>4, DraftsDropped

LEMMA ProposalStep ==
  ASSUME ProposalInv, [ProposalNext]_proposalVars
  PROVE  ProposalInv'
<1>1. CASE \/ \E w \in Workflows : JobCompletes(w)
           \/ NextDay
           \/ \E n \in DraftNames : UserCreatesSkill(n)
  BY <1>1, WorldSteps
<1>2. CASE \E n \in DraftNames, text \in {"plain", "grants"}, sources \in SUBSET (1 .. MaxCompletions) :
             Propose(n, text, sources)
  BY <1>2, ProposeStep
<1>3. CASE DetectRepeated
  BY <1>3, DetectStep
<1>4. CASE \E p \in 1 .. MaxProposals : ApproveDraft(p) \/ RejectDraft(p) \/ DeleteDraft(p)
  BY <1>4, ApproveStep, RejectDeleteSteps
<1>5. CASE RedactRejected
  BY <1>5, RedactStep
<1>6. CASE UNCHANGED proposalVars
  <2>1. Onwards /\ day' \in 1 .. MaxDays /\ UNCHANGED <<drafts, history>>
    BY <1>6, LenProperties DEF proposalVars, ProposalInv, Onwards
  <2> QED
    BY <2>1, NothingDecided
<1> QED
  BY <1>1, <1>2, <1>3, <1>4, <1>5, <1>6 DEF ProposalNext

LEMMA ProposalsFromInv ==
  ASSUME ProposalInv
  PROVE  ProposalsHold
<1>1. DOMAIN drafts = 1 .. Len(drafts) /\ Len(history) = Len(drafts)
  BY LenProperties DEF ProposalInv
<1>2. DecisionsKept
  BY <1>1, LogsDiffer DEF DecisionsKept, ProposalInv, Told
<1>3. EvidenceSpansDays
  BY <1>1 DEF EvidenceSpansDays, ProposalInv, Supported, Spanning
<1>4. ApprovedIsPublished
  BY <1>1 DEF ApprovedIsPublished, ProposalInv, Published
<1> QED
  BY <1>2, <1>3, <1>4 DEF ProposalsHold

\* Jobs have completed by today; and a draft that is deleted or redacted is
\* empty, and one that is redacted was not approved.
Retained ==
  /\ \A j \in DOMAIN completed : completed[j].day \in 1 .. day
  /\ \A p \in DOMAIN drafts :
       /\ drafts[p].status = "deleted" \/ drafts[p].redacted => Emptied(drafts[p]) = drafts[p]
       /\ drafts[p].redacted => drafts[p].status \in {"rejected", "deleted"}

LEMMA RetainedStep ==
  ASSUME ProposalInv, Retained, [ProposalNext]_proposalVars
  PROVE  Retained'
<1> DEFINE Kept(row) == /\ row.status = "deleted" \/ row.redacted => Emptied(row) = row
                        /\ row.redacted => row.status \in {"rejected", "deleted"}
<1>a. \A row \in Draft : Emptied(Emptied(row)) = Emptied(row) /\ Emptied(row) \in Draft
  BY DEF Emptied, Draft
<1>1. CASE UNCHANGED proposalVars
  BY <1>1 DEF proposalVars, Retained, Emptied
<1>2. ASSUME NEW w \in Workflows, JobCompletes(w) PROVE Retained'
  <2>1. \A j \in DOMAIN completed' : completed'[j].day \in 1 .. day
    <3>1. /\ Len(completed) \in Nat /\ DOMAIN completed = 1 .. Len(completed)
          /\ DOMAIN completed' = 1 .. Len(completed) + 1
          /\ \A j \in 1 .. Len(completed) : completed'[j] = completed[j]
          /\ completed'[Len(completed) + 1].day = day
      BY <1>2, LenProperties, AppendProperties DEF ProposalInv, JobCompletes, Completion
    <3> QED
      BY <3>1, ProposalAssumption DEF Retained, ProposalInv
  <2> QED
    BY <1>2, <2>1 DEF JobCompletes, Retained, Emptied
<1>3. CASE NextDay
  <2>1. /\ completed' = completed /\ drafts' = drafts /\ day' = day + 1 /\ day \in Nat
        /\ \A j \in DOMAIN completed : completed[j].day \in 1 .. day
    BY <1>3, ProposalAssumption DEF NextDay, Retained, ProposalInv
  <2>2. \A j \in DOMAIN completed' : completed'[j].day \in 1 .. day'
    BY <2>1
  <2> QED
    BY <2>1, <2>2 DEF Retained, Emptied
<1>4. ASSUME NEW n \in DraftNames, UserCreatesSkill(n) PROVE Retained'
  BY <1>4 DEF UserCreatesSkill, Retained, Emptied
<1>5. ASSUME NEW n \in DraftNames, NEW text \in {"plain", "grants"}, NEW sources \in SUBSET (1 .. MaxCompletions),
             Propose(n, text, sources)
      PROVE  Retained'
  <2>1. /\ Len(drafts) \in Nat /\ DOMAIN drafts = 1 .. Len(drafts)
        /\ DOMAIN drafts' = 1 .. Len(drafts) + 1
        /\ \A p \in 1 .. Len(drafts) : drafts'[p] = drafts[p]
        /\ drafts'[Len(drafts) + 1].status = "pending" /\ drafts'[Len(drafts) + 1].redacted = FALSE
    <3> DEFINE row == [name |-> n, text |-> text, sources |-> sources, status |-> "pending",
                       key |-> "none", redacted |-> FALSE]
    <3>1. row \in Draft
      <4>1. sources \in SUBSET Nat
        BY ProposalAssumption
      <4> QED
        BY <4>1 DEF Draft, Statuses
    <3>2. drafts' = Append(drafts, row)
      BY <1>5 DEF Propose, InsertDraft
    <3>3. row.status = "pending" /\ row.redacted = FALSE
      OBVIOUS
    <3> HIDE DEF row
    <3> QED
      BY <3>1, <3>2, <3>3, LenProperties, AppendProperties DEF ProposalInv
  <2>2. completed' = completed /\ day' = day
    BY <1>5 DEF Propose
  <2>3. ASSUME NEW p \in DOMAIN drafts'
        PROVE  \/ p \in DOMAIN drafts /\ drafts'[p] = drafts[p]
               \/ drafts'[p].status = "pending" /\ drafts'[p].redacted = FALSE
    BY <2>1
  <2> QED
    BY <2>2, <2>3 DEF Retained, Emptied
<1>6. CASE DetectRepeated
  <2>1. PICK fresh, n : /\ fresh = {w \in Workflows : Repeated(w) /\ ~DetectedBefore(w)}
                        /\ n = Cardinality(fresh) /\ n \in Nat
    BY FreshFinite
  <2>2. PICK order \in [1 .. n -> fresh] :
          drafts' = drafts \o [k \in 1 .. n |->
            [name |-> DetectedName, text |-> "plain", sources |-> Evidence(order[k]), status |-> "pending",
             key |-> order[k], redacted |-> FALSE]]
    BY <1>6, <2>1 DEF DetectRepeated
  <2>3. PICK rows :
          rows = [k \in 1 .. n |->
            [name |-> DetectedName, text |-> "plain", sources |-> Evidence(order[k]), status |-> "pending",
             key |-> order[k], redacted |-> FALSE]]
    OBVIOUS
  <2>4. \A k \in 1 .. n : rows[k].status = "pending" /\ rows[k].redacted = FALSE
    BY <2>3
  <2>5. PICK S : S = Draft \cup {rows[k] : k \in 1 .. n}
    OBVIOUS
  <2>6. rows \in Seq(S) /\ Len(rows) = n /\ drafts \in Seq(S) /\ Len(drafts) \in Nat
    <3>1. rows \in [1 .. n -> S]
      BY <2>3, <2>5
    <3>2. drafts \in [1 .. Len(drafts) -> S] /\ Len(drafts) \in Nat
      BY <2>5, LenProperties DEF ProposalInv
    <3> QED
      BY <2>1, <3>1, <3>2, FunctionIsSeq
  <2>7. drafts' = drafts \o rows
    BY <2>2, <2>3
  <2>8. ASSUME NEW p \in DOMAIN drafts'
        PROVE  \/ p \in DOMAIN drafts /\ drafts'[p] = drafts[p]
               \/ drafts'[p].status = "pending" /\ drafts'[p].redacted = FALSE
    <3>1. DOMAIN drafts' = 1 .. Len(drafts) + n /\ DOMAIN drafts = 1 .. Len(drafts)
      BY <2>6, <2>7, Joined, LenProperties
    <3>2. CASE p \in 1 .. Len(drafts)
      BY <2>6, <2>7, <3>1, <3>2, Joined
    <3>3. CASE p \in (Len(drafts) + 1) .. (Len(drafts) + n)
      <4>1. drafts'[p] = rows[p - Len(drafts)] /\ p - Len(drafts) \in 1 .. n
        BY <2>1, <2>6, <2>7, <3>3, Joined
      <4> QED
        BY <2>4, <4>1
    <3>4. p \in 1 .. Len(drafts) \/ p \in (Len(drafts) + 1) .. (Len(drafts) + n)
      <4>1. n \in Nat
        BY <2>1
      <4> QED
        BY <2>6, <3>1, <4>1
    <3> QED
      BY <3>1, <3>2, <3>3, <3>4
  <2> QED
    <3>1. UNCHANGED <<completed, day>>
      BY <1>6 DEF DetectRepeated
    <3> QED
      BY <2>8, <3>1 DEF Retained, Emptied
<1>7. ASSUME NEW changes, UpdateDrafts(changes), UNCHANGED <<completed, day>>,
             \A p \in DOMAIN drafts : p \in DOMAIN changes => Kept(changes[p])
      PROVE  Retained'
  <2>1. DOMAIN drafts' = DOMAIN drafts
    BY <1>7 DEF UpdateDrafts
  <2>2. \A p \in DOMAIN drafts : drafts'[p] = IF p \in DOMAIN changes THEN changes[p] ELSE drafts[p]
    BY <1>7 DEF UpdateDrafts
  <2>3. \A p \in DOMAIN drafts : Kept(drafts'[p])
    BY <1>7, <2>2 DEF Retained
  <2>4. \A j \in DOMAIN completed' : completed'[j].day \in 1 .. day'
    BY <1>7 DEF Retained
  <2> QED
    BY <2>1, <2>3, <2>4 DEF Retained
<1>b. \A p \in DOMAIN drafts : drafts[p] \in Draft
  BY ElementOfSeq, LenProperties DEF ProposalInv
<1>8. ASSUME NEW p \in 1 .. MaxProposals, ApproveDraft(p) \/ RejectDraft(p) PROVE Retained'
  <2>1. PICK s \in {"approved", "rejected"} : UpdateDrafts([q \in {p} |-> [drafts[q] EXCEPT !.status = s]])
    BY <1>8 DEF ApproveDraft, RejectDraft
  <2>2. p \in DOMAIN drafts /\ drafts[p].status = "pending"
    BY <1>8 DEF ApproveDraft, RejectDraft
  <2>3. ~drafts[p].redacted
    BY <2>2 DEF Retained
  <2>4. LET row == [drafts[p] EXCEPT !.status = s] IN row.status = s /\ ~row.redacted
    BY <1>b, <2>2, <2>3 DEF Draft
  <2> QED
    BY <1>7, <1>8, <2>1, <2>4 DEF ApproveDraft, RejectDraft
<1>9. ASSUME NEW p \in 1 .. MaxProposals, DeleteDraft(p) PROVE Retained'
  <2>1. p \in DOMAIN drafts /\ drafts[p] \in Draft
    BY <1>9, <1>b DEF DeleteDraft
  <2>2. LET row == [Emptied(drafts[p]) EXCEPT !.status = "deleted"]
        IN  row.status = "deleted" /\ Emptied(row) = row
    BY <2>1 DEF Emptied, Draft
  <2> QED
    BY <1>7, <1>9, <2>2 DEF DeleteDraft
<1>10. CASE RedactRejected
  <2>1. PICK old \in SUBSET {p \in DOMAIN drafts : drafts[p].status = "rejected" /\ ~drafts[p].redacted} :
          UpdateDrafts([p \in old |-> [Emptied(drafts[p]) EXCEPT !.redacted = TRUE]])
    BY <1>10 DEF RedactRejected
  <2>2. \A p \in old : LET row == [Emptied(drafts[p]) EXCEPT !.redacted = TRUE]
                       IN  row.status = "rejected" /\ Emptied(row) = row
    BY <1>b DEF Emptied, Draft
  <2> QED
    BY <1>7, <1>10, <2>1, <2>2 DEF RedactRejected
<1> QED
  BY <1>1, <1>2, <1>3, <1>4, <1>5, <1>6, <1>8, <1>9, <1>10 DEF ProposalNext

(* A draft is decided once and its decision stays on record, what a        *)
(* detected draft cites spans two days, and what is approved is what is    *)
(* published, for any number of workflows, drafts, jobs and days.          *)
THEOREM ProposalsAreKept == ProposalSpec => [](ProposalTypeOK /\ ProposalsHold)
<1>1. ProposalInit => ProposalInv /\ Retained
  BY ProposalInitially DEF ProposalInit, Retained
<1>2. ProposalInv /\ Retained /\ [ProposalNext]_proposalVars => (ProposalInv /\ Retained)'
  BY ProposalStep, RetainedStep
<1>3. ProposalInv => ProposalsHold
  BY ProposalsFromInv
<1>4. ProposalInv /\ Retained => ProposalTypeOK
  <2> SUFFICES ASSUME ProposalInv, Retained PROVE ProposalTypeOK
    OBVIOUS
  <2>1. \A j \in DOMAIN completed : completed[j] \in Completion
    BY ElementOfSeq, LenProperties DEF ProposalInv
  <2>2. \A p \in DOMAIN drafts : drafts[p] \in Draft
    BY ElementOfSeq, LenProperties DEF ProposalInv
  <2> QED
    BY <2>1, <2>2 DEF ProposalInv, Retained, ProposalTypeOK, Completion, Draft, Statuses
<1> QED
  BY <1>1, <1>2, <1>3, <1>4, PTL DEF ProposalSpec
=============================================================================
