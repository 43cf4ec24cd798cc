--------------------------- MODULE DeliveryProofs ----------------------------
(***************************************************************************)
(* Theorems about what has to reach a user: the notices of jobs, the       *)
(* reminders, the turns of a conversation and those of a voice session,    *)
(* for any number of consoles, senders, notices, reminders, messages and   *)
(* turns, whichever of them fail, crash, are cancelled or come too late.   *)
(***************************************************************************)
EXTENDS Notices, Reminders, Conversations, VoiceTurns, SequenceTheorems, FiniteSetTheorems,
        WellFoundedInduction, TLAPS

\* A set of numbers has a least one.
LEMMA LeastNumber ==
  ASSUME NEW T, T \subseteq Nat, T # {}
  PROVE  \E x \in T : \A y \in T : x <= y
<1> DEFINE R == OpToRel(<, Nat)
<1>1. IsWellFoundedOn(R, Nat)
  BY NatLessThanWellFounded
<1> HIDE DEF R
<1>2. PICK x \in T : \A y \in T : ~(<<y, x>> \in R)
  BY <1>1, WFMin, Zenon
<1>3. \A y \in T : y < x => <<y, x>> \in R
  BY DEF R, OpToRel
<1>4. \A y \in T : ~(y < x)
  BY <1>2, <1>3
<1> QED
  BY <1>4

-----------------------------------------------------------------------------
(* Notifications.                                                          *)

NoticeRow == [kind : (Notified \ {"waiting_approval"}) \cup {"approval_required", "retry_exhausted"},
              read : BOOLEAN, gone : BOOLEAN]

ConsoleType == [phase : {"closed", "poll", "show", "ack"}, cursor : Nat, batch : SUBSET Nat,
                waiting : BOOLEAN, pending : Nat]

\* What is left of a batch lies beyond the cursor, and everything printed does
\* not; what awaits its acknowledgement may be acknowledged.
ConsoleInv(c) ==
  LET s == console[c] IN
  /\ s.cursor <= Len(inbox)
  /\ \A i \in s.batch : i \in DOMAIN inbox /\ s.cursor < i
  /\ s.phase = "show" => s.batch # {}
  /\ s.phase = "ack" => s.pending # 0
  /\ s.phase # "closed" => \A i \in DOMAIN printed[c] : printed[c][i] <= s.cursor
  /\ s.pending # 0 =>
       /\ s.pending \in DOMAIN inbox
       /\ s.pending \in noticed \/ inbox[s.pending].kind = "approval_required"

NoticeInv ==
  /\ notifier \in Notified \cup {"queued", "running"}
  /\ inbox \in Seq(NoticeRow)
  /\ console \in [Consoles -> ConsoleType]
  /\ \A c \in Consoles : printed[c] \in Seq(DOMAIN inbox)
  /\ DOMAIN printed = Consoles
  /\ noticed \subseteq DOMAIN inbox
  /\ failures \in 0 .. MaxFailures
  /\ \A c \in Consoles : ConsoleInv(c)
  /\ \A i \in DOMAIN inbox : inbox[i].gone => inbox[i].read
  /\ PrintedInOrder /\ NoneSwallowed

LEMMA NoticeStart == NoticeInit => NoticeInv
<1> SUFFICES ASSUME NoticeInit PROVE NoticeInv
  OBVIOUS
<1>1. inbox \in Seq(NoticeRow) /\ DOMAIN inbox = {} /\ Len(inbox) = 0
  BY EmptySeq DEF NoticeInit
<1>2. \A c \in Consoles : printed[c] = <<>> /\ printed[c] \in Seq(DOMAIN inbox) /\ DOMAIN printed[c] = {}
  BY EmptySeq DEF NoticeInit
<1>3. console \in [Consoles -> ConsoleType]
  BY DEF NoticeInit, Closed, ConsoleType
<1> QED
  BY <1>1, <1>2, <1>3, NoticeAssumption DEF NoticeInit, NoticeInv, ConsoleInv, Closed, PrintedInOrder, NoneSwallowed, Notified

\* The rows of the inbox and their numbers.
LEMMA InboxFacts ==
  ASSUME NoticeInv
  PROVE  /\ Len(inbox) \in Nat /\ DOMAIN inbox = 1 .. Len(inbox)
         /\ \A i \in DOMAIN inbox : inbox[i] \in NoticeRow
         /\ inbox \in [DOMAIN inbox -> NoticeRow]
BY LenProperties, ElementOfSeq DEF NoticeInv

\* A new row changes none of the others.
LEMMA NotifyKeeps ==
  ASSUME NoticeInv, NEW to \in Notified \cup {"queued", "running"}, NEW exhausted \in BOOLEAN,
         NotifyMove(to, exhausted)
  PROVE  NoticeInv'
<1> USE InboxFacts
<1>1. CASE to \notin Notified
  BY <1>1 DEF NotifyMove, NoticeInv, ConsoleInv, PrintedInOrder, NoneSwallowed
<1>2. CASE to \in Notified
  <2> DEFINE row == Notice(KindOf(to, exhausted))
  <2>1. row \in NoticeRow /\ ~row.read /\ ~row.gone
    BY <1>2 DEF Notice, KindOf, NoticeRow, Notified
  <2>2. inbox' = Append(inbox, row)
    BY <1>2 DEF NotifyMove
  <2>3. /\ inbox' \in Seq(NoticeRow) /\ Len(inbox') = Len(inbox) + 1
        /\ \A i \in DOMAIN inbox : inbox'[i] = inbox[i]
        /\ inbox'[Len(inbox) + 1] = row
        /\ DOMAIN inbox' = DOMAIN inbox \cup {Len(inbox) + 1}
    <3> HIDE DEF row
    <3> QED
      BY <2>1, <2>2, AppendProperties, LenProperties DEF NoticeInv
  <2>4. \A c \in Consoles : printed[c] \in Seq(DOMAIN inbox')
    BY <2>3, SeqMonotonic DEF NoticeInv
  <2>5. \A c \in Consoles : ConsoleInv(c)'
    <3>1. UNCHANGED <<console, printed, noticed>>
      BY DEF NotifyMove
    <3> HIDE DEF row
    <3> QED
      BY <2>3, <3>1 DEF NoticeInv, ConsoleInv, ConsoleType
  <2>6. NoneSwallowed' /\ \A i \in DOMAIN inbox' : inbox'[i].gone => inbox'[i].read
    BY <1>2, <2>1, <2>3 DEF NotifyMove, NoticeInv, NoneSwallowed
  <2> QED
    BY <1>2, <2>3, <2>4, <2>5, <2>6 DEF NotifyMove, NoticeInv, PrintedInOrder
<1> QED
  BY <1>1, <1>2

\* Rows keep their kinds; what becomes read or goes may.
LEMMA RowsMarked ==
  ASSUME NoticeInv,
         DOMAIN inbox' = DOMAIN inbox, inbox' \in [DOMAIN inbox -> NoticeRow],
         \A i \in DOMAIN inbox : inbox'[i].kind = inbox[i].kind,
         \A i \in DOMAIN inbox : inbox'[i].gone => inbox'[i].read,
         \A i \in DOMAIN inbox : inbox'[i].read =>
           inbox[i].read \/ i \in noticed' \/ inbox[i].kind = "approval_required",
         noticed \subseteq noticed'
  PROVE  /\ inbox' \in Seq(NoticeRow) /\ Len(inbox') = Len(inbox)
         /\ \A i \in DOMAIN inbox' : inbox'[i].gone => inbox'[i].read
         /\ NoneSwallowed'
<1>1. inbox' \in Seq(NoticeRow)
  BY InboxFacts, SeqDef
<1>2. Len(inbox') = Len(inbox)
  BY <1>1, InboxFacts, LenProperties
<1> QED
  BY <1>1, <1>2 DEF NoticeInv, NoneSwallowed

\* Marking a row as read.
LEMMA ReadFacts ==
  ASSUME NoticeInv, NEW id \in DOMAIN inbox, Read(id)
  PROVE  /\ DOMAIN inbox' = DOMAIN inbox /\ inbox' \in [DOMAIN inbox -> NoticeRow]
         /\ \A i \in DOMAIN inbox :
              /\ inbox'[i].kind = inbox[i].kind
              /\ inbox'[i].gone = inbox[i].gone
              /\ inbox'[i].read = (i = id \/ inbox[i].read)
BY InboxFacts DEF Read, NoticeRow

\* The row to present next is the first of what is left.
LEMMA NextOfFacts ==
  ASSUME NEW batch, batch \subseteq Nat, batch # {}
  PROVE  NextOf(batch) \in batch /\ \A k \in batch : NextOf(batch) <= k
BY LeastNumber DEF NextOf

LEMMA OpenKeeps ==
  ASSUME NoticeInv, NEW c \in Consoles, Open(c)
  PROVE  NoticeInv'
<1> USE InboxFacts
<1>1. \A d \in Consoles : console'[d] = IF d = c THEN [Closed EXCEPT !.phase = "poll"] ELSE console[d]
  BY DEF Open, NoticeInv
<1>2. \A d \in Consoles : printed'[d] = IF d = c THEN <<>> ELSE printed[d]
  BY DEF Open, NoticeInv
<1>3. console' \in [Consoles -> ConsoleType]
  BY DEF Open, NoticeInv, Closed, ConsoleType
<1>4. \A d \in Consoles : printed'[d] \in Seq(DOMAIN inbox)
  BY <1>2, EmptySeq DEF NoticeInv
<1>5. \A d \in Consoles : ConsoleInv(d)'
  BY <1>1, <1>2 DEF Open, NoticeInv, ConsoleInv, Closed
<1>6. PrintedInOrder'
  <2>1. DOMAIN <<>> = {}
    OBVIOUS
  <2> QED
    BY <1>2, <2>1 DEF NoticeInv, PrintedInOrder
<1> QED
  BY <1>3, <1>4, <1>5, <1>6 DEF Open, NoticeInv, NoneSwallowed

\* A session moves on without printing anything.
LEMMA SessionMoves ==
  ASSUME NoticeInv, NEW c \in Consoles, NEW s \in ConsoleType,
         console' = [console EXCEPT ![c] = s], UNCHANGED <<notifier, printed, noticed>>,
         failures' \in 0 .. MaxFailures,
         inbox' = inbox \/ (console[c].pending # 0 /\ Read(console[c].pending)),
         s.phase # "closed" => console[c].phase # "closed" /\ s.cursor = console[c].cursor,
         s.phase = "closed" => s = Closed,
         \A i \in s.batch : i \in DOMAIN inbox /\ s.cursor < i,
         s.phase = "show" => s.batch # {},
         s.phase = "ack" => s.pending # 0,
         s.pending \in {0, console[c].pending}
  PROVE  NoticeInv'
<1> USE InboxFacts
<1>1. /\ inbox' \in Seq(NoticeRow) /\ Len(inbox') = Len(inbox) /\ DOMAIN inbox' = DOMAIN inbox
      /\ \A i \in DOMAIN inbox : inbox'[i].kind = inbox[i].kind
      /\ \A i \in DOMAIN inbox' : inbox'[i].gone => inbox'[i].read
      /\ NoneSwallowed'
  <2>1. CASE inbox' = inbox
    BY <2>1 DEF NoticeInv, NoneSwallowed
  <2>2. CASE console[c].pending # 0 /\ Read(console[c].pending)
    <3>1. /\ console[c].pending \in DOMAIN inbox
          /\ console[c].pending \in noticed \/ inbox[console[c].pending].kind = "approval_required"
      BY <2>2 DEF NoticeInv, ConsoleInv
    <3> QED
      BY <2>2, <3>1, ReadFacts, RowsMarked DEF NoticeInv
  <2> QED
    BY <2>1, <2>2
<1>2. console' \in [Consoles -> ConsoleType]
  BY DEF NoticeInv
<1>3. \A d \in Consoles : console'[d] = IF d = c THEN s ELSE console[d]
  BY DEF NoticeInv
<1>4. \A d \in Consoles \ {c} : ConsoleInv(d)'
  BY <1>1, <1>3, ZenonT(30) DEF NoticeInv, ConsoleInv
<1>5. ConsoleInv(c)'
  <2>1. CASE s.phase = "closed"
    <3>1. /\ console'[c].phase = "closed" /\ console'[c].cursor = 0 /\ console'[c].pending = 0
          /\ console'[c].batch = {}
      BY <1>3, <2>1 DEF Closed
    <3> QED
      BY <1>1, <3>1 DEF ConsoleInv
  <2>2. CASE s.phase # "closed"
    <3>1. /\ s.cursor = console[c].cursor /\ console[c].phase # "closed"
          /\ s.pending = 0 \/ s.pending = console[c].pending
      BY <2>2
    <3>2. ConsoleInv(c) /\ console'[c] = s
      BY <1>3 DEF NoticeInv
    <3> QED
      BY <1>1, <3>1, <3>2 DEF ConsoleInv
  <2> QED
    BY <2>1, <2>2
<1> QED
  BY <1>1, <1>2, <1>4, <1>5 DEF NoticeInv, PrintedInOrder

LEMMA PollKeeps ==
  ASSUME NoticeInv, NEW c \in Consoles, Poll(c)
  PROVE  NoticeInv'
<1> USE InboxFacts
<1>1. console[c] \in ConsoleType
  BY DEF NoticeInv
<1>2. CASE console[c].pending = 0
  <2> DEFINE s == [console[c] EXCEPT !.batch = UnreadAfter(console[c].cursor), !.phase = "show",
                                     !.waiting = (notifier = "waiting_approval")]
  <2>1. UnreadAfter(console[c].cursor) \subseteq {i \in DOMAIN inbox : i > console[c].cursor}
    BY DEF UnreadAfter
  <2>2. s \in ConsoleType
    <3>1. UnreadAfter(console[c].cursor) \in SUBSET Nat
      BY <2>1
    <3> QED
      BY <1>1, <3>1 DEF ConsoleType
  <2>3. console' = [console EXCEPT ![c] = s]
    BY <1>2 DEF Poll
  <2>4. /\ s.phase = "show" /\ s.cursor = console[c].cursor /\ s.pending = console[c].pending
        /\ s.batch = UnreadAfter(console[c].cursor)
    BY <1>1 DEF ConsoleType
  <2> HIDE DEF s
  <2> QED
    <3>1. UNCHANGED <<notifier, printed, noticed, inbox, failures>> /\ console[c].phase = "poll" /\ s.batch # {}
      BY <1>2, <2>4 DEF Poll
    <3>2. failures' \in 0 .. MaxFailures
      BY <3>1 DEF NoticeInv
    <3>3. \A i \in s.batch : i \in DOMAIN inbox /\ s.cursor < i
      BY <1>1, <2>1, <2>4 DEF ConsoleType
    <3> QED
      BY <2>2, <2>3, <2>4, <3>1, <3>2, <3>3, SessionMoves
<1>3. CASE console[c].pending # 0
  <2>1. CASE UNCHANGED <<inbox, console>>
    BY <1>3, <2>1, NoticeAssumption DEF Poll, Failing, NoticeInv, ConsoleInv, PrintedInOrder, NoneSwallowed
  <2>2. CASE console' = [console EXCEPT ![c].pending = 0] /\ Read(console[c].pending) /\ UNCHANGED failures
    <3> DEFINE s == [console[c] EXCEPT !.pending = 0]
    <3>1. /\ s \in ConsoleType /\ s.phase = console[c].phase /\ s.cursor = console[c].cursor
          /\ s.pending = 0 /\ s.batch = console[c].batch
      BY <1>1 DEF ConsoleType
    <3>2. console' = [console EXCEPT ![c] = s]
      BY <2>2
    <3>3. console[c].phase = "poll"
      BY DEF Poll
    <3> HIDE DEF s
    <3> QED
      BY <1>3, <2>2, <3>1, <3>2, <3>3, SessionMoves, ZenonT(30) DEF Poll, NoticeInv, ConsoleInv
  <2> QED
    BY <1>3, <2>1, <2>2 DEF Poll
<1> QED
  BY <1>2, <1>3

LEMMA AcknowledgeKeeps ==
  ASSUME NoticeInv, NEW c \in Consoles, Acknowledge(c)
  PROVE  NoticeInv'
<1> USE InboxFacts
<1>1. console[c] \in ConsoleType /\ ConsoleInv(c) /\ console[c].phase = "ack"
  BY DEF NoticeInv, Acknowledge
<1>2. CASE Read(console[c].pending) /\ UNCHANGED failures /\
           console' = [console EXCEPT ![c].phase = Present(console[c].batch), ![c].pending = 0]
  <2> DEFINE s == [console[c] EXCEPT !.phase = Present(console[c].batch), !.pending = 0]
  <2>1. /\ s \in ConsoleType /\ s.phase = Present(console[c].batch) /\ s.cursor = console[c].cursor
        /\ s.pending = 0 /\ s.batch = console[c].batch
    BY <1>1 DEF ConsoleType, Present
  <2>2. console' = [console EXCEPT ![c] = s]
    BY <1>2
  <2> HIDE DEF s
  <2> QED
    <3>1. UNCHANGED <<notifier, printed, noticed>> /\ failures' \in 0 .. MaxFailures
      BY <1>2 DEF Acknowledge, NoticeInv
    <3>2. console[c].pending # 0 /\ \A i \in s.batch : i \in DOMAIN inbox /\ s.cursor < i
      BY <1>1, <2>1 DEF ConsoleInv
    <3>3. s.phase \notin {"closed", "ack"} /\ (s.phase = "show" => s.batch # {})
      BY <2>1 DEF Present
    <3> QED
      BY <1>1, <1>2, <2>1, <2>2, <3>1, <3>2, <3>3, SessionMoves
<1>3. CASE Failing /\ UNCHANGED inbox /\ console' = [console EXCEPT ![c].phase = "poll", ![c].batch = {}]
  <2> DEFINE s == [console[c] EXCEPT !.phase = "poll", !.batch = {}]
  <2>1. /\ s \in ConsoleType /\ s.phase = "poll" /\ s.cursor = console[c].cursor
        /\ s.pending = console[c].pending /\ s.batch = {}
    BY <1>1 DEF ConsoleType
  <2>2. console' = [console EXCEPT ![c] = s]
    BY <1>3
  <2>3. failures' \in 0 .. MaxFailures
    BY <1>3, NoticeAssumption DEF Failing, NoticeInv
  <2> HIDE DEF s
  <2> QED
    BY <1>1, <1>3, <2>1, <2>2, <2>3, SessionMoves DEF Acknowledge
<1> QED
  BY <1>2, <1>3 DEF Acknowledge

LEMMA CloseKeeps ==
  ASSUME NoticeInv, NEW c \in Consoles, Close(c)
  PROVE  NoticeInv'
<1>1. Closed \in ConsoleType /\ Closed.phase = "closed" /\ Closed.pending = 0 /\ Closed.batch = {}
  BY DEF Closed, ConsoleType
<1>2. failures' \in 0 .. MaxFailures
  BY NoticeAssumption DEF Close, Failing, NoticeInv
<1> QED
  BY <1>1, <1>2, SessionMoves DEF Close

LEMMA ShowKeeps ==
  ASSUME NoticeInv, NEW c \in Consoles, Show(c)
  PROVE  NoticeInv'
<1> USE InboxFacts
<1> DEFINE id == NextOf(console[c].batch)
           left == console[c].batch \ {id}
           displayed == Displayed(id, console[c].waiting)
           acknowledge == displayed \/ inbox[id].kind = "approval_required"
<1>1. console[c] \in ConsoleType /\ ConsoleInv(c) /\ console[c].phase = "show"
  BY DEF NoticeInv, Show
<1>2. /\ id \in console[c].batch /\ \A k \in left : id < k
      /\ id \in DOMAIN inbox /\ id \in Nat \ {0} /\ console[c].cursor < id
  <2>1. console[c].batch \subseteq Nat /\ console[c].batch # {}
    BY <1>1 DEF ConsoleType, ConsoleInv
  <2>2. id \in console[c].batch /\ \A k \in console[c].batch : id <= k
    BY <2>1, NextOfFacts
  <2> HIDE DEF id
  <2>3. id \in DOMAIN inbox /\ console[c].cursor < id
    BY <1>1, <2>2 DEF ConsoleInv
  <2> QED
    BY <2>1, <2>2, <2>3
<1>3. UNCHANGED <<notifier, inbox>>
  BY DEF Show
<1>4. CASE /\ displayed /\ Failing
           /\ console' = [console EXCEPT ![c].phase = "poll", ![c].batch = {}]
           /\ UNCHANGED <<printed, noticed>>
  <2> DEFINE s == [console[c] EXCEPT !.phase = "poll", !.batch = {}]
  <2>1. /\ s \in ConsoleType /\ s.phase = "poll" /\ s.cursor = console[c].cursor
        /\ s.pending = console[c].pending /\ s.batch = {}
    BY <1>1 DEF ConsoleType
  <2>2. console' = [console EXCEPT ![c] = s]
    BY <1>4
  <2>3. failures' \in 0 .. MaxFailures
    BY <1>4, NoticeAssumption DEF Failing, NoticeInv
  <2> HIDE DEF s, displayed
  <2> QED
    BY <1>1, <1>3, <1>4, <2>1, <2>2, <2>3, SessionMoves
<1>5. CASE /\ console' = [console EXCEPT ![c].phase = IF acknowledge THEN "ack" ELSE Present(left),
                                         ![c].cursor = id, ![c].batch = left,
                                         ![c].pending = IF acknowledge THEN id ELSE 0]
           /\ printed' = IF displayed THEN [printed EXCEPT ![c] = Append(@, id)] ELSE printed
           /\ noticed' = IF displayed THEN noticed \cup {id} ELSE noticed
           /\ UNCHANGED failures
  <2>1. displayed \in BOOLEAN /\ acknowledge \in BOOLEAN
    BY DEF Displayed
  <2>2. left \subseteq DOMAIN inbox /\ left \in SUBSET Nat
    BY <1>1 DEF ConsoleInv
  <2>3. acknowledge => displayed \/ inbox[id].kind = "approval_required"
    OBVIOUS
  <2> HIDE DEF id, left, displayed, acknowledge
  <2>4. /\ console' \in [Consoles -> ConsoleType]
        /\ \A d \in Consoles \ {c} : console'[d] = console[d]
        /\ console'[c].phase = IF acknowledge THEN "ack" ELSE Present(left)
        /\ console'[c].cursor = id /\ console'[c].batch = left
        /\ console'[c].pending = IF acknowledge THEN id ELSE 0
    BY <1>1, <1>2, <1>5, <2>2 DEF NoticeInv, ConsoleType, Present
  <2>5. /\ DOMAIN printed' = Consoles
        /\ \A d \in Consoles \ {c} : printed'[d] = printed[d]
        /\ printed'[c] = IF displayed THEN Append(printed[c], id) ELSE printed[c]
    BY <1>5 DEF NoticeInv
  <2>6. printed[c] \in Seq(DOMAIN inbox)
    BY DEF NoticeInv
  <2>7. /\ printed'[c] \in Seq(DOMAIN inbox)
        /\ \A i \in DOMAIN printed'[c] :
             \/ i \in DOMAIN printed[c] /\ printed'[c][i] = printed[c][i]
             \/ i = Len(printed[c]) + 1 /\ printed'[c][i] = id
    <3>1. /\ Append(printed[c], id) \in Seq(DOMAIN inbox)
          /\ Len(Append(printed[c], id)) = Len(printed[c]) + 1
          /\ \A i \in 1 .. Len(printed[c]) : Append(printed[c], id)[i] = printed[c][i]
          /\ Append(printed[c], id)[Len(printed[c]) + 1] = id
      BY <1>2, <2>6, AppendProperties
    <3>2. Len(printed[c]) \in Nat /\ DOMAIN printed[c] = 1 .. Len(printed[c])
      BY <2>6, LenProperties
    <3>3. DOMAIN Append(printed[c], id) = 1 .. (Len(printed[c]) + 1)
      BY <3>1, LenProperties
    <3>4. CASE displayed
      BY <2>5, <3>1, <3>2, <3>3, <3>4
    <3>5. CASE ~displayed
      BY <2>5, <2>6, <3>5
    <3> QED
      BY <3>4, <3>5
  <2>8. \A i \in DOMAIN printed[c] : printed[c][i] <= console[c].cursor /\ i <= Len(printed[c]) /\ printed[c][i] \in Nat
    BY <1>1, <2>6, LenProperties DEF ConsoleInv
  <2>9. ConsoleInv(c)'
    <3>a. \A i \in DOMAIN printed[c] : printed[c][i] <= id
      BY <1>1, <1>2, <2>8 DEF ConsoleType
    <3>1. ASSUME NEW i \in DOMAIN printed'[c] PROVE printed'[c][i] <= id
      <4>1. id <= id
        BY <1>2
      <4>2. CASE i \in DOMAIN printed[c] /\ printed'[c][i] = printed[c][i]
        BY <3>a, <4>2
      <4> QED
        BY <2>7, <4>1, <4>2
    <3>2. acknowledge => id \in noticed' \/ inbox[id].kind = "approval_required"
      BY <1>5, <2>3
    <3> QED
      BY <1>2, <1>3, <2>1, <2>2, <2>4, <3>1, <3>2 DEF ConsoleInv, Present
  <2>10. \A d \in Consoles \ {c} : ConsoleInv(d)'
    BY <1>3, <1>5, <2>4, <2>5 DEF NoticeInv, ConsoleInv
  <2>11. PrintedInOrder'
    <3> SUFFICES ASSUME NEW d \in Consoles, NEW i \in DOMAIN printed'[d], NEW k \in DOMAIN printed'[d], i < k
                 PROVE  printed'[d][i] < printed'[d][k]
      BY DEF PrintedInOrder
    <3>1. CASE d # c
      BY <2>5, <3>1 DEF NoticeInv, PrintedInOrder
    <3>2. CASE d = c
      <4>1. Len(printed[c]) \in Nat /\ DOMAIN printed[c] = 1 .. Len(printed[c])
        BY <2>6, LenProperties
      <4>2. i \in DOMAIN printed[c] /\ printed'[c][i] = printed[c][i]
        <5>1. k \in 1 .. (Len(printed[c]) + 1) /\ i \in Int
          BY <2>7, <3>2, <4>1, SMTT(20)
        <5>2. i # Len(printed[c]) + 1
          BY <4>1, <5>1
        <5> QED
          BY <2>7, <3>2, <5>2
      <4>3. CASE k \in DOMAIN printed[c] /\ printed'[c][k] = printed[c][k]
        BY <3>2, <4>2, <4>3 DEF NoticeInv, PrintedInOrder
      <4>4. CASE printed'[c][k] = id
        BY <1>1, <1>2, <2>8, <3>2, <4>2, <4>4 DEF ConsoleType
      <4> QED
        BY <2>7, <3>2, <4>3, <4>4
    <3> QED
      BY <3>1, <3>2
  <2>12. NoneSwallowed' /\ noticed' \subseteq DOMAIN inbox /\ noticed \subseteq noticed'
    BY <1>2, <1>3, <1>5 DEF NoticeInv, NoneSwallowed
  <2> QED
    BY <1>3, <1>5, <2>4, <2>5, <2>7, <2>9, <2>10, <2>11, <2>12 DEF NoticeInv
<1> QED
  BY <1>3, <1>4, <1>5 DEF Show

LEMMA ByHandKeeps ==
  ASSUME NoticeInv, NEW id \in 1 .. MaxNotices, AcknowledgeByHand(id)
  PROVE  NoticeInv'
<1>1. /\ inbox' \in Seq(NoticeRow) /\ Len(inbox') = Len(inbox) /\ DOMAIN inbox' = DOMAIN inbox
      /\ \A i \in DOMAIN inbox : inbox'[i].kind = inbox[i].kind
      /\ \A i \in DOMAIN inbox' : inbox'[i].gone => inbox'[i].read
      /\ NoneSwallowed'
  BY ReadFacts, RowsMarked DEF AcknowledgeByHand, NoticeInv
<1> QED
  BY <1>1 DEF AcknowledgeByHand, NoticeInv, ConsoleInv, PrintedInOrder

LEMMA CleanupKeeps ==
  ASSUME NoticeInv, CleanNotices
  PROVE  NoticeInv'
<1> USE InboxFacts
<1>1. DOMAIN inbox' = DOMAIN inbox /\ inbox' \in [DOMAIN inbox -> NoticeRow]
  BY DEF CleanNotices, NoticeRow
<1>2. \A i \in DOMAIN inbox : inbox'[i].kind = inbox[i].kind /\ inbox'[i].read = inbox[i].read
  BY DEF CleanNotices, NoticeRow
<1>3. \A i \in DOMAIN inbox : inbox'[i].gone => inbox'[i].read
  BY DEF CleanNotices, ExpiredNotice, NoticeRow, NoticeInv
<1>4. /\ inbox' \in Seq(NoticeRow) /\ Len(inbox') = Len(inbox)
      /\ NoneSwallowed'
  BY <1>1, <1>2, <1>3, RowsMarked DEF CleanNotices
<1> QED
  BY <1>1, <1>2, <1>3, <1>4 DEF CleanNotices, NoticeInv, ConsoleInv, PrintedInOrder

LEMMA NoticeStep == NoticeInv /\ [NoticeNext]_noticeVars => NoticeInv'
<1> SUFFICES ASSUME NoticeInv, [NoticeNext]_noticeVars PROVE NoticeInv'
  OBVIOUS
<1>1. CASE UNCHANGED noticeVars
  BY <1>1 DEF noticeVars, NoticeInv, ConsoleInv, PrintedInOrder, NoneSwallowed
<1>2. CASE NoticeNext
  BY <1>2, NotifyKeeps, OpenKeeps, PollKeeps, ShowKeeps, AcknowledgeKeeps, CloseKeeps, ByHandKeeps, CleanupKeeps
     DEF NoticeNext
<1> QED
  BY <1>1, <1>2

\* Whatever prints and acknowledgements fail and however often sessions are
\* closed and opened: each prints in order and nothing twice, and no item
\* disappears unseen.
THEOREM NoticesAreSeen == NoticeSpec => [](NoticeTypeOK /\ NoticesReach)
<1>1. NoticeInv => NoticeTypeOK /\ NoticesReach
  BY InboxFacts DEF NoticeInv, NoticeTypeOK, NoticesReach, ConsoleInv, ConsoleType, NoticeRow
<1> QED
  BY <1>1, NoticeStart, NoticeStep, PTL DEF NoticeSpec

-----------------------------------------------------------------------------
(* Reminders.                                                              *)

ReminderRow == [status : {"new", "scheduled", "delivered", "cancelled", "removed"}, at : Int]

DeliveryRow == [status : {"none", "pending", "sending", "retrying", "failed", "delivered"},
                count : Nat, retryAt : Int, updated : Int]

Claim == [reminder : ReminderIds, at : Int]

SendingState == {Resting} \cup [phase : {"send", "sent", "error"}, claim : Claim]
                  \cup [phase : {"fail"}, claim : Claim, last : BOOLEAN, current : Int]

\* A claim of r for the time it is scheduled for.
Now(r) == [reminder |-> r, at |-> reminders[r].at]

\* The senders that may still show r for that time.
Live(r) == {s \in Senders : /\ Now(r) \in claims[s]
                            /\ ~(sending[s].phase = "sent" /\ sending[s].claim = Now(r))}

\* Is r to be claimed by somebody, with nothing in doubt?
Waiting(r) == IF deliveries[r].status \in {"pending", "retrying"} THEN 1 ELSE 0

\* What was shown, what may be shown, and what will be claimed.
Accounted(r) == shown[r] + Cardinality(Live(r)) + Waiting(r) <= 1 + doubts[r]

RemindersTyped ==
  /\ instant \in Nat
  /\ reminders \in [ReminderIds -> ReminderRow]
  /\ deliveries \in [ReminderIds -> DeliveryRow]
  /\ claims \in [Senders -> SUBSET Claim]
  /\ sending \in [Senders -> SendingState]
  /\ listed \in [Announcers -> SUBSET Claim]
  /\ shown \in [ReminderIds -> Nat] /\ doubts \in [ReminderIds -> Nat]

\* A claim is of a time that has come, of a reminder with a target.
ClaimsTrue ==
  /\ \A s \in Senders : \A c \in claims[s] : c.reminder \in Targeted /\ 0 < c.at /\ c.at <= instant
  /\ \A a \in Announcers : \A c \in listed[a] : c.reminder \notin Targeted
  /\ \A s \in Senders : sending[s].phase # "rest" => sending[s].claim \in claims[s]

\* What was sent for the time its reminder is scheduled for has been shown.
SentIsShown(r) ==
  \A s \in Senders : sending[s].phase = "sent" /\ sending[s].claim = Now(r) => shown[r] > 0

\* The two tables agree, and what they say was delivered was shown.
Agrees(r) ==
  /\ reminders[r].status = "delivered" => shown[r] + doubts[r] > 0
  /\ deliveries[r].status \in {"pending", "sending", "retrying"} => reminders[r].status = "scheduled"
  /\ deliveries[r].status = "delivered" <=> reminders[r].status = "delivered"

\* A reminder without a target is shown as it is marked.
ReminderInv(r) ==
  /\ reminders[r].status = "new" => shown[r] = 0 /\ reminders[r].at <= 0
  /\ reminders[r].status = "scheduled" => reminders[r].at > 0
  /\ r \in Targeted => Accounted(r) /\ Agrees(r) /\ SentIsShown(r)
  /\ r \notin Targeted => shown[r] <= 1 /\ (reminders[r].status = "scheduled" => shown[r] = 0)

RemindersInv ==
  RemindersTyped /\ ClaimsTrue /\ \A r \in ReminderIds : ReminderInv(r)

LEMMA RowFacts ==
  ASSUME RemindersInv, NEW r \in ReminderIds
  PROVE  /\ reminders[r] \in ReminderRow /\ deliveries[r] \in DeliveryRow
         /\ reminders[r].at \in Int /\ instant \in Nat
         /\ shown[r] \in Nat /\ doubts[r] \in Nat
BY DEF RemindersInv, RemindersTyped, ReminderRow

LEMMA SenderFacts ==
  ASSUME RemindersInv, NEW s \in Senders
  PROVE  /\ claims[s] \subseteq Claim /\ sending[s] \in SendingState
         /\ \A c \in claims[s] : /\ c.reminder \in Targeted /\ c.reminder \in ReminderIds
                                 /\ c.at \in Int /\ 0 < c.at /\ c.at <= instant
         /\ sending[s].phase # "rest" => sending[s].claim \in claims[s]
BY DEF RemindersInv, RemindersTyped, ClaimsTrue, Claim

LEMMA TargetFacts ==
  ASSUME RemindersInv, NEW r \in Targeted
  PROVE  r \in ReminderIds /\ Accounted(r) /\ Agrees(r) /\ SentIsShown(r)
BY ReminderAssumption DEF RemindersInv, ReminderInv

LEMMA LiveFinite ==
  ASSUME NEW r
  PROVE  IsFiniteSet(Live(r)) /\ Cardinality(Live(r)) \in Nat
<1>1. Live(r) \in SUBSET Senders
  BY DEF Live
<1> QED
  BY <1>1, ReminderAssumption, FS_Subset, FS_CardinalityType

\* Fewer senders may show a reminder, one at least if one of them is done.
LEMMA FewerLive ==
  ASSUME NEW S, IsFiniteSet(S), NEW T, T \subseteq S
  PROVE  /\ Cardinality(T) \in Nat /\ Cardinality(S) \in Nat /\ Cardinality(T) <= Cardinality(S)
         /\ \A x \in S : x \notin T => Cardinality(T) + 1 <= Cardinality(S)
<1>1. T \in SUBSET S
  OBVIOUS
<1>2. /\ IsFiniteSet(T) /\ Cardinality(T) \in Nat /\ Cardinality(S) \in Nat
      /\ Cardinality(T) <= Cardinality(S) /\ (Cardinality(S) = Cardinality(T) => S = T)
  BY <1>1, FS_Subset, FS_CardinalityType
<1> QED
  BY <1>2

\* A reminder whose account no step makes worse.
LEMMA StaysAccounted ==
  ASSUME RemindersInv, NEW r \in Targeted, Live(r)' \subseteq Live(r),
         shown'[r] = shown[r], doubts'[r] \in Nat, doubts[r] <= doubts'[r],
         Waiting(r)' <= Waiting(r), Waiting(r)' \in {0, 1}
  PROVE  Accounted(r)'
<1>1. PICK before, after : before = Cardinality(Live(r)) /\ after = Cardinality(Live(r)')
  OBVIOUS
<1>2. before \in Nat /\ after \in Nat /\ after <= before
  BY <1>1, LiveFinite, FewerLive
<1>3. shown[r] + before + Waiting(r) <= 1 + doubts[r] /\ shown[r] \in Nat /\ doubts[r] \in Nat
  BY <1>1, TargetFacts, RowFacts DEF Accounted
<1>4. Waiting(r) \in {0, 1}
  BY DEF Waiting
<1>5. shown'[r] + after + Waiting(r)' <= 1 + doubts'[r]
  BY <1>2, <1>3, <1>4
<1> QED
  BY <1>1, <1>5 DEF Accounted, Live, Now

\* A reminder no step touches.
LEMMA StaysInOrder ==
  ASSUME RemindersInv, NEW r \in ReminderIds,
         reminders'[r] = reminders[r], deliveries'[r] = deliveries[r],
         shown'[r] = shown[r], doubts'[r] = doubts[r],
         r \in Targeted => Live(r)' \subseteq Live(r),
         \A s \in Senders : sending'[s].phase = "sent" /\ sending'[s].claim.reminder = r => sending'[s] = sending[s]
  PROVE  ReminderInv(r)'
<1>1. ReminderInv(r)
  BY DEF RemindersInv
<1>2. CASE r \in Targeted
  <2>1. Accounted(r)'
    <3>1. Waiting(r)' = Waiting(r) /\ Waiting(r) \in {0, 1}
      BY DEF Waiting
    <3>2. doubts[r] \in Nat
      BY RowFacts
    <3> QED
      BY <1>2, <3>1, <3>2, StaysAccounted
  <2>2. Agrees(r)'
    BY <1>1, <1>2 DEF ReminderInv, Agrees
  <2>3. SentIsShown(r)'
    BY <1>1, <1>2 DEF ReminderInv, SentIsShown, Now
  <2> QED
    BY <1>1, <1>2, <2>1, <2>2, <2>3 DEF ReminderInv
<1>3. CASE r \notin Targeted
  BY <1>1, <1>3 DEF ReminderInv
<1> QED
  BY <1>2, <1>3

LEMMA RemindersStart ==
  ASSUME RemindersInit
  PROVE  RemindersInv
<1>1. RemindersTyped
  BY DEF RemindersInit, RemindersTyped, NoReminder, NoDelivery, NoTime, ReminderRow, DeliveryRow, Resting, SendingState
<1>2. ClaimsTrue
  BY DEF RemindersInit, ClaimsTrue, Resting
<1>3. ASSUME NEW r \in ReminderIds PROVE ReminderInv(r)
  <2>1. /\ reminders[r].status = "new" /\ reminders[r].at <= 0 /\ deliveries[r].status = "none" /\ shown[r] = 0 /\ doubts[r] = 0
        /\ \A s \in Senders : claims[s] = {} /\ sending[s].phase = "rest"
    BY DEF RemindersInit, NoReminder, NoDelivery, NoTime, Resting
  <2>2. Live(r) = {}
    BY <2>1 DEF Live
  <2>3. Accounted(r)
    BY <2>1, <2>2, FS_EmptySet DEF Accounted, Waiting
  <2> QED
    BY <2>1, <2>3 DEF ReminderInv, Agrees, SentIsShown
<1> QED
  BY <1>1, <1>2, <1>3 DEF RemindersInv

\* Tasks and time are no matter of the reminders.
LEMMA TimeAndTasks ==
  ASSUME RemindersInv, instant' \in Nat, instant <= instant',
         UNCHANGED <<reminders, deliveries, senderVars, listed, ghostVars>>
  PROVE  RemindersInv'
<1>1. RemindersTyped'
  BY DEF RemindersInv, RemindersTyped, senderVars, ghostVars
<1>2. ClaimsTrue'
  <2>1. \A s \in Senders : \A c \in claims[s] : c.reminder \in Targeted /\ 0 < c.at /\ c.at <= instant'
    BY SenderFacts DEF RemindersInv, RemindersTyped
  <2> QED
    BY <2>1 DEF RemindersInv, ClaimsTrue, senderVars
<1>3. \A r \in ReminderIds : ReminderInv(r)'
  <2>1. \A r \in ReminderIds : Live(r)' = Live(r)
    BY DEF Live, Now, senderVars
  <2> QED
    BY <2>1, StaysInOrder DEF senderVars, ghostVars
<1> QED
  BY <1>1, <1>2, <1>3 DEF RemindersInv

\* A sender drops claims, or goes on with one; it has not sent anything.
LEMMA SenderMoves ==
  ASSUME RemindersInv, NEW s \in Senders, NEW left, NEW state,
         claims' = [claims EXCEPT ![s] = left], sending' = [sending EXCEPT ![s] = state],
         left \subseteq claims[s], sending[s].phase = "sent" => sending[s].claim \notin left,
         state \in SendingState, state.phase # "sent", state.phase # "rest" => state.claim \in left,
         UNCHANGED <<instant, reminders, deliveries, listed, ghostVars>>
  PROVE  RemindersInv'
<1>1. /\ \A t \in Senders : claims'[t] = IF t = s THEN left ELSE claims[t]
      /\ \A t \in Senders : sending'[t] = IF t = s THEN state ELSE sending[t]
  BY DEF RemindersInv, RemindersTyped
<1>2. RemindersTyped'
  BY SenderFacts DEF RemindersInv, RemindersTyped, ghostVars
<1>3. ClaimsTrue'
  BY <1>1, SenderFacts DEF RemindersInv, ClaimsTrue
<1>4. ASSUME NEW r \in ReminderIds PROVE ReminderInv(r)'
  <2>1. Live(r)' \subseteq Live(r)
    <3> SUFFICES ASSUME NEW t \in Live(r)' PROVE t \in Live(r)
      OBVIOUS
    <3>1. /\ t \in Senders /\ Now(r) \in claims'[t]
          /\ ~(sending'[t].phase = "sent" /\ sending'[t].claim = Now(r))
      BY DEF Live, Now
    <3> QED
      BY <1>1, <3>1 DEF Live
  <2>2. \A t \in Senders : sending'[t].phase = "sent" => sending'[t] = sending[t]
    BY <1>1
  <2> QED
    BY <2>1, <2>2, StaysInOrder DEF ghostVars
<1> QED
  BY <1>2, <1>3, <1>4 DEF RemindersInv

\* What a sender is at work on.
LEMMA UnderWay ==
  ASSUME RemindersInv, NEW s \in Senders, sending[s].phase # "rest"
  PROVE  /\ sending[s].claim \in claims[s] /\ sending[s].claim \in Claim
         /\ sending[s].claim.reminder \in Targeted /\ sending[s].claim.reminder \in ReminderIds
BY SenderFacts

LEMMA SenderRests ==
  ASSUME RemindersInv, NEW s \in Senders, NEW left,
         claims' = [claims EXCEPT ![s] = left], sending' = [sending EXCEPT ![s] = Resting],
         left \subseteq claims[s], sending[s].phase = "sent" => sending[s].claim \notin left,
         UNCHANGED <<instant, reminders, deliveries, listed, ghostVars>>
  PROVE  RemindersInv'
<1>1. Resting \in SendingState /\ Resting.phase = "rest"
  BY DEF Resting, SendingState
<1> QED
  BY <1>1, SenderMoves

LEMMA RevalidateStep ==
  ASSUME RemindersInv, NEW s \in Senders, NEW c \in claims[s], Revalidate(s, c)
  PROVE  RemindersInv'
<1>1. sending[s] = Resting /\ c \in Claim /\ UNCHANGED <<instant, storeVars, listed, ghostVars>>
  BY SenderFacts DEF Revalidate
<1>2. claims \in [Senders -> SUBSET Claim] /\ sending \in [Senders -> SendingState]
  BY DEF RemindersInv, RemindersTyped
<1>3. sending[s].phase # "sent" /\ UNCHANGED <<instant, reminders, deliveries, listed, ghostVars>>
  BY <1>1 DEF storeVars, Resting
<1>4. CASE sending' = [sending EXCEPT ![s] = [phase |-> "send", claim |-> c]] /\ UNCHANGED claims
  <2>1. PICK state : state = [phase |-> "send", claim |-> c]
    OBVIOUS
  <2>2. state \in SendingState /\ state.phase = "send" /\ state.claim = c
    BY <1>1, <2>1 DEF SendingState
  <2>3. claims' = [claims EXCEPT ![s] = claims[s]]
    BY <1>2, <1>4
  <2> QED
    BY <1>1, <1>4, <1>3, <2>1, <2>2, <2>3, SenderMoves, ZenonT(30)
<1>5. CASE claims' = [claims EXCEPT ![s] = @ \ {c}] /\ UNCHANGED sending
  <2>1. sending' = [sending EXCEPT ![s] = Resting] /\ Resting \in SendingState
    BY <1>1, <1>2, <1>5 DEF SendingState
  <2>2. claims[s] \ {c} \subseteq claims[s]
    OBVIOUS
  <2> QED
    BY <1>5, <1>3, <2>1, <2>2, SenderRests
<1> QED
  BY <1>4, <1>5 DEF Revalidate

LEMMA ReadStep ==
  ASSUME RemindersInv, NEW s \in Senders, ReadAttempts(s)
  PROVE  RemindersInv'
<1>1. PICK c, d : c = sending[s].claim /\ d = deliveries[c.reminder]
  OBVIOUS
<1>2. sending[s].phase = "error" /\ UNCHANGED <<instant, storeVars, listed, ghostVars>>
  BY DEF ReadAttempts
<1>3. c \in claims[s] /\ c \in Claim
  BY <1>1, <1>2, UnderWay
<1>4. CASE UNCHANGED claims /\ sending' = [sending EXCEPT ![s] =
                [phase |-> "fail", claim |-> c, last |-> d.count >= MaxAttempts, current |-> instant]]
  <2>1. PICK state : state = [phase |-> "fail", claim |-> c, last |-> d.count >= MaxAttempts, current |-> instant]
    OBVIOUS
  <2>2. instant \in Int
    BY DEF RemindersInv, RemindersTyped
  <2>3. (d.count >= MaxAttempts) \in BOOLEAN
    OBVIOUS
  <2>4. state \in SendingState /\ state.phase = "fail" /\ state.claim = c
    BY <1>3, <2>1, <2>2, <2>3 DEF SendingState
  <2>5. claims' = [claims EXCEPT ![s] = claims[s]]
    BY <1>4 DEF RemindersInv, RemindersTyped
  <2> QED
    BY <1>2, <1>3, <1>4, <2>1, <2>4, <2>5, SenderMoves DEF storeVars
<1>5. CASE Settle(s, c)
  BY <1>2, <1>5, SenderRests DEF Settle, storeVars
<1> QED
  BY <1>1, <1>4, <1>5 DEF ReadAttempts

LEMMA DiesStep ==
  ASSUME RemindersInv, NEW s \in Senders, SenderDies(s)
  PROVE  RemindersInv'
<1>1. PICK left : left = {}
  OBVIOUS
<1>2. /\ claims' = [claims EXCEPT ![s] = left] /\ sending' = [sending EXCEPT ![s] = Resting]
      /\ UNCHANGED <<instant, reminders, deliveries, listed, ghostVars>>
  BY <1>1 DEF SenderDies, storeVars
<1>3. left \subseteq claims[s] /\ sending[s].claim \notin left
  BY <1>1
<1> QED
  BY <1>2, <1>3, SenderRests

\* What goes out was live, and is so no longer.
LEMMA SendStep ==
  ASSUME RemindersInv, NEW s \in Senders, Send(s)
  PROVE  RemindersInv'
<1>1. PICK c : c = sending[s].claim
  OBVIOUS
<1>2. PICK o : o = c.reminder
  OBVIOUS
<1>3. sending[s].phase = "send" /\ UNCHANGED <<instant, storeVars, claims, listed, moves, doubts>>
  BY DEF Send
<1>4. c \in claims[s] /\ c \in Claim /\ o \in Targeted /\ o \in ReminderIds
  BY <1>1, <1>2, <1>3, UnderWay
<1>5. CASE sending' = [sending EXCEPT ![s] = [phase |-> "error", claim |-> c]] /\ UNCHANGED shown
  <2>1. PICK state : state = [phase |-> "error", claim |-> c]
    OBVIOUS
  <2>2. state \in SendingState /\ state.phase = "error" /\ state.claim = c
    BY <1>4, <2>1 DEF SendingState
  <2>3. claims' = [claims EXCEPT ![s] = claims[s]]
    BY <1>3 DEF RemindersInv, RemindersTyped
  <2> QED
    BY <1>3, <1>4, <1>5, <2>1, <2>2, <2>3, SenderMoves DEF storeVars, ghostVars
<1>6. CASE /\ sending' = [sending EXCEPT ![s] = [phase |-> "sent", claim |-> c]]
           /\ shown' = IF reminders[o].at = c.at THEN [shown EXCEPT ![o] = @ + 1] ELSE shown
  <2>1. PICK state : state = [phase |-> "sent", claim |-> c]
    OBVIOUS
  <2>2. state \in SendingState /\ state.phase = "sent" /\ state.claim = c
    BY <1>4, <2>1 DEF SendingState
  <2>3. \A t \in Senders : sending'[t] = IF t = s THEN state ELSE sending[t]
    BY <1>6, <2>1 DEF RemindersInv, RemindersTyped
  <2>4. /\ shown' \in [ReminderIds -> Nat]
        /\ \A r \in ReminderIds : r # o => shown'[r] = shown[r]
        /\ c = Now(o) => shown'[o] = shown[o] + 1
        /\ c # Now(o) => shown'[o] = shown[o]
    <3>1. c = Now(o) <=> reminders[o].at = c.at
      BY <1>2, <1>4 DEF Claim, Now
    <3>2. shown \in [ReminderIds -> Nat]
      BY DEF RemindersInv, RemindersTyped
    <3> QED
      BY <1>4, <1>6, <3>1, <3>2
  <2>5. RemindersTyped'
    BY <1>3, <1>6, <2>1, <2>2, <2>4 DEF RemindersInv, RemindersTyped, storeVars
  <2>6. ClaimsTrue'
    BY <1>3, <1>4, <2>2, <2>3 DEF RemindersInv, ClaimsTrue
  <2>7. \A r \in ReminderIds : Live(r)' \subseteq Live(r) /\ (r = o /\ c = Now(o) => s \in Live(r) /\ s \notin Live(r)')
    <3>1. \A r \in ReminderIds : Now(r)' = Now(r)
      BY <1>3 DEF Now, storeVars
    <3> QED
      BY <1>3, <1>4, <2>2, <2>3, <3>1 DEF Live
  <2>8. ASSUME NEW r \in ReminderIds, r # o PROVE ReminderInv(r)'
    <3>1. \A t \in Senders : sending'[t].phase = "sent" /\ sending'[t].claim.reminder = r => sending'[t] = sending[t]
      BY <1>2, <2>2, <2>3, <2>8
    <3> QED
      BY <1>3, <2>4, <2>7, <2>8, <3>1, StaysInOrder DEF storeVars
  <2>9. ReminderInv(o)'
    <3>1. Accounted(o) /\ Agrees(o) /\ SentIsShown(o) /\ ReminderInv(o)
      BY <1>4, TargetFacts DEF RemindersInv
    <3>2. shown[o] \in Nat /\ doubts[o] \in Nat /\ shown'[o] \in Nat
      BY <1>4, <2>4, RowFacts
    <3>3. UNCHANGED <<reminders, deliveries, doubts>>
      BY <1>3 DEF storeVars
    <3>4. Accounted(o)'
      <4>1. CASE c # Now(o)
        BY <1>4, <2>4, <2>7, <3>2, <3>3, <4>1, StaysAccounted DEF Waiting
      <4>2. CASE c = Now(o)
        <5>1. PICK S, T : S = Live(o) /\ T = Live(o)'
          OBVIOUS
        <5>2. IsFiniteSet(S) /\ T \subseteq S /\ s \in S /\ s \notin T
          BY <1>4, <2>7, <4>2, <5>1, LiveFinite
        <5>3. Cardinality(T) \in Nat /\ Cardinality(S) \in Nat /\ Cardinality(T) + 1 <= Cardinality(S)
          BY <5>2, FewerLive
        <5>4. shown[o] + Cardinality(S) + Waiting(o) <= 1 + doubts[o] /\ Waiting(o) \in {0, 1}
          BY <3>1, <5>1 DEF Accounted, Waiting
        <5>5. shown'[o] + Cardinality(T) + Waiting(o) <= 1 + doubts[o]
          BY <2>4, <3>2, <4>2, <5>3, <5>4
        <5>6. Waiting(o)' = Waiting(o)
          BY <3>3 DEF Waiting
        <5> QED
          BY <3>3, <5>1, <5>5, <5>6 DEF Accounted
      <4> QED
        BY <4>1, <4>2
    <3>5. shown[o] <= shown'[o] /\ (c = Now(o) => shown'[o] > 0)
      BY <2>4, <3>2
    <3>6. SentIsShown(o)'
      <4>1. \A t \in Senders : sending[t].phase = "sent" /\ sending[t].claim = Now(o) => shown'[o] > 0
        BY <3>1, <3>2, <3>5 DEF SentIsShown
      <4> QED
        BY <2>2, <2>3, <3>3, <3>5, <4>1 DEF SentIsShown, Now
    <3>7. reminders[o].status = "new" => shown'[o] = shown[o]
      <4>1. c = Now(o) => reminders[o].at > 0
        BY <1>4, SenderFacts DEF Now
      <4>2. reminders[o].status = "new" => reminders[o].at <= 0
        BY <3>1 DEF ReminderInv
      <4> QED
        BY <1>4, <2>4, <4>1, <4>2, RowFacts
    <3> QED
      BY <1>4, <3>1, <3>2, <3>3, <3>4, <3>5, <3>6, <3>7 DEF ReminderInv, Agrees
  <2> QED
    BY <2>5, <2>6, <2>8, <2>9 DEF RemindersInv
<1> QED
  BY <1>1, <1>2, <1>5, <1>6 DEF Send

\* A report settles a claim and its delivery, which was being sent: it is
\* delivered, failed, or to be retried.
LEMMA ReportSettles ==
  ASSUME RemindersInv, NEW s \in Senders, NEW c, NEW row, NEW over \in BOOLEAN,
         sending[s].phase # "rest", sending[s].claim = c,
         deliveries[c.reminder].status = "sending",
         row \in DeliveryRow,
         over => row.status = "delivered" /\ sending[s].phase = "sent",
         ~over => row.status \in {"failed", "retrying"} /\ sending[s].phase = "fail",
         deliveries' = [deliveries EXCEPT ![c.reminder] = row],
         reminders' = IF over THEN [reminders EXCEPT ![c.reminder].status = "delivered"] ELSE reminders,
         doubts' = IF Astray(s, c) THEN [doubts EXCEPT ![c.reminder] = @ + 1] ELSE doubts,
         Settle(s, c), UNCHANGED <<instant, listed, moves, shown>>
  PROVE  RemindersInv'
<1>1. PICK o : o = c.reminder
  OBVIOUS
<1>2. c \in claims[s] /\ c \in Claim /\ o \in Targeted /\ o \in ReminderIds
  BY <1>1, UnderWay
<1>3. /\ \A t \in Senders : t # s => claims'[t] = claims[t] /\ sending'[t] = sending[t]
      /\ claims'[s] = claims[s] \ {c} /\ sending'[s] = Resting
      /\ claims' \in [Senders -> SUBSET Claim] /\ sending' \in [Senders -> SendingState]
  BY DEF Settle, RemindersInv, RemindersTyped, SendingState
<1>4. /\ reminders' \in [ReminderIds -> ReminderRow]
      /\ \A r \in ReminderIds : r # o => reminders'[r] = reminders[r]
      /\ reminders'[o].at = reminders[o].at
      /\ over => reminders'[o].status = "delivered"
      /\ ~over => reminders'[o] = reminders[o]
  BY <1>1, <1>2 DEF RemindersInv, RemindersTyped, ReminderRow
<1>5. /\ deliveries' \in [ReminderIds -> DeliveryRow] /\ deliveries'[o] = row
      /\ \A r \in ReminderIds : r # o => deliveries'[r] = deliveries[r]
  BY <1>1, <1>2 DEF RemindersInv, RemindersTyped
<1>6. /\ doubts' \in [ReminderIds -> Nat]
      /\ \A r \in ReminderIds : r # o => doubts'[r] = doubts[r]
      /\ Astray(s, c) => doubts'[o] = doubts[o] + 1
      /\ ~Astray(s, c) => doubts'[o] = doubts[o]
  BY <1>1, <1>2 DEF RemindersInv, RemindersTyped
<1>7. RemindersTyped'
  BY <1>3, <1>4, <1>5, <1>6 DEF RemindersInv, RemindersTyped
<1>8. ClaimsTrue'
  BY <1>3 DEF RemindersInv, ClaimsTrue, Resting
<1>9. \A r \in ReminderIds : Now(r)' = Now(r)
  BY <1>4 DEF Now
<1>10. \A r \in ReminderIds : Live(r)' \subseteq Live(r)
  <2> SUFFICES ASSUME NEW r \in ReminderIds, NEW t \in Live(r)' PROVE t \in Live(r)
    OBVIOUS
  <2>1. t \in Senders /\ Now(r) \in claims'[t] /\ ~(sending'[t].phase = "sent" /\ sending'[t].claim = Now(r))
    BY <1>9 DEF Live
  <2>2. CASE t # s
    BY <1>3, <2>1, <2>2 DEF Live
  <2>3. CASE t = s
    BY <1>3, <2>1, <2>3 DEF Live
  <2> QED
    BY <2>2, <2>3
<1>11. \A t \in Senders : sending'[t].phase = "sent" => sending'[t] = sending[t] /\ t # s
  BY <1>3 DEF Resting
<1>12. ASSUME NEW r \in ReminderIds, r # o PROVE ReminderInv(r)'
  BY <1>4, <1>5, <1>6, <1>10, <1>11, <1>12, StaysInOrder
<1>13. ReminderInv(o)'
  <2>1. Accounted(o) /\ Agrees(o) /\ SentIsShown(o) /\ ReminderInv(o)
    BY <1>2, TargetFacts DEF RemindersInv
  <2>2. shown[o] \in Nat /\ doubts[o] \in Nat /\ doubts'[o] \in Nat /\ doubts[o] <= doubts'[o]
    BY <1>2, <1>6, RowFacts
  <2>3. reminders[o].status = "scheduled" /\ deliveries[o].status = "sending"
    BY <1>1, <2>1 DEF Agrees
  <2>4. Waiting(o) = 0 /\ Waiting(o)' \in {0, 1} /\ (over => Waiting(o)' = 0)
    BY <1>5, <2>3 DEF Waiting
  <2>5. Accounted(o)'
    <3>1. CASE Astray(s, c) \/ over
      <4>1. PICK S, T : S = Cardinality(Live(o)) /\ T = Cardinality(Live(o)')
        OBVIOUS
      <4>2. S \in Nat /\ T \in Nat /\ T <= S
        BY <1>2, <1>10, <4>1, FewerLive, LiveFinite
      <4>3. shown[o] + S + 0 <= 1 + doubts[o]
        BY <2>1, <2>4, <4>1 DEF Accounted
      <4>4. shown'[o] + T + Waiting(o)' <= 1 + doubts'[o]
        BY <1>6, <2>2, <2>4, <3>1, <4>2, <4>3
      <4> QED
        BY <4>1, <4>4 DEF Accounted
    <3>2. CASE ~Astray(s, c) /\ ~over
      <4>1. c = Now(o) /\ sending[s].phase = "fail"
        BY <1>1, <1>2, <3>2 DEF Astray, Claim, Now
      <4>2. s \in Live(o) /\ s \notin Live(o)'
        BY <1>2, <1>3, <1>9, <4>1 DEF Live
      <4>3. PICK S, T : S = Cardinality(Live(o)) /\ T = Cardinality(Live(o)')
        OBVIOUS
      <4>4. S \in Nat /\ T \in Nat /\ T + 1 <= S
        BY <1>2, <1>10, <4>2, <4>3, FewerLive, LiveFinite
      <4>5. shown[o] + S + 0 <= 1 + doubts[o]
        BY <2>1, <2>4, <4>3 DEF Accounted
      <4>6. shown'[o] + T + Waiting(o)' <= 1 + doubts'[o]
        BY <1>6, <2>2, <2>4, <3>2, <4>4, <4>5
      <4> QED
        BY <4>3, <4>6 DEF Accounted
    <3> QED
      BY <3>1, <3>2
  <2>6. Agrees(o)'
    <3>1. CASE over
      <4>1. shown[o] + doubts'[o] > 0
        <5>1. CASE Astray(s, c)
          BY <1>6, <2>2, <5>1
        <5>2. CASE ~Astray(s, c)
          <6>1. c = Now(o)
            BY <1>1, <1>2, <5>2 DEF Astray, Claim, Now
          <6> QED
            BY <2>1, <2>2, <3>1, <6>1 DEF SentIsShown
        <5> QED
          BY <5>1, <5>2
      <4> QED
        BY <1>4, <1>5, <3>1, <4>1 DEF Agrees
    <3>2. CASE ~over
      BY <1>4, <1>5, <2>3, <3>2 DEF Agrees
    <3> QED
      BY <3>1, <3>2
  <2>7. SentIsShown(o)'
    BY <1>2, <1>9, <1>11, <2>1 DEF SentIsShown
  <2> QED
    BY <1>2, <1>4, <2>1, <2>3, <2>5, <2>6, <2>7 DEF ReminderInv
<1> QED
  BY <1>7, <1>8, <1>12, <1>13 DEF RemindersInv

LEMMA CompleteStep ==
  ASSUME RemindersInv, NEW s \in Senders, CompleteDelivery(s)
  PROVE  RemindersInv'
<1>1. PICK c : c = sending[s].claim
  OBVIOUS
<1>2. PICK o : o = c.reminder
  OBVIOUS
<1>3. sending[s].phase = "sent" /\ Settle(s, c) /\ UNCHANGED <<instant, listed, moves, shown>>
  BY <1>1 DEF CompleteDelivery
<1>4. c \in claims[s] /\ o \in Targeted /\ o \in ReminderIds
  BY <1>1, <1>2, <1>3, UnderWay
<1>5. CASE deliveries[o].status = "sending"
  <2>1. PICK row : row = [deliveries[o] EXCEPT !.status = "delivered", !.updated = instant]
    OBVIOUS
  <2>2. row \in DeliveryRow /\ row.status = "delivered"
    <3>1. deliveries[o] \in DeliveryRow /\ instant \in Int
      BY <1>4, RowFacts
    <3> QED
      BY <2>1, <3>1 DEF DeliveryRow
  <2>3. reminders[o].status = "scheduled"
    BY <1>4, <1>5, TargetFacts DEF Agrees
  <2>4. /\ deliveries' = [deliveries EXCEPT ![o] = row]
        /\ reminders' = [reminders EXCEPT ![o].status = "delivered"]
        /\ doubts' = IF Astray(s, c) THEN [doubts EXCEPT ![o] = @ + 1] ELSE doubts
    BY <1>1, <1>2, <1>5, <2>1, <2>3 DEF CompleteDelivery
  <2>5. PICK over \in BOOLEAN : over = TRUE
    OBVIOUS
  <2>6. reminders' = IF over THEN [reminders EXCEPT ![o].status = "delivered"] ELSE reminders
    BY <2>4, <2>5
  <2>7. over /\ row.status = "delivered" /\ sending[s].phase = "sent"
    BY <1>3, <2>2, <2>5
  <2>8. deliveries[c.reminder].status = "sending" /\ sending[s].phase # "rest" /\ sending[s].claim = c
    BY <1>1, <1>2, <1>3, <1>5
  <2>9. /\ deliveries' = [deliveries EXCEPT ![c.reminder] = row]
        /\ reminders' = IF over THEN [reminders EXCEPT ![c.reminder].status = "delivered"] ELSE reminders
        /\ doubts' = IF Astray(s, c) THEN [doubts EXCEPT ![c.reminder] = @ + 1] ELSE doubts
    BY <1>2, <2>4, <2>6
  <2> QED
    BY <1>3, <2>2, <2>7, <2>8, <2>9, ReportSettles
<1>6. CASE deliveries[o].status # "sending"
  <2>1. UNCHANGED <<instant, reminders, deliveries, listed, ghostVars>>
    BY <1>1, <1>2, <1>3, <1>6 DEF CompleteDelivery, ghostVars
  <2> QED
    BY <1>1, <1>3, <2>1, SenderRests DEF Settle
<1> QED
  BY <1>5, <1>6

LEMMA FailStep ==
  ASSUME RemindersInv, NEW s \in Senders, FailDelivery(s)
  PROVE  RemindersInv'
<1>1. PICK c : c = sending[s].claim
  OBVIOUS
<1>2. PICK o : o = c.reminder
  OBVIOUS
<1>3. sending[s].phase = "fail" /\ Settle(s, c) /\ UNCHANGED <<instant, reminders, listed, moves, shown>>
  BY <1>1 DEF FailDelivery
<1>4. c \in claims[s] /\ o \in Targeted /\ o \in ReminderIds
  BY <1>1, <1>2, <1>3, UnderWay
<1>5. CASE deliveries[o].status = "sending"
  <2>1. PICK row : row = [deliveries[o] EXCEPT
                !.status = IF sending[s].last THEN "failed" ELSE "retrying",
                !.retryAt = IF sending[s].last THEN NoTime ELSE sending[s].current + RetryDelay,
                !.updated = sending[s].current]
    OBVIOUS
  <2>2. sending[s].current \in Int
    BY <1>3, SenderFacts DEF SendingState, Resting
  <2>3. PICK status \in {"failed", "retrying"}, at \in Int :
          row = [deliveries[o] EXCEPT !.status = status, !.retryAt = at, !.updated = sending[s].current]
    <3>1. NoTime \in Int /\ sending[s].current + RetryDelay \in Int
      BY <2>2, ReminderAssumption DEF NoTime
    <3> QED
      BY <2>1, <3>1
  <2>4. row \in DeliveryRow /\ row.status \in {"failed", "retrying"}
    <3>1. deliveries[o] \in DeliveryRow
      BY <1>4, RowFacts
    <3> QED
      BY <2>2, <2>3, <3>1 DEF DeliveryRow
  <2>5. /\ deliveries' = [deliveries EXCEPT ![o] = row]
        /\ doubts' = IF Astray(s, c) THEN [doubts EXCEPT ![o] = @ + 1] ELSE doubts
    BY <1>1, <1>2, <1>5, <2>1 DEF FailDelivery
  <2>6. PICK over \in BOOLEAN : over = FALSE
    OBVIOUS
  <2>7. reminders' = IF over THEN [reminders EXCEPT ![o].status = "delivered"] ELSE reminders
    BY <1>3, <2>6
  <2>8. ~over /\ row.status \in {"failed", "retrying"} /\ sending[s].phase = "fail"
    BY <1>3, <2>4, <2>6
  <2> QED
    BY <1>1, <1>2, <1>3, <1>5, <2>4, <2>5, <2>7, <2>8, ReportSettles
<1>6. CASE deliveries[o].status # "sending"
  <2>1. UNCHANGED <<instant, reminders, deliveries, listed, ghostVars>>
    BY <1>1, <1>2, <1>3, <1>6 DEF FailDelivery, ghostVars
  <2> QED
    BY <1>1, <1>3, <2>1, SenderRests DEF Settle
<1> QED
  BY <1>5, <1>6

\* Whoever claims is one more sender that may show; of a stale claim that is
\* in doubt.
LEMMA ClaimStep ==
  ASSUME RemindersInv, NEW s \in Senders, ClaimDeliveries(s)
  PROVE  RemindersInv'
<1>1. PICK mine : mine = {r \in Targeted : Claimable(r)}
  OBVIOUS
<1>2. PICK mineNow : mineNow = {[reminder |-> r, at |-> reminders[r].at] : r \in mine}
  OBVIOUS
<1>3. /\ claims[s] = {} /\ claims' = [claims EXCEPT ![s] = mineNow]
      /\ deliveries' = [r \in ReminderIds |->
           IF r \in mine
           THEN [status |-> "sending", count |-> deliveries[r].count + 1, retryAt |-> NoTime, updated |-> instant]
           ELSE deliveries[r]]
      /\ doubts' = [r \in ReminderIds |-> IF r \in mine /\ Stale(r) THEN doubts[r] + 1 ELSE doubts[r]]
      /\ UNCHANGED <<instant, tasks, reminders, sending, listed, moves, shown, errors>>
  BY <1>1, <1>2 DEF ClaimDeliveries
<1>4. \A r \in mine :
        /\ r \in Targeted /\ r \in ReminderIds
        /\ reminders[r].status = "scheduled" /\ reminders[r].at <= instant /\ 0 < reminders[r].at
        /\ deliveries[r].status \in {"pending", "retrying"} \/ Stale(r)
  BY <1>1, ReminderAssumption DEF Claimable, Owed, RemindersInv, ReminderInv
<1>5. mineNow \subseteq Claim /\ \A c \in mineNow : c.reminder \in mine /\ c.at = reminders[c.reminder].at
  BY <1>2, <1>4, RowFacts DEF Claim
<1>6. sending[s].phase = "rest"
  BY <1>3, SenderFacts
<1>7. /\ \A t \in Senders : t # s => claims'[t] = claims[t]
      /\ claims'[s] = mineNow /\ claims' \in [Senders -> SUBSET Claim]
  BY <1>3, <1>5 DEF RemindersInv, RemindersTyped
<1>8. deliveries' \in [ReminderIds -> DeliveryRow] /\ doubts' \in [ReminderIds -> Nat]
  <2>1. ASSUME NEW r \in ReminderIds PROVE deliveries'[r] \in DeliveryRow /\ doubts'[r] \in Nat
    <3>1. [status |-> "sending", count |-> deliveries[r].count + 1, retryAt |-> NoTime, updated |-> instant]
            \in DeliveryRow
      BY RowFacts DEF DeliveryRow, NoTime
    <3> QED
      BY <1>3, <3>1, RowFacts
  <2> QED
    BY <1>3, <2>1
<1>9. RemindersTyped'
  BY <1>3, <1>7, <1>8 DEF RemindersInv, RemindersTyped
<1>10. ClaimsTrue'
  BY <1>3, <1>4, <1>5, <1>6, <1>7 DEF RemindersInv, ClaimsTrue
<1>11. \A r \in ReminderIds : Now(r)' = Now(r)
  BY <1>3 DEF Now
<1>12. \A r \in ReminderIds : Live(r)' \subseteq Live(r) \cup {s} /\ (r \notin mine => Live(r)' \subseteq Live(r))
  <2> SUFFICES ASSUME NEW r \in ReminderIds, NEW t \in Live(r)'
               PROVE  t \in Live(r) \/ (t = s /\ r \in mine)
    OBVIOUS
  <2>1. t \in Senders /\ Now(r) \in claims'[t] /\ ~(sending[t].phase = "sent" /\ sending[t].claim = Now(r))
    BY <1>3, <1>11 DEF Live
  <2>2. CASE t # s
    BY <1>7, <2>1, <2>2 DEF Live
  <2>3. CASE t = s
    <3>1. Now(r).reminder \in mine
      BY <1>5, <1>7, <2>1, <2>3
    <3> QED
      BY <2>3, <3>1 DEF Now
  <2> QED
    BY <2>2, <2>3
<1>13. ASSUME NEW r \in ReminderIds, r \notin mine PROVE ReminderInv(r)'
  <2>1. deliveries'[r] = deliveries[r] /\ doubts'[r] = doubts[r]
    BY <1>3, <1>13
  <2> QED
    BY <1>3, <1>12, <1>13, <2>1, StaysInOrder
<1>14. ASSUME NEW r \in mine PROVE ReminderInv(r)'
  <2>1. r \in Targeted /\ r \in ReminderIds /\ reminders[r].status = "scheduled"
    BY <1>4
  <2>2. Accounted(r) /\ Agrees(r) /\ SentIsShown(r) /\ ReminderInv(r)
    BY <2>1, TargetFacts DEF RemindersInv
  <2>3. shown[r] \in Nat /\ doubts[r] \in Nat /\ doubts'[r] \in Nat
    BY <1>8, <2>1, RowFacts
  <2>4. deliveries'[r].status = "sending" /\ Waiting(r)' = 0
    BY <1>3, <2>1 DEF Waiting
  <2>5. Waiting(r) + doubts'[r] = doubts[r] + 1
    <3>1. CASE Stale(r)
      <4>1. Waiting(r) = 0
        BY <3>1 DEF Stale, Waiting
      <4> QED
        BY <1>3, <2>1, <2>3, <3>1, <4>1
    <3>2. CASE ~Stale(r)
      <4>1. Waiting(r) = 1
        BY <1>4, <3>2 DEF Waiting
      <4> QED
        BY <1>3, <2>1, <2>3, <3>2, <4>1
    <3> QED
      BY <3>1, <3>2
  <2>6. PICK S, T : S = Cardinality(Live(r)) /\ T = Cardinality(Live(r)')
    OBVIOUS
  <2>7. S \in Nat /\ T \in Nat /\ T <= S + 1
    <3>1. PICK old, new : old = Live(r) /\ new = Live(r)'
      OBVIOUS
    <3>2. IsFiniteSet(old) /\ Cardinality(old) \in Nat /\ new \subseteq old \cup {s}
      BY <1>12, <2>1, <3>1, LiveFinite
    <3>3. IsFiniteSet(old \cup {s}) /\ Cardinality(old \cup {s}) <= Cardinality(old) + 1
      BY <3>2, FS_AddElement, SMTT(20)
    <3>4. Cardinality(new) \in Nat /\ Cardinality(old \cup {s}) \in Nat /\ Cardinality(new) <= Cardinality(old \cup {s})
      BY <3>2, <3>3, FewerLive
    <3> QED
      BY <2>6, <3>1, <3>2, <3>3, <3>4
  <2>8. shown[r] + S + Waiting(r) <= 1 + doubts[r] /\ Waiting(r) \in {0, 1}
    BY <2>2, <2>6 DEF Accounted, Waiting
  <2>9. shown[r] + T + 0 <= 1 + doubts'[r]
    BY <2>3, <2>5, <2>7, <2>8
  <2>10. Accounted(r)'
    BY <1>3, <2>4, <2>6, <2>9 DEF Accounted
  <2>11. Agrees(r)'
    BY <1>3, <2>1, <2>4 DEF Agrees
  <2>12. SentIsShown(r)'
    BY <1>3, <1>11, <2>1, <2>2 DEF SentIsShown
  <2> QED
    BY <1>3, <2>1, <2>2, <2>10, <2>11, <2>12 DEF ReminderInv
<1> QED
  BY <1>9, <1>10, <1>13, <1>14 DEF RemindersInv

LEMMA SelectStep ==
  ASSUME RemindersInv, NEW a \in Announcers, SelectDue(a)
  PROVE  RemindersInv'
<1>1. PICK new : new = {[reminder |-> r, at |-> reminders[r].at] : r \in {x \in ReminderIds \ Targeted : Owed(x)}}
  OBVIOUS
<1>2. listed' = [listed EXCEPT ![a] = new] /\ UNCHANGED <<instant, storeVars, senderVars, ghostVars, errors>>
  BY <1>1 DEF SelectDue
<1>3. new \subseteq Claim /\ \A c \in new : c.reminder \notin Targeted
  BY <1>1, RowFacts DEF Claim
<1>4. RemindersTyped'
  BY <1>2, <1>3 DEF RemindersInv, RemindersTyped, storeVars, senderVars, ghostVars
<1>5. ClaimsTrue'
  <2>1. \A b \in Announcers : listed'[b] = IF b = a THEN new ELSE listed[b]
    BY <1>2 DEF RemindersInv, RemindersTyped
  <2> QED
    BY <1>2, <1>3, <2>1 DEF RemindersInv, ClaimsTrue, storeVars, senderVars, ghostVars
<1>6. \A r \in ReminderIds : Live(r)' = Live(r)
  BY <1>2 DEF Live, Now, storeVars, senderVars
<1>7. \A r \in ReminderIds : ReminderInv(r)'
  BY <1>2, <1>6, StaysInOrder DEF storeVars, senderVars, ghostVars
<1> QED
  BY <1>4, <1>5, <1>7 DEF RemindersInv

LEMMA MarkStep ==
  ASSUME RemindersInv, NEW a \in Announcers, MarkAndAnnounce(a)
  PROVE  RemindersInv'
<1>1. PICK mine : mine = StillScheduled(a)
  OBVIOUS
<1>2. \A r \in mine : r \in ReminderIds /\ r \notin Targeted /\ reminders[r].status = "scheduled"
  BY <1>1 DEF StillScheduled, RemindersInv, RemindersTyped, ClaimsTrue, Claim
<1>3. /\ reminders' = [r \in ReminderIds |->
           IF r \in mine THEN [reminders[r] EXCEPT !.status = "delivered"] ELSE reminders[r]]
      /\ \/ shown' = [r \in ReminderIds |-> IF r \in mine THEN shown[r] + 1 ELSE shown[r]]
         \/ UNCHANGED shown
      /\ listed' = [listed EXCEPT ![a] = {}]
      /\ UNCHANGED <<instant, deliveries, senderVars, doubts>>
  BY <1>1 DEF MarkAndAnnounce
<1>4. /\ \A r \in ReminderIds \ mine : reminders'[r] = reminders[r] /\ shown'[r] = shown[r]
      /\ \A r \in mine : /\ reminders'[r] \in ReminderRow
                         /\ reminders'[r].status = "delivered" /\ reminders'[r].at = reminders[r].at
                         /\ shown'[r] \in {shown[r], shown[r] + 1}
  BY <1>2, <1>3, RowFacts DEF ReminderRow
<1>5. \A r \in ReminderIds : reminders'[r] \in ReminderRow /\ shown'[r] \in Nat
  <2> TAKE r \in ReminderIds
  <2>1. CASE r \in mine
    BY <1>4, <2>1, RowFacts
  <2>2. CASE r \notin mine
    BY <1>4, <2>2, RowFacts
  <2> QED
    BY <2>1, <2>2
<1>6. RemindersTyped'
  <2>1. reminders' \in [ReminderIds -> ReminderRow] /\ shown' \in [ReminderIds -> Nat]
    BY <1>3, <1>5 DEF RemindersInv, RemindersTyped
  <2> QED
    BY <1>3, <2>1 DEF RemindersInv, RemindersTyped, senderVars
<1>7. ClaimsTrue'
  BY <1>3 DEF RemindersInv, RemindersTyped, ClaimsTrue, senderVars
<1>8. \A r \in ReminderIds : Live(r)' = Live(r)
  <2>1. \A r \in ReminderIds : Now(r)' = Now(r)
    BY <1>4 DEF Now
  <2> QED
    BY <1>3, <2>1 DEF Live, senderVars
<1>9. ASSUME NEW r \in ReminderIds PROVE ReminderInv(r)'
  <2>1. CASE r \in mine
    <3>1. ReminderInv(r) /\ shown[r] \in Nat
      BY RowFacts DEF RemindersInv
    <3>2. shown[r] = 0 /\ r \notin Targeted
      BY <1>2, <2>1, <3>1 DEF ReminderInv
    <3> QED
      BY <1>4, <2>1, <3>2 DEF ReminderInv
  <2>2. CASE r \notin mine
    BY <1>3, <1>4, <1>8, <2>2, StaysInOrder DEF senderVars
  <2> QED
    BY <2>1, <2>2
<1> QED
  BY <1>6, <1>7, <1>9 DEF RemindersInv

\* What users do with a reminder: nothing, ...
Untouched(r) == /\ reminders'[r] = reminders[r] /\ deliveries'[r] = deliveries[r]
                /\ shown'[r] = shown[r] /\ doubts'[r] = doubts[r]

\* ... schedule it for a time that nobody has claimed it for ...
Scheduled(r) ==
  /\ reminders'[r].status = "scheduled" /\ reminders'[r].at > instant
  /\ shown'[r] = 0
  /\ r \in Targeted => deliveries'[r].status = "pending"

\* ... or call it off.
CalledOff(r) ==
  /\ reminders[r].status = "scheduled"
  /\ reminders'[r].status \in {"cancelled", "removed"} /\ reminders'[r].at \in {reminders[r].at, NoTime}
  /\ shown'[r] = shown[r] /\ doubts'[r] = doubts[r]
  /\ r \in Targeted => deliveries'[r].status \in {"failed", "none"}

LEMMA UsersChange ==
  ASSUME RemindersInv, UNCHANGED <<instant, senderVars, listed>>,
         reminders' \in [ReminderIds -> ReminderRow], deliveries' \in [ReminderIds -> DeliveryRow],
         shown' \in [ReminderIds -> Nat], doubts' \in [ReminderIds -> Nat],
         \A r \in ReminderIds : Untouched(r) \/ Scheduled(r) \/ CalledOff(r)
  PROVE  RemindersInv'
<1>1. RemindersTyped' /\ ClaimsTrue'
  BY DEF RemindersInv, RemindersTyped, ClaimsTrue, senderVars
<1>2. ASSUME NEW r \in ReminderIds, Untouched(r) PROVE ReminderInv(r)'
  <2>1. Live(r)' = Live(r)
    BY <1>2 DEF Untouched, Live, Now, senderVars
  <2> QED
    BY <1>2, <2>1, StaysInOrder DEF Untouched, senderVars
<1>3. ASSUME NEW r \in ReminderIds, Scheduled(r) PROVE ReminderInv(r)'
  <2>1. \A s \in Senders : Now(r)' \notin claims[s] /\ claims'[s] = claims[s] /\ sending'[s] = sending[s]
    <3>1. \A s \in Senders : \A c \in claims[s] : c.at \in Int /\ c.at <= instant
      BY SenderFacts
    <3>2. instant \in Nat /\ reminders'[r].at \in Int
      BY RowFacts DEF ReminderRow
    <3> QED
      BY <1>3, <3>1, <3>2 DEF Scheduled, Now, senderVars
  <2>2. Live(r)' = {}
    BY <2>1 DEF Live
  <2>3. CASE r \in Targeted
    <3>1. Accounted(r)'
      <4>1. Cardinality(Live(r)') = 0
        BY <2>2, FS_EmptySet
      <4>2. Waiting(r)' = 1 /\ shown'[r] = 0 /\ doubts'[r] \in Nat
        BY <1>3, <2>3 DEF Scheduled, Waiting
      <4>3. shown'[r] + 0 + 1 <= 1 + doubts'[r]
        BY <4>2
      <4> QED
        BY <4>1, <4>2, <4>3 DEF Accounted
    <3>2. Agrees(r)'
      BY <1>3, <2>3 DEF Scheduled, Agrees
    <3>3. SentIsShown(r)'
      <4>1. \A s \in Senders : sending[s].phase = "sent" => sending[s].claim \in claims[s]
        BY SenderFacts
      <4> QED
        BY <2>1, <4>1 DEF SentIsShown
    <3>4. reminders'[r].at > 0
      BY <1>3, RowFacts DEF Scheduled, ReminderRow
    <3> QED
      BY <1>3, <2>3, <3>1, <3>2, <3>3, <3>4 DEF Scheduled, ReminderInv
  <2>4. CASE r \notin Targeted
    BY <1>3, <2>4, RowFacts DEF Scheduled, ReminderInv, ReminderRow
  <2> QED
    BY <2>3, <2>4
<1>4. ASSUME NEW r \in ReminderIds, CalledOff(r) PROVE ReminderInv(r)'
  <2>1. \A s \in Senders : (Now(r)' \in claims[s] => Now(r)' = Now(r)) /\ claims'[s] = claims[s] /\ sending'[s] = sending[s]
    <3>1. \A s \in Senders : \A c \in claims[s] : c.at > 0
      BY SenderFacts
    <3>2. Now(r)' = Now(r) \/ Now(r)'.at = NoTime
      BY <1>4 DEF CalledOff, Now
    <3> QED
      BY <3>1, <3>2 DEF senderVars, NoTime
  <2>2. Live(r)' \subseteq Live(r)
    BY <2>1 DEF Live
  <2>3. ReminderInv(r)
    BY DEF RemindersInv
  <2>4. CASE r \in Targeted
    <3>1. Accounted(r)'
      <4>1. Waiting(r)' = 0 /\ shown'[r] = shown[r] /\ doubts'[r] = doubts[r] /\ doubts[r] \in Nat /\ Waiting(r) \in {0, 1}
        BY <1>4, <2>4, RowFacts DEF CalledOff, Waiting
      <4> QED
        BY <2>2, <2>4, <4>1, StaysAccounted
    <3>2. Agrees(r)'
      BY <1>4, <2>4 DEF CalledOff, Agrees
    <3>3. SentIsShown(r)'
      <4>1. \A s \in Senders : sending[s].phase = "sent" => sending[s].claim \in claims[s]
        BY SenderFacts
      <4> QED
        BY <1>4, <2>1, <2>3, <2>4, <4>1 DEF CalledOff, SentIsShown, ReminderInv
    <3> QED
      BY <1>4, <2>4, <3>1, <3>2, <3>3 DEF CalledOff, ReminderInv
  <2>5. CASE r \notin Targeted
    BY <1>4, <2>3, <2>5 DEF CalledOff, ReminderInv
  <2> QED
    BY <2>4, <2>5
<1> QED
  BY <1>1, <1>2, <1>3, <1>4 DEF RemindersInv

LEMMA CreateStep ==
  ASSUME RemindersInv, NEW at, DOMAIN at \subseteq ReminderIds, \A r \in DOMAIN at : at[r] \in Int, CreateReminders(at)
  PROVE  RemindersInv'
<1>1. /\ \A r \in DOMAIN at : reminders[r].status = "new" /\ at[r] > instant
      /\ reminders' = [r \in ReminderIds |->
           IF r \in DOMAIN at THEN [status |-> "scheduled", at |-> at[r]] ELSE reminders[r]]
      /\ deliveries' = [r \in ReminderIds |->
           IF r \in DOMAIN at \cap Targeted THEN Pending(instant) ELSE deliveries[r]]
      /\ UNCHANGED <<instant, senderVars, listed, ghostVars>>
  BY DEF CreateReminders
<1>2. Pending(instant) \in DeliveryRow /\ Pending(instant).status = "pending"
  BY DEF RemindersInv, RemindersTyped, Pending, NoTime, DeliveryRow
<1>3. \A r \in ReminderIds : r \in DOMAIN at \/ r \notin DOMAIN at
  OBVIOUS
<1>4. ASSUME NEW r \in ReminderIds
      PROVE  /\ reminders'[r] \in ReminderRow /\ deliveries'[r] \in DeliveryRow
             /\ Untouched(r) \/ Scheduled(r)
  <2>1. CASE r \in DOMAIN at
    <3>1. /\ reminders'[r] = [status |-> "scheduled", at |-> at[r]] /\ at[r] \in Int
          /\ deliveries'[r] = (IF r \in Targeted THEN Pending(instant) ELSE deliveries[r])
      BY <1>1, <2>1
    <3>2. shown'[r] = 0
      BY <1>1, <2>1 DEF ghostVars, RemindersInv, ReminderInv
    <3> QED
      BY <1>1, <1>2, <2>1, <3>1, <3>2, RowFacts DEF Scheduled, ReminderRow
  <2>2. CASE r \notin DOMAIN at
    <3>1. reminders'[r] = reminders[r] /\ deliveries'[r] = deliveries[r]
      BY <1>1, <2>2
    <3> QED
      BY <1>1, <3>1, RowFacts DEF Untouched, ghostVars
  <2> QED
    BY <2>1, <2>2
<1>5. reminders' \in [ReminderIds -> ReminderRow] /\ deliveries' \in [ReminderIds -> DeliveryRow]
  BY <1>1, <1>4
<1>6. shown' \in [ReminderIds -> Nat] /\ doubts' \in [ReminderIds -> Nat]
  BY <1>1 DEF RemindersInv, RemindersTyped, ghostVars
<1> QED
  BY <1>1, <1>4, <1>5, <1>6, UsersChange

LEMMA RescheduleStep ==
  ASSUME RemindersInv, NEW r \in ReminderIds, NEW at \in Int, Reschedule(r, at)
  PROVE  RemindersInv'
<1>1. PICK row, doubt : row = [status |-> "scheduled", at |-> at] /\ doubt = (IF InFlight(r) THEN 1 ELSE 0)
  OBVIOUS
<1>2. /\ at > instant
      /\ reminders' = [reminders EXCEPT ![r] = row]
      /\ deliveries' = IF r \in Targeted THEN [deliveries EXCEPT ![r] = Pending(instant)] ELSE deliveries
      /\ shown' = [shown EXCEPT ![r] = 0] /\ doubts' = [doubts EXCEPT ![r] = doubt]
      /\ UNCHANGED <<instant, senderVars, listed>>
  BY <1>1 DEF Reschedule
<1>3. Pending(instant) \in DeliveryRow /\ Pending(instant).status = "pending"
  BY DEF RemindersInv, RemindersTyped, Pending, NoTime, DeliveryRow
<1>4. row \in ReminderRow /\ doubt \in Nat
  BY <1>1 DEF ReminderRow
<1>5. /\ reminders' \in [ReminderIds -> ReminderRow] /\ deliveries' \in [ReminderIds -> DeliveryRow]
      /\ shown' \in [ReminderIds -> Nat] /\ doubts' \in [ReminderIds -> Nat]
  BY <1>2, <1>3, <1>4 DEF RemindersInv, RemindersTyped
<1>6. Scheduled(r)
  BY <1>1, <1>2, <1>3 DEF Scheduled, RemindersInv, RemindersTyped
<1>7. \A o \in ReminderIds : o # r => Untouched(o)
  BY <1>2 DEF Untouched, RemindersInv, RemindersTyped
<1> QED
  BY <1>2, <1>5, <1>6, <1>7, UsersChange

LEMMA CallOffStep ==
  ASSUME RemindersInv, NEW r \in ReminderIds, CancelReminder(r) \/ \E b \in BOOLEAN : RemoveReminder(r, b)
  PROVE  RemindersInv'
<1>1. /\ reminders \in [ReminderIds -> ReminderRow] /\ deliveries \in [ReminderIds -> DeliveryRow]
      /\ reminders[r] \in ReminderRow /\ deliveries[r] \in DeliveryRow /\ instant \in Int
  BY DEF RemindersInv, RemindersTyped
<1>2. PICK row \in ReminderRow, delivery \in DeliveryRow :
        /\ reminders' = [reminders EXCEPT ![r] = row]
        /\ deliveries' = [deliveries EXCEPT ![r] = delivery]
        /\ row.status \in {"cancelled", "removed"} /\ row.at \in {reminders[r].at, NoTime}
        /\ r \in Targeted => delivery.status \in {"failed", "none"}
  <2>1. CASE CancelReminder(r)
    <3>1. PICK row : row = [reminders[r] EXCEPT !.status = "cancelled"]
      OBVIOUS
    <3>2. row \in ReminderRow /\ row.status = "cancelled" /\ row.at = reminders[r].at
      BY <1>1, <3>1 DEF ReminderRow
    <3>3. PICK failed : failed = [deliveries[r] EXCEPT !.status = "failed", !.retryAt = NoTime, !.updated = instant]
      OBVIOUS
    <3>4. failed \in DeliveryRow /\ failed.status = "failed"
      <4>1. PICK never \in Int : never = NoTime
        BY DEF NoTime
      <4>2. failed = [deliveries[r] EXCEPT !.status = "failed", !.retryAt = never, !.updated = instant]
        BY <3>3, <4>1
      <4> QED
        BY <1>1, <4>2 DEF DeliveryRow
    <3>5. reminders' = [reminders EXCEPT ![r] = row]
      BY <1>1, <2>1, <3>1 DEF CancelReminder
    <3>6. CASE r \in Targeted
      BY <2>1, <3>2, <3>3, <3>4, <3>5, <3>6 DEF CancelReminder
    <3>7. CASE r \notin Targeted
      <4>1. deliveries' = [deliveries EXCEPT ![r] = deliveries[r]]
        BY <1>1, <2>1, <3>7 DEF CancelReminder
      <4> QED
        BY <1>1, <3>2, <3>5, <3>7, <4>1
    <3> QED
      BY <3>6, <3>7
  <2>2. CASE \E b \in BOOLEAN : RemoveReminder(r, b)
    <3>1. PICK row : row = [status |-> "removed", at |-> NoTime]
      OBVIOUS
    <3>2. row \in ReminderRow /\ NoDelivery \in DeliveryRow /\ NoDelivery.status = "none"
      BY <3>1 DEF ReminderRow, DeliveryRow, NoDelivery, NoTime
    <3> QED
      BY <2>2, <3>1, <3>2 DEF RemoveReminder
  <2> QED
    BY <2>1, <2>2
<1>3. reminders[r].status = "scheduled" /\ UNCHANGED <<instant, senderVars, listed, ghostVars>>
  BY DEF CancelReminder, RemoveReminder
<1>4. CalledOff(r)
  BY <1>1, <1>2, <1>3 DEF CalledOff, ghostVars
<1>5. \A o \in ReminderIds : o # r => Untouched(o)
  BY <1>1, <1>2, <1>3 DEF Untouched, ghostVars
<1>6. /\ reminders' \in [ReminderIds -> ReminderRow] /\ deliveries' \in [ReminderIds -> DeliveryRow]
      /\ shown' \in [ReminderIds -> Nat] /\ doubts' \in [ReminderIds -> Nat]
  BY <1>1, <1>2, <1>3 DEF RemindersInv, RemindersTyped, ghostVars
<1> QED
  BY <1>3, <1>4, <1>5, <1>6, UsersChange

LEMMA RemindersStep ==
  ASSUME RemindersInv, [RemindersNext]_reminderVars
  PROVE  RemindersInv'
<1>1. instant \in Nat
  BY DEF RemindersInv, RemindersTyped
<1>2. CASE AssistantTaskStep
  <2>1. UNCHANGED <<instant, reminders, deliveries, senderVars, listed, ghostVars>>
    BY <1>2 DEF AssistantTaskStep, CreateTask, CompleteTask, RemoveTask
  <2> QED
    BY <1>1, <2>1, TimeAndTasks
<1>3. CASE UserStep
  <2>1. ASSUME NEW r \in ReminderIds, NEW minutes \in 1 .. DayLength, CreateRelativeReminder(r, minutes)
        PROVE  RemindersInv'
    <3>1. PICK at : at = [x \in {r} |-> instant + minutes]
      OBVIOUS
    <3>2. DOMAIN at \subseteq ReminderIds /\ (\A x \in DOMAIN at : at[x] \in Int) /\ CreateReminders(at)
      BY <1>1, <2>1, <3>1, ReminderAssumption DEF CreateRelativeReminder
    <3> QED
      BY <3>2, CreateStep
  <2>2. ASSUME NEW batch \in SUBSET ReminderIds, NEW hours \in [batch -> 0 .. DayLength - 1], CreateClockReminders(hours)
        PROVE  RemindersInv'
    <3>1. PICK at : at = [r \in DOMAIN hours |-> NextClockTime(hours[r], instant)]
      OBVIOUS
    <3>2. \A r \in batch : NextClockTime(hours[r], instant) \in Int
      <4>1. \A r \in batch : hours[r] \in Int /\ DayLength \in Nat \ {0} /\ instant \div DayLength \in Int
        BY <1>1, ReminderAssumption
      <4> QED
        BY <1>1, <4>1 DEF NextClockTime
    <3>3. DOMAIN at \subseteq ReminderIds /\ (\A x \in DOMAIN at : at[x] \in Int) /\ CreateReminders(at)
      BY <2>2, <3>1, <3>2 DEF CreateClockReminders
    <3> QED
      BY <3>3, CreateStep
  <2> QED
    BY <1>3, <2>1, <2>2, RescheduleStep, CallOffStep DEF UserStep, CancelReminderByTitle
<1>4. CASE DeliveryStep
  BY <1>4, SelectStep, MarkStep, ClaimStep, RevalidateStep, SendStep, CompleteStep, ReadStep, FailStep, DiesStep
     DEF DeliveryStep
<1>5. CASE TimePasses
  <2>1. instant' \in Nat /\ instant <= instant' /\ UNCHANGED <<reminders, deliveries, senderVars, listed, ghostVars>>
    BY <1>1, <1>5 DEF TimePasses, storeVars
  <2> QED
    BY <2>1, TimeAndTasks
<1>6. CASE UNCHANGED reminderVars
  <2>1. instant' \in Nat /\ instant <= instant' /\ UNCHANGED <<reminders, deliveries, senderVars, listed, ghostVars>>
    BY <1>1, <1>6 DEF reminderVars, storeVars
  <2> QED
    BY <2>1, TimeAndTasks
<1> QED
  BY <1>2, <1>3, <1>4, <1>5, <1>6 DEF RemindersNext, ReminderStep

LEMMA RemindersFromInv ==
  ASSUME RemindersInv
  PROVE  RemindersReach
<1>1. ASSUME NEW r \in ReminderIds PROVE shown[r] <= 1 + doubts[r]
  <2>1. shown[r] \in Nat /\ doubts[r] \in Nat
    BY RowFacts
  <2>2. CASE r \in Targeted
    <3>1. PICK S : S = Cardinality(Live(r))
      OBVIOUS
    <3>2. S \in Nat /\ Waiting(r) \in {0, 1} /\ shown[r] + S + Waiting(r) <= 1 + doubts[r]
      BY <2>2, <3>1, LiveFinite, TargetFacts DEF Accounted, Waiting
    <3> QED
      BY <2>1, <3>2
  <2>3. CASE r \notin Targeted
    BY <2>1, <2>3 DEF RemindersInv, ReminderInv
  <2> QED
    BY <2>2, <2>3
<1>2. DeliveriesTrue
  BY TargetFacts DEF DeliveriesTrue, Agrees
<1> QED
  BY <1>1, <1>2 DEF RemindersReach, ShownOnce

TimeOrNone == Nat \cup {NoTime}

\* The tasks, the history, and that what is scheduled has a time.
RemindersTimed ==
  /\ tasks \in [TaskIds -> {"new", "open", "completed", "removed"}]
  /\ moves \in [ReminderIds -> Nat] /\ errors \in Nat
  /\ \A r \in ReminderIds :
       /\ reminders[r].at \in TimeOrNone
       /\ reminders[r].status = "scheduled" => reminders[r].at \in Nat
       /\ deliveries[r].retryAt \in TimeOrNone /\ deliveries[r].updated \in TimeOrNone
  /\ \A s \in Senders : sending[s].phase = "fail" => sending[s].current \in Nat
  /\ \A a \in Announcers : \A c \in listed[a] : c.at \in Nat

LEMMA TimedByUsers ==
  ASSUME RemindersInv, RemindersTimed, UserStep
  PROVE  RemindersTimed'
<1> USE DEF TimeOrNone
<1>1. instant \in Nat /\ 0 \in Nat /\ NoTime = -1
  BY DEF RemindersInv, RemindersTyped, NoTime
<1>2. ASSUME NEW at, DOMAIN at \subseteq ReminderIds, \A x \in DOMAIN at : at[x] \in Int, CreateReminders(at)
      PROVE  RemindersTimed'
  <2>1. ASSUME NEW r \in ReminderIds
        PROVE  /\ reminders'[r].at \in TimeOrNone
               /\ reminders'[r].status = "scheduled" => reminders'[r].at \in Nat
               /\ deliveries'[r].retryAt \in TimeOrNone /\ deliveries'[r].updated \in TimeOrNone
    BY <1>1, <1>2, <2>1 DEF CreateReminders, RemindersTimed, Pending
  <2> QED
    BY <1>2, <2>1 DEF CreateReminders, RemindersTimed, senderVars, ghostVars
<1>3. ASSUME NEW r \in ReminderIds, NEW minutes \in 1 .. DayLength, CreateRelativeReminder(r, minutes)
      PROVE  RemindersTimed'
  <2>1. PICK at : at = [x \in {r} |-> instant + minutes]
    OBVIOUS
  <2>2. DOMAIN at \subseteq ReminderIds /\ (\A x \in DOMAIN at : at[x] \in Int) /\ CreateReminders(at)
    BY <1>1, <1>3, <2>1, ReminderAssumption DEF CreateRelativeReminder
  <2> QED
    BY <1>2, <2>2
<1>4. ASSUME NEW batch \in SUBSET ReminderIds, NEW hours \in [batch -> 0 .. DayLength - 1],
             CreateClockReminders(hours)
      PROVE  RemindersTimed'
  <2>1. PICK at : at = [r \in DOMAIN hours |-> NextClockTime(hours[r], instant)]
    OBVIOUS
  <2>2. \A r \in batch : NextClockTime(hours[r], instant) \in Int
    <3>1. \A r \in batch : hours[r] \in Int /\ DayLength \in Nat \ {0} /\ instant \div DayLength \in Int
      BY <1>1, ReminderAssumption
    <3> QED
      BY <1>1, <3>1 DEF NextClockTime
  <2>3. DOMAIN at \subseteq ReminderIds /\ (\A x \in DOMAIN at : at[x] \in Int) /\ CreateReminders(at)
    BY <1>4, <2>1, <2>2 DEF CreateClockReminders
  <2> QED
    BY <1>2, <2>3
<1>5. ASSUME NEW r \in ReminderIds, NEW at \in 1 .. LastInstant, Reschedule(r, at)
      PROVE  RemindersTimed'
  <2>1. /\ reminders' = [reminders EXCEPT ![r] = [status |-> "scheduled", at |-> at]]
        /\ deliveries' = [deliveries EXCEPT ![r] = Pending(instant)] \/ deliveries' = deliveries
        /\ moves' = [moves EXCEPT ![r] = @ + 1]
        /\ UNCHANGED <<tasks, sending, listed, errors>>
    BY <1>5 DEF Reschedule, senderVars
  <2>2. reminders \in [ReminderIds -> ReminderRow] /\ deliveries \in [ReminderIds -> DeliveryRow]
    BY DEF RemindersInv, RemindersTyped
  <2>3. ASSUME NEW o \in ReminderIds
        PROVE  /\ reminders'[o].at \in TimeOrNone
               /\ reminders'[o].status = "scheduled" => reminders'[o].at \in Nat
               /\ deliveries'[o].retryAt \in TimeOrNone /\ deliveries'[o].updated \in TimeOrNone
    BY <1>1, <2>1, <2>2, <2>3 DEF RemindersTimed, Pending
  <2> QED
    BY <2>1, <2>3 DEF RemindersTimed
<1>6. ASSUME NEW r \in ReminderIds, NEW b \in BOOLEAN, CancelReminder(r) \/ RemoveReminder(r, b)
      PROVE  RemindersTimed'
  <2>1. UNCHANGED <<tasks, sending, listed, moves, errors>>
    BY <1>6 DEF CancelReminder, RemoveReminder, senderVars, ghostVars
  <2>2. reminders \in [ReminderIds -> ReminderRow] /\ deliveries \in [ReminderIds -> DeliveryRow]
    BY DEF RemindersInv, RemindersTyped
  <2>3. ASSUME NEW o \in ReminderIds
        PROVE  /\ reminders'[o].at \in TimeOrNone
               /\ reminders'[o].status = "scheduled" => reminders'[o].at \in Nat
               /\ deliveries'[o].retryAt \in TimeOrNone /\ deliveries'[o].updated \in TimeOrNone
    <3>1. CASE CancelReminder(r)
      BY <1>1, <2>2, <2>3, <3>1 DEF CancelReminder, RemindersTimed, ReminderRow, DeliveryRow
    <3>2. CASE RemoveReminder(r, b)
      BY <1>1, <2>2, <2>3, <3>2 DEF RemoveReminder, RemindersTimed, NoDelivery, NoTime
    <3> QED
      BY <1>6, <3>1, <3>2
  <2> QED
    BY <2>1, <2>3 DEF RemindersTimed
<1> QED
  BY <1>3, <1>4, <1>5, <1>6 DEF UserStep, CancelReminderByTitle

LEMMA TimedByDeliveries ==
  ASSUME RemindersInv, RemindersTimed, DeliveryStep
  PROVE  RemindersTimed'
<1> USE DEF TimeOrNone
<1>1. /\ instant \in Nat /\ NoTime = -1 /\ RetryDelay \in Nat
      /\ reminders \in [ReminderIds -> ReminderRow] /\ deliveries \in [ReminderIds -> DeliveryRow]
      /\ sending \in [Senders -> SendingState] /\ claims \in [Senders -> SUBSET Claim]
      /\ listed \in [Announcers -> SUBSET Claim]
  BY ReminderAssumption DEF RemindersInv, RemindersTyped, NoTime
<1> DEFINE Timed(r) == /\ reminders[r].at \in TimeOrNone
                       /\ reminders[r].status = "scheduled" => reminders[r].at \in Nat
                       /\ deliveries[r].retryAt \in TimeOrNone /\ deliveries[r].updated \in TimeOrNone
<1>2. ASSUME NEW a \in Announcers, SelectDue(a) PROVE RemindersTimed'
  <2>1. \A b \in Announcers : \A c \in listed'[b] : c.at \in Nat
    BY <1>1, <1>2 DEF SelectDue, Owed, RemindersTimed
  <2> QED
    BY <1>2, <2>1 DEF SelectDue, storeVars, senderVars, ghostVars, RemindersTimed
<1>3. ASSUME NEW a \in Announcers, MarkAndAnnounce(a) PROVE RemindersTimed'
  <2>1. \A r \in ReminderIds : Timed(r)'
    BY <1>1, <1>3 DEF MarkAndAnnounce, RemindersTimed, ReminderRow
  <2>2. \A b \in Announcers : \A c \in listed'[b] : c.at \in Nat
    BY <1>1, <1>3 DEF MarkAndAnnounce, RemindersTimed
  <2> QED
    BY <1>3, <2>1, <2>2 DEF MarkAndAnnounce, senderVars, RemindersTimed
<1>4. ASSUME NEW s \in Senders, ClaimDeliveries(s) PROVE RemindersTimed'
  <2>1. \A r \in ReminderIds : Timed(r)'
    BY <1>1, <1>4 DEF ClaimDeliveries, RemindersTimed
  <2> QED
    BY <1>4, <2>1 DEF ClaimDeliveries, RemindersTimed
\* What a sender does with a claim.
<1>5. ASSUME NEW s \in Senders, NEW state, sending' = [sending EXCEPT ![s] = state],
             state.phase = "fail" => state.current \in Nat,
             errors' \in Nat, UNCHANGED <<tasks, moves, listed>>, \A r \in ReminderIds : Timed(r)'
      PROVE  RemindersTimed'
  <2>1. \A o \in Senders : sending'[o].phase = "fail" => sending'[o].current \in Nat
    BY <1>1, <1>5 DEF RemindersTimed
  <2> QED
    BY <1>5, <2>1 DEF RemindersTimed
<1>6. ASSUME NEW s \in Senders, NEW c \in claims[s], Revalidate(s, c) PROVE RemindersTimed'
  <2>1. UNCHANGED <<tasks, reminders, deliveries, listed, moves, errors>>
    BY <1>6 DEF Revalidate, storeVars, ghostVars
  <2>2. \A r \in ReminderIds : Timed(r)'
    BY <2>1 DEF RemindersTimed
  <2>3. CASE UNCHANGED sending
    BY <2>1, <2>2, <2>3 DEF RemindersTimed
  <2>4. CASE sending' = [sending EXCEPT ![s] = [phase |-> "send", claim |-> c]]
    BY <1>5, <2>1, <2>2, <2>4 DEF RemindersTimed
  <2> QED
    BY <1>6, <2>3, <2>4 DEF Revalidate
<1>7. ASSUME NEW s \in Senders, Send(s) PROVE RemindersTimed'
  <2>1. UNCHANGED <<tasks, reminders, deliveries, listed, moves>> /\ errors' \in Nat
    BY <1>7 DEF Send, storeVars, RemindersTimed
  <2>2. \A r \in ReminderIds : Timed(r)'
    BY <2>1 DEF RemindersTimed
  <2>3. PICK p \in {"sent", "error"} : sending' = [sending EXCEPT ![s] = [phase |-> p, claim |-> sending[s].claim]]
    BY <1>7 DEF Send
  <2> QED
    BY <1>5, <2>1, <2>2, <2>3
<1>8. ASSUME NEW s \in Senders, ReadAttempts(s) PROVE RemindersTimed'
  <2>1. UNCHANGED <<tasks, reminders, deliveries, listed, moves, errors>>
    BY <1>8 DEF ReadAttempts, storeVars, ghostVars
  <2>2. \A r \in ReminderIds : Timed(r)'
    BY <2>1 DEF RemindersTimed
  <2>3. CASE sending' = [sending EXCEPT ![s] = Resting]
    BY <1>5, <2>1, <2>2, <2>3 DEF RemindersTimed, Resting
  <2>4. ASSUME NEW last, sending' = [sending EXCEPT ![s] =
                  [phase |-> "fail", claim |-> sending[s].claim, last |-> last, current |-> instant]]
        PROVE  RemindersTimed'
    BY <1>1, <1>5, <2>1, <2>2, <2>4 DEF RemindersTimed
  <2>5. \/ sending' = [sending EXCEPT ![s] = Resting]
        \/ \E last : sending' = [sending EXCEPT ![s] =
                  [phase |-> "fail", claim |-> sending[s].claim, last |-> last, current |-> instant]]
    BY <1>8 DEF ReadAttempts, Settle
  <2> QED
    BY <2>3, <2>4, <2>5
<1>9. ASSUME NEW s \in Senders, CompleteDelivery(s) PROVE RemindersTimed'
  <2>1. UNCHANGED <<tasks, listed, moves, errors>> /\ sending' = [sending EXCEPT ![s] = Resting]
    BY <1>9 DEF CompleteDelivery, Settle
  <2>2. \A r \in ReminderIds : Timed(r)'
    <3>1. \A r \in ReminderIds : reminders'[r].at = reminders[r].at
      BY <1>1, <1>9 DEF CompleteDelivery, ReminderRow
    <3>2. \A r \in ReminderIds : reminders'[r].status = "scheduled" => reminders[r].status = "scheduled"
      BY <1>1, <1>9 DEF CompleteDelivery, ReminderRow
    <3>3. \A r \in ReminderIds : /\ deliveries'[r].retryAt = deliveries[r].retryAt
                                  /\ deliveries'[r].updated \in {deliveries[r].updated, instant}
      <4> DEFINE o   == sending[s].claim.reminder
                 row == [deliveries[o] EXCEPT !.status = "delivered", !.updated = instant]
      <4>1. deliveries' = deliveries \/ deliveries' = [deliveries EXCEPT ![o] = row]
        BY <1>9 DEF CompleteDelivery
      <4>2. o \in ReminderIds => /\ row.retryAt = deliveries[o].retryAt
                                 /\ row.updated = instant
        BY <1>1 DEF DeliveryRow
      <4> HIDE DEF o, row
      <4> QED
        BY <1>1, <4>1, <4>2
    <3> QED
      BY <1>1, <3>1, <3>2, <3>3 DEF RemindersTimed
  <2> QED
    BY <1>5, <2>1, <2>2 DEF Resting, RemindersTimed
<1>10. ASSUME NEW s \in Senders, FailDelivery(s) PROVE RemindersTimed'
  <2>1. /\ UNCHANGED <<tasks, reminders, listed, moves, errors>>
        /\ sending' = [sending EXCEPT ![s] = Resting]
    BY <1>10 DEF FailDelivery, Settle
  <2>2. sending[s].current \in Nat
    BY <1>10 DEF FailDelivery, RemindersTimed
  <2>3. \A r \in ReminderIds : deliveries'[r].retryAt \in TimeOrNone /\ deliveries'[r].updated \in TimeOrNone
    <3> DEFINE o       == sending[s].claim.reminder
               retryAt == IF sending[s].last THEN NoTime ELSE sending[s].current + RetryDelay
               row     == [deliveries[o] EXCEPT !.status = IF sending[s].last THEN "failed" ELSE "retrying",
                                                !.retryAt = retryAt, !.updated = sending[s].current]
    <3>1. deliveries' = deliveries \/ deliveries' = [deliveries EXCEPT ![o] = row]
      BY <1>10 DEF FailDelivery
    <3>2. o \in ReminderIds => row.retryAt = retryAt /\ row.updated = sending[s].current
      BY <1>1 DEF DeliveryRow
    <3>3. retryAt \in TimeOrNone
      BY <1>1, <2>2
    <3> HIDE DEF o, retryAt, row
    <3> QED
      BY <1>1, <2>2, <3>1, <3>2, <3>3 DEF RemindersTimed
  <2> QED
    BY <1>5, <2>1, <2>3 DEF Resting, RemindersTimed
<1>11. ASSUME NEW s \in Senders, SenderDies(s) PROVE RemindersTimed'
  <2>1. /\ UNCHANGED <<tasks, reminders, deliveries, listed, moves>> /\ errors' \in Nat
        /\ sending' = [sending EXCEPT ![s] = Resting]
    BY <1>11 DEF SenderDies, storeVars, ghostVars, RemindersTimed
  <2> QED
    BY <1>5, <2>1 DEF Resting, RemindersTimed
<1> QED
  BY <1>2, <1>3, <1>4, <1>6, <1>7, <1>8, <1>9, <1>10, <1>11 DEF DeliveryStep

LEMMA TimedStep ==
  ASSUME RemindersInv, RemindersTimed, [RemindersNext]_reminderVars
  PROVE  RemindersTimed'
<1>1. CASE AssistantTaskStep
  <2>1. tasks' \in [TaskIds -> {"new", "open", "completed", "removed"}]
    BY <1>1 DEF AssistantTaskStep, CreateTask, CompleteTask, RemoveTask, RemindersTimed
  <2>2. UNCHANGED <<reminders, deliveries, sending, listed, moves, errors>>
    BY <1>1 DEF AssistantTaskStep, CreateTask, CompleteTask, RemoveTask, senderVars, ghostVars
  <2> QED
    BY <2>1, <2>2 DEF RemindersTimed
<1>2. CASE TimePasses \/ UNCHANGED reminderVars
  BY <1>2 DEF TimePasses, reminderVars, storeVars, senderVars, ghostVars, RemindersTimed
<1> QED
  BY <1>1, <1>2, TimedByUsers, TimedByDeliveries DEF RemindersNext, ReminderStep

LEMMA TimedTypes == RemindersInv /\ RemindersTimed => RemindersTypeOK
<1> SUFFICES ASSUME RemindersInv, RemindersTimed PROVE RemindersTypeOK
  OBVIOUS
<1> USE DEF TimeOrNone
<1>1. \A r \in ReminderIds : reminders[r] \in [status : {"new", "scheduled", "delivered", "cancelled", "removed"}, at : TimeOrNone]
  BY DEF RemindersInv, RemindersTyped, RemindersTimed, ReminderRow
<1>2. \A r \in ReminderIds : deliveries[r] \in
       [status : {"none", "pending", "sending", "retrying", "failed", "delivered"},
        count : Nat, retryAt : TimeOrNone, updated : TimeOrNone]
  BY DEF RemindersInv, RemindersTyped, RemindersTimed, DeliveryRow
<1>3. \A s \in Senders : claims[s] \subseteq ClaimType
  BY DEF RemindersInv, RemindersTyped, ClaimsTrue, Claim, ClaimType
<1>4. \A a \in Announcers : listed[a] \subseteq ClaimType
  BY DEF RemindersInv, RemindersTyped, RemindersTimed, Claim, ClaimType
<1>5. \A s \in Senders : sending[s] = Resting \/ sending[s].claim \in claims[s]
  BY DEF RemindersInv, RemindersTyped, ClaimsTrue, SendingState
<1> QED
  BY <1>1, <1>2, <1>3, <1>4, <1>5 DEF RemindersInv, RemindersTyped, RemindersTimed, RemindersTypeOK

(* A reminder is shown once for the time it is scheduled for, but for the  *)
(* claims that went stale or were settled by another's report, and what is *)
(* recorded as delivered was shown, for any number of reminders, senders,  *)
(* announcers, moves and errors.                                           *)
THEOREM RemindersArrive == RemindersSpec => [](RemindersTypeOK /\ RemindersReach)
<1>1. RemindersInit => RemindersInv /\ RemindersTimed
  BY RemindersStart DEF RemindersInit, RemindersTimed, TimeOrNone, NoReminder, NoDelivery, NoTime, Resting
<1>2. RemindersInv /\ RemindersTimed /\ [RemindersNext]_reminderVars => (RemindersInv /\ RemindersTimed)'
  BY RemindersStep, TimedStep
<1>3. RemindersInv /\ RemindersTimed => RemindersTypeOK /\ RemindersReach
  BY RemindersFromInv, TimedTypes
<1> QED
  BY <1>1, <1>2, <1>3, PTL DEF RemindersSpec

-----------------------------------------------------------------------------
(* A conversation and its summary.                                         *)

Row == [id : Nat, role : {"user", "assistant", "call", "tool"}, size : Nat, shown : Nat, call : Nat]

\* Each observation stands after the call it answers.
Answering(rows) ==
  \A k \in DOMAIN rows : rows[k].role = "tool" =>
    \E j \in 1 .. k - 1 : rows[j].role = "call" /\ rows[j].id = rows[k].call

\* The live rows are the last ones that were written, and the summary has the
\* first of them.
ConversationInv ==
  /\ messages \in Seq(Row) /\ lastId \in 0 .. MaxMessages /\ clears \in 0 .. MaxClears
  /\ turn \in {"idle", "compacting", "running"}
  /\ summary \in [text : Seq(Nat), cursor : 0 .. lastId] /\ Len(summary.text) <= SummarySize
  /\ Len(messages) <= lastId /\ \A k \in DOMAIN messages : messages[k].id = lastId - Len(messages) + k
  /\ Answering(messages)
  /\ SummaryIsPrefix

\* The cursor cuts the rows in two.
LEMMA PassedCuts ==
  ASSUME NEW m \in Seq(Row), NEW d \in Nat, \A k \in DOMAIN m : m[k].id = d + k, NEW c \in Nat
  PROVE  /\ Cardinality({k \in DOMAIN m : m[k].id <= c}) \in 0 .. Len(m)
         /\ \A k \in DOMAIN m : m[k].id <= c <=> k <= Cardinality({i \in DOMAIN m : m[i].id <= c})
<1>1. DOMAIN m = 1 .. Len(m) /\ Len(m) \in Nat
  BY LenProperties
<1>2. PICK n \in 0 .. Len(m) : \A k \in DOMAIN m : m[k].id <= c <=> k <= n
  <2>1. CASE c < d
    <3>1. 0 \in 0 .. Len(m) /\ \A k \in DOMAIN m : m[k].id <= c <=> k <= 0
      BY <1>1, <2>1
    <3> QED
      BY <1>1, <3>1
  <2>2. CASE c >= d /\ c - d <= Len(m)
    <3>1. c - d \in 0 .. Len(m) /\ \A k \in DOMAIN m : m[k].id <= c <=> k <= c - d
      BY <1>1, <2>2
    <3> QED
      BY <3>1
  <2>3. CASE c >= d /\ c - d > Len(m)
    <3>1. Len(m) \in 0 .. Len(m) /\ \A k \in DOMAIN m : m[k].id <= c <=> k <= Len(m)
      BY <1>1, <2>3
    <3> QED
      BY <1>1, <3>1
  <2>4. c < d \/ (c >= d /\ c - d <= Len(m)) \/ (c >= d /\ c - d > Len(m))
    BY <1>1
  <2> QED
    BY ONLY <2>1, <2>2, <2>3, <2>4
<1>3. {k \in DOMAIN m : m[k].id <= c} = 1 .. n
  BY <1>1, <1>2
<1>4. Cardinality(1 .. n) = n
  BY <1>1, FS_Interval
<1> QED
  BY <1>2, <1>3, <1>4

LEMMA CutIsPassed ==
  ASSUME NEW m \in Seq(Row), NEW c \in Nat, NEW n \in 0 .. Len(m), \A k \in DOMAIN m : m[k].id <= c <=> k <= n
  PROVE  Cardinality({k \in DOMAIN m : m[k].id <= c}) = n
<1>1. DOMAIN m = 1 .. Len(m) /\ Len(m) \in Nat
  BY LenProperties
<1>2. {k \in DOMAIN m : m[k].id <= c} = 1 .. n
  BY <1>1
<1>3. n \in Nat /\ Cardinality(1 .. n) = n
  BY <1>1, FS_Interval
<1> QED
  BY <1>2, <1>3

\* The ids of the first rows, and of the rows between two places.
LEMMA IdsBetween ==
  ASSUME NEW m \in Seq(Row), NEW a \in Nat, NEW b \in Nat, a <= b, b <= Len(m)
  PROVE  /\ SubSeq(m, a + 1, b) \in Seq(Row) /\ Len(SubSeq(m, a + 1, b)) = b - a
         /\ \A i \in 1 .. b - a : SubSeq(m, a + 1, b)[i] = m[a + i]
         /\ Ids(SubSeq(m, a + 1, b)) \in Seq(Nat) /\ Len(Ids(SubSeq(m, a + 1, b))) = b - a
         /\ \A i \in 1 .. b - a : Ids(SubSeq(m, a + 1, b))[i] = m[a + i].id
<1>1. Len(m) \in Nat /\ \A i \in 1 .. Len(m) : m[i] \in Row
  BY LenProperties
<1>2. \A i \in a + 1 .. b : m[i] \in Row
  BY <1>1
<1>3. PICK s : s = SubSeq(m, a + 1, b)
  OBVIOUS
<1>4. s \in Seq(Row) /\ Len(s) = (IF a + 1 <= b THEN b - (a + 1) + 1 ELSE 0)
      /\ \A i \in 1 .. b - (a + 1) + 1 : s[i] = m[(a + 1) + i - 1]
  BY <1>2, <1>3, SubSeqProperties
<1>5. Len(s) = b - a /\ \A i \in 1 .. b - a : s[i] = m[a + i]
  BY <1>4
<1>6. DOMAIN s = 1 .. b - a
  BY <1>4, <1>5, LenProperties
<1>7. PICK t : t = Ids(s)
  OBVIOUS
<1>8. t = [k \in 1 .. b - a |-> s[k].id]
  BY <1>6, <1>7 DEF Ids
<1>9. b - a \in Nat /\ \A k \in 1 .. b - a : s[k].id \in Nat /\ t[k] = m[a + k].id
  <2>1. \A k \in 1 .. b - a : m[a + k] \in Row
    BY <1>1
  <2>2. \A k \in 1 .. b - a : s[k] = m[a + k] /\ t[k] = s[k].id
    BY <1>5, <1>8
  <2>3. \A k \in 1 .. b - a : m[a + k].id \in Nat
    BY <2>1 DEF Row
  <2> QED
    BY <2>2, <2>3
<1>10. t \in Seq(Nat) /\ Len(t) = b - a
  <2>1. \A k \in 1 .. b - a : t[k] \in Nat
    <3>1. \A k \in 1 .. b - a : s[k].id \in Nat /\ t[k] = s[k].id
      BY <1>8, <1>9
    <3> QED
      BY <3>1
  <2>2. PICK c \in Nat : c = b - a
    BY <1>9
  <2>3. t \in [1 .. c -> Nat]
    BY <1>8, <2>1, <2>2
  <2>4. t \in Seq(Nat) /\ Len(t) = c
    BY ONLY <2>3
  <2> QED
    BY <2>2, <2>4
<1> QED
  BY <1>3, <1>4, <1>5, <1>7, <1>9, <1>10

LEMMA FirstIds ==
  ASSUME NEW m \in Seq(Row), NEW n \in 0 .. Len(m)
  PROVE  Ids(SubSeq(m, 1, n)) = [k \in 1 .. n |-> m[k].id]
<1>1. Len(m) \in Nat /\ n \in Nat
  BY LenProperties
<1>2. PICK t : t = Ids(SubSeq(m, 0 + 1, n))
  OBVIOUS
<1>3. t \in Seq(Nat) /\ Len(t) = n /\ \A i \in 1 .. n : t[i] = m[i].id
  BY <1>1, <1>2, IdsBetween
<1>4. t = [k \in 1 .. n |-> m[k].id]
  BY <1>3, LenProperties
<1> QED
  BY <1>2, <1>4

\* What the rows from one place on take is a number, and less from a later one.
LEMMA CostsShrink ==
  ASSUME messages \in Seq(Row), NEW measure, \A i \in 1 .. Len(messages) : messages[i][measure] \in Nat,
         NEW k \in Nat \ {0}, NEW j \in Nat, k <= j
  PROVE  Cost(k, measure) \in Nat /\ Cost(j, measure) \in Nat /\ Cost(j, measure) <= Cost(k, measure)
<1> DEFINE units(i) == {i} \X (1 .. messages[i][measure])
           all(a) == {units(i) : i \in a .. Len(messages)}
<1>1. Len(messages) \in Nat
  BY LenProperties
<1>2. \A T \in all(k) : IsFiniteSet(T)
  <2> SUFFICES ASSUME NEW i \in k .. Len(messages)
               PROVE  IsFiniteSet(units(i))
    OBVIOUS
  <2>1. messages[i][measure] \in Nat
    BY <1>1
  <2>2. IsFiniteSet({i}) /\ IsFiniteSet(1 .. messages[i][measure])
    <3>1. PICK b \in Int : b = messages[i][measure]
      BY <2>1
    <3>2. IsFiniteSet(1 .. b)
      BY FS_Interval
    <3> QED
      BY <3>1, <3>2, FS_Singleton, Zenon
  <2> QED
    BY <2>2, FS_Product
<1>3. IsFiniteSet(all(k))
  <2>1. IsFiniteSet(k .. Len(messages))
    BY <1>1, FS_Interval
  <2>2. PICK f : f = [i \in k .. Len(messages) |-> units(i)]
    OBVIOUS
  <2>3. f \in Surjection(k .. Len(messages), all(k))
    BY <2>2 DEF Surjection
  <2> QED
    BY <2>1, <2>3, FS_Surjection
<1>4. IsFiniteSet(UNION all(k))
  BY <1>2, <1>3, FS_UNION
<1>5. UNION all(j) \in SUBSET (UNION all(k))
  <2>1. j .. Len(messages) \subseteq k .. Len(messages)
    BY <1>1
  <2> QED
    BY <2>1
<1>6. /\ Cardinality(UNION all(k)) \in Nat /\ Cardinality(UNION all(j)) \in Nat
      /\ Cardinality(UNION all(j)) <= Cardinality(UNION all(k))
  BY <1>4, <1>5, FS_Subset, FS_CardinalityType
<1>7. Cost(k, measure) = Cardinality(UNION all(k)) /\ Cost(j, measure) = Cardinality(UNION all(j))
  BY DEF Cost
<1> QED
  BY <1>6, <1>7

\* The cut is at a row or after the last: from it on the rows fit, and from no
\* row before it.
LEMMA CutFits ==
  ASSUME messages \in Seq(Row), NEW measure, \A i \in 1 .. Len(messages) : messages[i][measure] \in Nat,
         NEW from \in 1 .. Len(messages) + 1
  PROVE  /\ Fitting(from, measure) \in from .. Len(messages) + 1
         /\ Cost(Fitting(from, measure), measure) <= HistoryChars
         /\ \A k \in from .. Fitting(from, measure) - 1 : Cost(k, measure) > HistoryChars
<1>1. Len(messages) \in Nat /\ HistoryChars \in Nat
  BY LenProperties, ConversationAssumption
<1>2. \A k \in from .. Len(messages) + 1 : Cost(k, measure) \in Nat
  BY <1>1, CostsShrink
<1>3. PICK fits : fits = {k \in from .. Len(messages) + 1 : Cost(k, measure) <= HistoryChars}
  OBVIOUS
<1>4. Len(messages) + 1 \in fits
  <2>1. (Len(messages) + 1) .. Len(messages) = {}
    BY <1>1
  <2>2. UNION {{i} \X (1 .. messages[i][measure]) : i \in (Len(messages) + 1) .. Len(messages)} = {}
    BY <2>1
  <2>3. Cost(Len(messages) + 1, measure) = 0
    BY <2>2, FS_EmptySet DEF Cost
  <2> QED
    BY <1>1, <1>3, <2>3
<1>5. PICK k \in fits : \A j \in fits : k <= j
  <2>1. fits \subseteq Nat /\ fits # {}
    BY <1>1, <1>3, <1>4
  <2> QED
    BY <2>1, LeastNumber
<1>6. \A j \in from .. k - 1 : Cost(j, measure) > HistoryChars
  <2> SUFFICES ASSUME NEW j \in from .. k - 1
               PROVE  Cost(j, measure) > HistoryChars
    OBVIOUS
  <2>1. j \in from .. Len(messages) + 1 /\ ~(k <= j)
    BY <1>1, <1>3, <1>5
  <2>2. Cost(j, measure) \in Nat /\ j \notin fits
    BY <1>2, <1>5, <2>1
  <2> QED
    BY <1>1, <1>3, <2>1, <2>2
<1>7. \E i \in from .. Len(messages) + 1 :
        Cost(i, measure) <= HistoryChars /\ \A j \in from .. i - 1 : Cost(j, measure) > HistoryChars
  BY <1>3, <1>5, <1>6
<1> QED
  BY <1>7 DEF Fitting

\* Both measures are numbers.
LEMMA RowsMeasured ==
  ASSUME messages \in Seq(Row), NEW i \in 1 .. Len(messages)
  PROVE  messages[i]["size"] \in Nat /\ messages[i]["shown"] \in Nat
<1>1. messages[i] \in Row
  BY LenProperties
<1> QED
  BY <1>1 DEF Row

\* The history begins at a row, or after the last.
LEMMA KeptIsRow ==
  ASSUME messages \in Seq(Row)
  PROVE  /\ Kept \in 1 .. Len(messages) + 1
         /\ Fitting(Kept, "shown") \in Kept .. Len(messages) + 1
         /\ \A k \in Kept .. Fitting(Kept, "shown") - 1 : HeldBack(k)
<1>1. Len(messages) \in Nat /\ KeepRecent \in Nat /\ HistoryChars \in Nat
  BY LenProperties, ConversationAssumption
<1>2. PICK s, t : s = "size" /\ t = "shown"
  OBVIOUS
<1>3. \A i \in 1 .. Len(messages) : messages[i][s] \in Nat /\ messages[i][t] \in Nat
  BY <1>2, RowsMeasured
<1> SUFFICES /\ Fitting(LastRows, s) \in 1 .. Len(messages) + 1
             /\ Fitting(Fitting(LastRows, s), t) \in Fitting(LastRows, s) .. Len(messages) + 1
             /\ \A k \in Fitting(LastRows, s) .. Fitting(Fitting(LastRows, s), t) - 1 :
                  Cost(k, s) <= HistoryChars /\ Cost(k, t) > HistoryChars
  BY <1>2 DEF Kept, HeldBack
<1>4. LastRows \in 1 .. Len(messages) + 1
  BY <1>1 DEF LastRows
<1>5. PICK w : w = Fitting(LastRows, s)
  OBVIOUS
<1>6. w \in LastRows .. Len(messages) + 1 /\ Cost(w, s) <= HistoryChars
  BY <1>3, <1>4, <1>5, CutFits
<1>7. w \in 1 .. Len(messages) + 1
  BY <1>1, <1>4, <1>6
<1>8. PICK v : v = Fitting(w, t)
  OBVIOUS
<1>9. v \in w .. Len(messages) + 1 /\ \A k \in w .. v - 1 : Cost(k, t) > HistoryChars
  BY <1>3, <1>7, <1>8, CutFits
<1>10. \A k \in w .. v - 1 : Cost(k, s) <= HistoryChars
  <2> SUFFICES ASSUME NEW k \in w .. v - 1
               PROVE  Cost(k, s) <= HistoryChars
    OBVIOUS
  <2>1. w \in Nat \ {0} /\ k \in Nat /\ w <= k
    BY <1>1, <1>7, <1>9
  <2>2. Cost(w, s) \in Nat /\ Cost(k, s) \in Nat /\ Cost(k, s) <= Cost(w, s)
    BY <1>3, <2>1, CostsShrink
  <2> QED
    BY <1>1, <1>6, <2>2
<1> QED
  BY <1>5, <1>7, <1>8, <1>9, <1>10

LEMMA ConversationFacts ==
  ASSUME ConversationInv
  PROVE  /\ messages \in Seq(Row) /\ Len(messages) \in Nat /\ DOMAIN messages = 1 .. Len(messages)
         /\ \A k \in DOMAIN messages : messages[k] \in Row
         /\ lastId \in Nat /\ MaxMessages \in Nat /\ MaxClears \in Nat /\ SummarySize \in Nat /\ FoldLimit \in Nat \ {0}
         /\ summary.cursor \in 0 .. lastId /\ summary.text \in Seq(Nat)
         /\ Passed \in 0 .. Len(messages)
         /\ \A k \in DOMAIN messages : messages[k].id <= summary.cursor <=> k <= Passed
         /\ folded = [k \in 1 .. Passed |-> messages[k].id]
         /\ Kept \in 1 .. Len(messages) + 1
<1>1. messages \in Seq(Row) /\ lastId \in Nat /\ MaxMessages \in Nat /\ MaxClears \in Nat /\ SummarySize \in Nat
      /\ FoldLimit \in Nat \ {0}
  BY ConversationAssumption DEF ConversationInv
<1>2. Len(messages) \in Nat /\ DOMAIN messages = 1 .. Len(messages) /\ \A k \in DOMAIN messages : messages[k] \in Row
  BY <1>1, LenProperties
<1>3. summary.cursor \in 0 .. lastId /\ summary.text \in Seq(Nat)
  BY DEF ConversationInv
<1>4. PICK d \in Nat : \A k \in DOMAIN messages : messages[k].id = d + k
  <2>1. lastId - Len(messages) \in Nat
    BY <1>1, <1>2 DEF ConversationInv
  <2> QED
    BY <2>1 DEF ConversationInv
<1>5. summary.cursor \in Nat
  BY <1>1, <1>3
<1>6. Passed \in 0 .. Len(messages) /\ \A k \in DOMAIN messages : messages[k].id <= summary.cursor <=> k <= Passed
  BY <1>1, <1>4, <1>5, PassedCuts DEF Passed
<1>7. folded = [k \in 1 .. Passed |-> messages[k].id]
  BY <1>1, <1>6, FirstIds DEF ConversationInv, SummaryIsPrefix
<1> QED
  BY <1>1, <1>2, <1>3, <1>6, <1>7, KeptIsRow

\* A summary of the first n rows.
LEMMA PrefixKept ==
  ASSUME messages' \in Seq(Row), NEW n \in 0 .. Len(messages'), summary'.cursor \in Nat,
         \A k \in DOMAIN messages' : messages'[k].id <= summary'.cursor <=> k <= n,
         folded' = [k \in 1 .. n |-> messages'[k].id]
  PROVE  SummaryIsPrefix'
<1>1. PICK m \in Seq(Row) : m = messages'
  OBVIOUS
<1>2. PICK c \in Nat : c = summary'.cursor
  OBVIOUS
<1>3. Passed' = n
  BY <1>1, <1>2, CutIsPassed DEF Passed
<1>4. Ids(SubSeq(messages', 1, n)) = [k \in 1 .. n |-> messages'[k].id]
  BY FirstIds
<1> QED
  BY <1>3, <1>4 DEF SummaryIsPrefix, Ids

\* Nothing of the table and the summary changes.
LEMMA TalkStays ==
  ASSUME ConversationInv, UNCHANGED <<messages, lastId, summary, folded>>, clears' \in 0 .. MaxClears,
         turn' \in {"idle", "compacting", "running"}
  PROVE  ConversationInv'
<1>1. SummaryIsPrefix'
  BY DEF ConversationInv, SummaryIsPrefix, Passed
<1> QED
  BY <1>1 DEF ConversationInv, Answering

\* Rows are appended, in one transaction.
LEMMA BatchStep ==
  ASSUME ConversationInv, NEW rows \in Seq(Row), AddBatch(rows), UNCHANGED <<summary, folded, clears>>,
         turn' \in {"idle", "compacting", "running"},
         \A k \in DOMAIN rows : rows[k].id = lastId + k, Answering(rows)
  PROVE  ConversationInv'
<1>1. PICK m \in Seq(Row) : m = messages \o rows
  BY ConversationFacts, ConcatProperties
<1>2. messages' = m /\ lastId' = lastId + Len(rows) /\ lastId + Len(rows) <= MaxMessages
  BY <1>1 DEF AddBatch
<1>3. PICK n : n = Len(messages)
  OBVIOUS
<1>4. /\ n \in Nat /\ Len(rows) \in Nat /\ Len(m) = n + Len(rows) /\ DOMAIN m = 1 .. n + Len(rows)
      /\ DOMAIN messages = 1 .. n /\ DOMAIN rows = 1 .. Len(rows)
      /\ \A k \in 1 .. n : m[k] = messages[k]
      /\ \A k \in n + 1 .. n + Len(rows) : m[k] = rows[k - n]
  <2>1. n \in Nat /\ Len(rows) \in Nat /\ DOMAIN messages = 1 .. n /\ DOMAIN rows = 1 .. Len(rows) /\ messages \in Seq(Row)
    BY <1>3, ConversationFacts, LenProperties
  <2>2. /\ Len(m) = n + Len(rows)
        /\ \A i \in 1 .. n + Len(rows) : m[i] = IF i <= n THEN messages[i] ELSE rows[i - n]
    BY <1>1, <1>3, <2>1, ConcatProperties
  <2>3. DOMAIN m = 1 .. Len(m)
    BY LenProperties
  <2> QED
    BY <2>1, <2>2, <2>3
<1>5. /\ lastId \in Nat /\ MaxMessages \in Nat /\ summary.cursor \in 0 .. lastId /\ n <= lastId
      /\ \A k \in 1 .. n : messages[k].id = lastId - n + k
  BY <1>3, <1>4, ConversationFacts DEF ConversationInv
<1>6. lastId' \in 0 .. MaxMessages /\ Len(m) <= lastId' /\ summary.cursor \in 0 .. lastId'
  BY <1>2, <1>4, <1>5
<1>7. \A k \in DOMAIN m : m[k].id = lastId - n + k
  <2> SUFFICES ASSUME NEW k \in 1 .. n + Len(rows)
               PROVE  m[k].id = lastId - n + k
    BY <1>4
  <2>1. CASE k \in 1 .. n
    BY <1>4, <1>5, <2>1
  <2>2. CASE k \in n + 1 .. n + Len(rows)
    <3>1. k - n \in DOMAIN rows /\ m[k] = rows[k - n]
      BY <1>4, <2>2
    <3>2. rows[k - n].id = lastId + (k - n)
      BY <3>1
    <3> QED
      BY <1>4, <1>5, <2>2, <3>1, <3>2
  <2> QED
    BY <1>4, <2>1, <2>2
<1>10. lastId' - Len(m) = lastId - n
  BY <1>2, <1>4, <1>5
<1>8. Answering(m)
  <2> SUFFICES ASSUME NEW k \in DOMAIN m, m[k].role = "tool"
               PROVE  \E j \in 1 .. k - 1 : m[j].role = "call" /\ m[j].id = m[k].call
    BY DEF Answering
  <2>1. CASE k \in 1 .. n
    <3>1. PICK j \in 1 .. k - 1 : messages[j].role = "call" /\ messages[j].id = messages[k].call
      BY <1>4, <2>1 DEF ConversationInv, Answering
    <3>2. j \in 1 .. n
      BY <1>4, <2>1
    <3> QED
      BY <1>4, <2>1, <3>1, <3>2
  <2>2. CASE k \in n + 1 .. n + Len(rows)
    <3>1. k - n \in DOMAIN rows /\ m[k] = rows[k - n]
      BY <1>4, <2>2
    <3>2. PICK j \in 1 .. (k - n) - 1 : rows[j].role = "call" /\ rows[j].id = rows[k - n].call
      BY <3>1 DEF Answering
    <3>3. n + j \in 1 .. k - 1 /\ n + j \in n + 1 .. n + Len(rows) /\ (n + j) - n = j
      BY <1>4, <2>2
    <3>4. m[n + j] = rows[j]
      BY <1>4, <3>3
    <3> QED
      BY <3>1, <3>2, <3>3, <3>4
  <2> QED
    BY <1>4, <2>1, <2>2
<1>9. SummaryIsPrefix'
  <2>1. Passed \in 0 .. n /\ Passed \in 0 .. Len(m) /\ \A k \in 1 .. n : messages[k].id <= summary.cursor <=> k <= Passed
    <3>1. Passed \in 0 .. n /\ \A k \in 1 .. n : messages[k].id <= summary.cursor <=> k <= Passed
      BY <1>3, <1>4, ConversationFacts
    <3>2. Passed \in 0 .. Len(m)
      BY <1>4, <3>1
    <3> QED
      BY <3>1, <3>2
  <2>2. \A k \in DOMAIN m : m[k].id <= summary.cursor <=> k <= Passed
    <3> SUFFICES ASSUME NEW k \in DOMAIN m
                 PROVE  m[k].id <= summary.cursor <=> k <= Passed
      OBVIOUS
    <3>1. CASE k \in 1 .. n
      BY <1>4, <2>1, <3>1
    <3>2. CASE k \in n + 1 .. n + Len(rows)
      <4>1. m[k].id = lastId - n + k
        BY <1>7
      <4>2. m[k].id > lastId
        BY <1>4, <1>5, <3>2, <4>1
      <4> QED
        BY <1>4, <1>5, <2>1, <3>2, <4>1, <4>2
    <3> QED
      BY <1>4, <3>1, <3>2
  <2>3. folded' = [k \in 1 .. Passed |-> m[k].id]
    <3>1. folded = [k \in 1 .. Passed |-> messages[k].id]
      BY ConversationFacts
    <3>2. \A k \in 1 .. Passed : m[k].id = messages[k].id
      BY <1>4, <2>1
    <3> QED
      BY <3>1, <3>2
  <2>4. summary'.cursor \in Nat /\ summary'.cursor = summary.cursor
    BY <1>5
  <2> QED
    BY <1>2, <2>1, <2>2, <2>3, <2>4, PrefixKept
<1> QED
  BY <1>2, <1>6, <1>7, <1>8, <1>9, <1>10 DEF ConversationInv

\* One row with no call in it.
LEMMA OneRow ==
  ASSUME ConversationInv, NEW role \in {"user", "assistant"}, NEW size \in Nat
  PROVE  /\ <<Plain(role, size)>> \in Seq(Row)
         /\ \A k \in DOMAIN <<Plain(role, size)>> : <<Plain(role, size)>>[k].id = lastId + k
         /\ Answering(<<Plain(role, size)>>)
<1>1. PICK row : row = Plain(role, size)
  OBVIOUS
<1>2. row \in Row /\ row.id = lastId + 1 /\ row.role # "tool"
  BY <1>1, ConversationFacts DEF Plain, Message, Row
<1>3. <<row>> \in Seq(Row) /\ DOMAIN <<row>> = {1} /\ <<row>>[1] = row
  BY <1>2
<1> QED
  BY <1>1, <1>2, <1>3 DEF Answering

\* A call and its observations.
LEMMA ExchangeIsWhole ==
  ASSUME ConversationInv, NEW n \in Nat, NEW size \in Nat, NEW calls \in Nat, NEW ids \in Nat
  PROVE  /\ ExchangeRows(n, size, calls, ids) \in Seq(Row)
         /\ \A k \in DOMAIN ExchangeRows(n, size, calls, ids) : ExchangeRows(n, size, calls, ids)[k].id = lastId + k
         /\ Answering(ExchangeRows(n, size, calls, ids))
<1>1. PICK first : first = Message(lastId + 1, "call", 1, 1 + calls, 0)
  OBVIOUS
<1>2. PICK rest : rest = [k \in 1 .. n |-> Message(lastId + 1 + k, "tool", size, size + ids, lastId + 1)]
  OBVIOUS
<1>3. lastId \in Nat
  BY ConversationFacts
<1>4. first \in Row /\ first.id = lastId + 1 /\ first.role = "call"
  BY <1>1, <1>3 DEF Message, Row
<1>5. \A k \in 1 .. n : rest[k] \in Row /\ rest[k].id = lastId + 1 + k /\ rest[k].call = lastId + 1
  BY <1>2, <1>3 DEF Message, Row
<1>6. <<first>> \in Seq(Row) /\ Len(<<first>>) = 1 /\ <<first>>[1] = first
  BY <1>4
<1>7. rest \in Seq(Row) /\ Len(rest) = n
  BY <1>2, <1>5
<1>8. PICK rows \in Seq(Row) : rows = <<first>> \o rest
  BY <1>6, <1>7, ConcatProperties
<1>9. Len(rows) = 1 + n /\ \A i \in 1 .. 1 + n : rows[i] = IF i <= 1 THEN <<first>>[i] ELSE rest[i - 1]
  BY <1>6, <1>7, <1>8, ConcatProperties
<1>10. DOMAIN rows = 1 .. 1 + n
  BY <1>9, LenProperties
<1>11. rows[1] = first /\ \A i \in 2 .. 1 + n : i - 1 \in 1 .. n /\ rows[i] = rest[i - 1]
  BY <1>6, <1>9
<1>12. \A k \in DOMAIN rows : rows[k].id = lastId + k
  <2> SUFFICES ASSUME NEW k \in 1 .. 1 + n
               PROVE  rows[k].id = lastId + k
    BY <1>10
  <2>1. CASE k = 1
    BY <1>4, <1>11, <2>1
  <2>2. CASE k \in 2 .. 1 + n
    BY <1>3, <1>5, <1>11, <2>2
  <2> QED
    BY <2>1, <2>2
<1>13. Answering(rows)
  <2> SUFFICES ASSUME NEW k \in 1 .. 1 + n, rows[k].role = "tool"
               PROVE  \E j \in 1 .. k - 1 : rows[j].role = "call" /\ rows[j].id = rows[k].call
    BY <1>10 DEF Answering
  <2>1. k # 1
    BY <1>4, <1>11
  <2>2. k \in 2 .. 1 + n /\ 1 \in 1 .. k - 1
    BY <2>1
  <2> QED
    BY <1>4, <1>5, <1>11, <2>2
<1>14. rows = ExchangeRows(n, size, calls, ids)
  BY <1>1, <1>2, <1>8 DEF ExchangeRows
<1> QED
  BY <1>8, <1>12, <1>13, <1>14

\* A batch is folded into the summary, and the cursor goes with it.
LEMMA CompactStep ==
  ASSUME ConversationInv, Compact
  PROVE  ConversationInv'
<1>1. /\ turn = "compacting" /\ Foldable # <<>> /\ UNCHANGED <<messages, lastId, turn, clears>>
      /\ summary' = [text |-> Shortened(summary.text \o Ids(Batch)), cursor |-> CursorAfter(Batch)]
      /\ folded' = folded \o Ids(Batch)
  BY DEF Compact
<1>2. PICK n, p : n = Len(messages) /\ p = Passed
  OBVIOUS
<1>3. PICK b : b = IF Kept - 1 < p + FoldLimit THEN Kept - 1 ELSE p + FoldLimit
  OBVIOUS
<1>4. /\ n \in Nat /\ p \in 0 .. n /\ messages \in Seq(Row) /\ DOMAIN messages = 1 .. n /\ Kept \in 1 .. n + 1
      /\ FoldLimit \in Nat \ {0} /\ lastId \in Nat /\ n <= lastId /\ SummarySize \in Nat
      /\ \A k \in 1 .. n : messages[k] \in Row /\ messages[k].id = lastId - n + k
      /\ folded = [k \in 1 .. p |-> messages[k].id] /\ summary.text \in Seq(Nat)
  BY <1>2, ConversationFacts DEF ConversationInv
<1>5. p + 1 <= Kept - 1
  <2>1. SUFFICES ASSUME Kept - 1 < p + 1
                 PROVE  FALSE
    BY <1>4
  <2>2. p + 1 \in Int /\ Kept - 1 \in Int
    BY <1>4
  <2>3. SubSeq(messages, p + 1, Kept - 1) = <<>>
    BY <2>1, <2>2, SubSeqEmpty
  <2> QED
    BY <1>1, <1>2, <2>3 DEF Foldable
<1>6. b \in Nat /\ p + 1 <= b /\ b <= n
  BY <1>3, <1>4, <1>5
<1>7. p \in Nat /\ p <= b /\ b <= Len(messages)
  BY <1>2, <1>4, <1>6
<1>8. PICK batch \in Seq(Row) : batch = SubSeq(messages, p + 1, b)
  BY <1>4, <1>6, <1>7, IdsBetween
<1>9. PICK ids \in Seq(Nat) : ids = Ids(batch)
  BY <1>4, <1>6, <1>7, <1>8, IdsBetween
<1>10. /\ Len(batch) = b - p /\ \A i \in 1 .. b - p : batch[i] = messages[p + i]
       /\ Len(ids) = b - p /\ \A i \in 1 .. b - p : ids[i] = messages[p + i].id
  <2>1. b \in Nat /\ p \in Nat /\ messages \in Seq(Row) /\ p <= b /\ b <= Len(messages)
    BY <1>4, <1>6, <1>7
  <2>2. Len(batch) = b - p /\ \A i \in 1 .. b - p : batch[i] = messages[p + i]
    BY <1>8, <2>1, IdsBetween
  <2>3. ids = Ids(SubSeq(messages, p + 1, b))
    BY <1>8, <1>9
  <2>4. Len(ids) = b - p /\ \A i \in 1 .. b - p : ids[i] = messages[p + i].id
    BY <2>1, <2>3, IdsBetween
  <2> QED
    BY <2>2, <2>4
<1>11. Batch = batch
  BY <1>2, <1>3, <1>8 DEF Batch
<1>12. CursorAfter(batch) = lastId - n + b
  <2>1. b - p \in 1 .. b - p /\ p + (b - p) = b /\ b \in 1 .. n
    BY <1>4, <1>6
  <2>2. batch[b - p] = messages[b]
    BY <1>10, <2>1
  <2> QED
    BY <1>4, <1>10, <2>1, <2>2 DEF CursorAfter
<1>13. summary'.cursor \in 0 .. lastId /\ summary'.cursor = lastId - n + b
  BY <1>1, <1>4, <1>6, <1>11, <1>12
<1>14. Shortened(summary.text \o ids) \in Seq(Nat) /\ Len(Shortened(summary.text \o ids)) <= SummarySize
  <2>1. PICK text \in Seq(Nat) : text = summary.text \o ids
    BY <1>4, ConcatProperties
  <2>2. Len(text) \in Nat /\ \A i \in 1 .. Len(text) : text[i] \in Nat
    BY LenProperties
  <2>3. CASE Len(text) > SummarySize
    <3>1. Len(text) + 1 - SummarySize \in Int /\ \A i \in (Len(text) + 1 - SummarySize) .. Len(text) : text[i] \in Nat
      BY <1>4, <2>2, <2>3
    <3>2. PICK short : short = SubSeq(text, Len(text) + 1 - SummarySize, Len(text))
      OBVIOUS
    <3>3. short \in Seq(Nat) /\ Len(short) = IF Len(text) + 1 - SummarySize <= Len(text)
                                             THEN Len(text) - (Len(text) + 1 - SummarySize) + 1 ELSE 0
      BY <2>2, <3>1, <3>2, SubSeqProperties
    <3>4. Len(short) <= SummarySize
      BY <1>4, <2>2, <3>3
    <3> QED
      BY <2>1, <2>3, <3>2, <3>3, <3>4 DEF Shortened
  <2>4. CASE ~(Len(text) > SummarySize)
    <3>1. Len(text) <= SummarySize
      BY <1>4, <2>2, <2>4
    <3> QED
      BY <2>1, <2>4, <3>1 DEF Shortened
  <2> QED
    BY <2>3, <2>4
<1>15. summary' \in [text : Seq(Nat), cursor : 0 .. lastId] /\ Len(summary'.text) <= SummarySize
  <2>1. summary'.text = Shortened(summary.text \o ids)
    BY <1>1, <1>9, <1>11
  <2>2. summary' = [text |-> summary'.text, cursor |-> summary'.cursor]
    BY <1>1
  <2> QED
    BY <1>13, <1>14, <2>1, <2>2
<1>16. SummaryIsPrefix'
  <2>1. b \in 0 .. Len(messages') /\ messages' \in Seq(Row)
    BY <1>1, <1>4, <1>6, <1>7
  <2>2. \A k \in DOMAIN messages' : messages'[k].id <= summary'.cursor <=> k <= b
    <3>1. \A k \in 1 .. n : lastId - n + k <= lastId - n + b <=> k <= b
      BY <1>4, <1>6
    <3> QED
      BY <1>1, <1>4, <1>13, <3>1
  <2>3. folded' = [k \in 1 .. b |-> messages'[k].id]
    <3>1. folded \in Seq(Nat) /\ Len(folded) = p
      <4>1. p \in Nat /\ \A k \in 1 .. p : k \in 1 .. n
        BY <1>4
      <4>2. \A k \in 1 .. p : messages[k] \in Row
        BY <1>4, <4>1
      <4>3. \A k \in 1 .. p : messages[k].id \in Nat
        BY <4>2 DEF Row
      <4>4. folded \in [1 .. p -> Nat]
        BY <1>4, <4>3
      <4> QED
        BY <4>1, <4>4
    <3>2. PICK all \in Seq(Nat) : all = folded \o ids
      BY <3>1, ConcatProperties
    <3>3. Len(all) = p + (b - p) /\ \A i \in 1 .. p + (b - p) : all[i] = IF i <= p THEN folded[i] ELSE ids[i - p]
      <4>1. Len(all) = Len(folded) + Len(ids) /\ \A i \in 1 .. Len(folded) + Len(ids) :
                all[i] = IF i <= Len(folded) THEN folded[i] ELSE ids[i - Len(folded)]
        BY <3>1, <3>2, ConcatProperties
      <4> QED
        BY <1>10, <3>1, <4>1
    <3>4. Len(all) = b /\ \A i \in 1 .. b : all[i] = messages[i].id
      <4>1. Len(all) = b
        BY <1>4, <1>6, <3>3
      <4>2. \A i \in 1 .. p : all[i] = messages[i].id
        BY <1>4, <1>6, <3>3
      <4>3. \A i \in p + 1 .. b : all[i] = messages[i].id
        <5> SUFFICES ASSUME NEW i \in p + 1 .. b
                     PROVE  all[i] = messages[i].id
          OBVIOUS
        <5>1. i - p \in 1 .. b - p /\ p + (i - p) = i /\ i \in 1 .. p + (b - p) /\ ~(i <= p)
          BY <1>4, <1>6
        <5>2. all[i] = ids[i - p]
          BY <3>3, <5>1
        <5>3. ids[i - p] = messages[p + (i - p)].id
          BY <1>10, <5>1
        <5> QED
          BY <5>1, <5>2, <5>3
      <4> QED
        BY <1>4, <1>6, <4>1, <4>2, <4>3
    <3>5. all = [k \in 1 .. b |-> messages[k].id]
      BY <3>4, LenProperties
    <3> QED
      BY <1>1, <1>9, <1>11, <3>2, <3>5
  <2>4. summary'.cursor \in Nat
    BY <1>4, <1>13
  <2> QED
    BY <2>1, <2>2, <2>3, <2>4, PrefixKept
<1> QED
  BY <1>1, <1>15, <1>16 DEF ConversationInv, Answering

\* What a prompt is built of, when nothing is left to fold.
LEMMA PromptIsWhole ==
  ASSUME ConversationInv, NEW size \in 1 .. HistoryChars + 1, StartTurn(size)
  PROVE  PromptCoversAll
<1> DEFINE missing(k) == HeldBack(k) \/ messages[k].id <= summary.cursor
<1>1. turn = "compacting" /\ Foldable = <<>> /\ prompt' = Coherent(Recent)
  BY DEF StartTurn
<1>2. PICK n, p, w, v : n = Len(messages) /\ p = Passed /\ w = Kept /\ v = Fitting(Kept, "shown")
  OBVIOUS
<1>3. /\ n \in Nat /\ p \in 0 .. n /\ messages \in Seq(Row) /\ DOMAIN messages = 1 .. n /\ w \in 1 .. n + 1
      /\ \A k \in 1 .. n : messages[k] \in Row /\ messages[k].id = lastId - n + k
      /\ \A k \in 1 .. n : messages[k].id <= summary.cursor <=> k <= p
      /\ lastId \in Nat /\ n <= lastId
      /\ v \in w .. n + 1 /\ \A k \in w .. v - 1 : HeldBack(k)
  BY <1>2, ConversationFacts, KeptIsRow DEF ConversationInv
<1>4. w - 1 <= p
  <2>1. SUFFICES ASSUME p + 1 <= w - 1
                 PROVE  FALSE
    BY <1>3
  <2>2. /\ p + 1 \in Int /\ w - 1 \in Int /\ \A i \in p + 1 .. w - 1 : messages[i] \in Row
    BY <1>3
  <2>3. Len(SubSeq(messages, p + 1, w - 1)) = (w - 1) - (p + 1) + 1
    BY <2>1, <2>2, SubSeqProperties
  <2>4. Len(SubSeq(messages, p + 1, w - 1)) # 0
    BY <1>3, <2>1, <2>3
  <2> QED
    BY <1>1, <1>2, <2>4, EmptySeq DEF Foldable
<1>5. PICK rows : rows = {messages[k] : k \in v .. n}
  OBVIOUS
<1>6. prompt' = {row \in rows : row.role = "tool" => \E other \in rows : other.id = row.call}
  <2>1. PICK recent : recent = SubSeq(messages, v, n)
    OBVIOUS
  <2>2. /\ v \in Int /\ n \in Int /\ \A i \in v .. n : messages[i] \in Row
    BY <1>3
  <2>3. /\ recent \in Seq(Row) /\ Len(recent) = (IF v <= n THEN n - v + 1 ELSE 0)
        /\ \A i \in 1 .. n - v + 1 : recent[i] = messages[v + i - 1]
    BY <2>1, <2>2, SubSeqProperties
  <2>4. n - v + 1 \in Nat /\ Len(recent) = n - v + 1
    BY <1>3, <2>3
  <2>5. DOMAIN recent = 1 .. n - v + 1
    BY <2>3, <2>4, LenProperties
  <2>6. {recent[i] : i \in DOMAIN recent} = rows
    <3>1. \A i \in DOMAIN recent : recent[i] \in rows
      <4> SUFFICES ASSUME NEW i \in 1 .. n - v + 1
                   PROVE  recent[i] \in rows
        BY <2>5
      <4>1. v + i - 1 \in v .. n /\ recent[i] = messages[v + i - 1]
        BY <1>3, <2>3
      <4> QED
        BY <1>5, <4>1
    <3>2. \A k \in v .. n : messages[k] \in {recent[i] : i \in DOMAIN recent}
      <4> SUFFICES ASSUME NEW k \in v .. n
                   PROVE  messages[k] \in {recent[i] : i \in DOMAIN recent}
        OBVIOUS
      <4>1. k - v + 1 \in 1 .. n - v + 1 /\ v + (k - v + 1) - 1 = k
        BY <1>3
      <4>2. recent[k - v + 1] = messages[k]
        BY <2>3, <4>1
      <4> QED
        BY <2>5, <4>1, <4>2
    <3> QED
      BY <1>5, <3>1, <3>2
  <2>7. recent = Recent
    BY <1>2, <2>1 DEF Recent
  <2> QED
    BY <1>1, <2>6, <2>7 DEF Coherent
<1>7. ASSUME NEW k \in 1 .. n, messages[k].role = "tool"
      PROVE  \E j \in 1 .. k - 1 : /\ j \in 1 .. n /\ messages[j].role = "call" /\ messages[j].id = messages[k].call
                                   /\ messages[j].id < messages[k].id
  <2>1. PICK j \in 1 .. k - 1 : messages[j].role = "call" /\ messages[j].id = messages[k].call
    BY <1>3, <1>7 DEF ConversationInv, Answering
  <2>2. j \in 1 .. n
    BY <1>3
  <2>3. messages[j].id < messages[k].id
    <3>1. messages[j].id = lastId - n + j /\ messages[k].id = lastId - n + k
      BY <1>3, <2>2
    <3> QED
      BY <1>3, <3>1
  <2> QED
    BY <2>1, <2>2, <2>3
<1>8. \A k \in 1 .. n :
         \/ missing(k)
         \/ messages[k].id \in {row.id : row \in prompt'}
         \/ messages[k].role = "tool" /\ \E j \in 1 .. k - 1 : messages[j].id = messages[k].call /\ missing(j)
  <2>1. ASSUME NEW k \in 1 .. n, k \notin v .. n
        PROVE  missing(k)
    <3>1. k <= p \/ k \in w .. v - 1
      BY <1>3, <1>4, <2>1
    <3> QED
      BY <1>3, <3>1
  <2> SUFFICES ASSUME NEW k \in v .. n
               PROVE  \/ messages[k].id \in {row.id : row \in prompt'}
                      \/ /\ messages[k].role = "tool"
                         /\ \E j \in 1 .. k - 1 : messages[j].id = messages[k].call /\ missing(j)
    BY <2>1
  <2>2. messages[k] \in rows /\ k \in 1 .. n
    BY <1>3, <1>5
  <2>3. CASE messages[k].role # "tool"
    <3>1. messages[k] \in prompt'
      BY <1>6, <2>2, <2>3
    <3> QED
      BY <3>1
  <2>4. CASE messages[k].role = "tool"
    <3>1. PICK j \in 1 .. k - 1 : j \in 1 .. n /\ messages[j].id = messages[k].call
      BY <1>7, <2>2, <2>4
    <3>2. CASE j \in v .. n
      <4>1. messages[j] \in rows
        BY <1>5, <3>2
      <4>2. messages[k] \in prompt'
        BY <1>6, <2>2, <3>1, <4>1
      <4> QED
        BY <4>2
    <3>3. CASE j \notin v .. n
      BY <2>1, <2>4, <3>1, <3>3
    <3> QED
      BY <3>2, <3>3
  <2> QED
    BY <2>3, <2>4
<1>9. \A row \in prompt' : row.role = "tool" => \E other \in prompt' : other.id = row.call /\ other.id < row.id
  <2> SUFFICES ASSUME NEW row \in prompt', row.role = "tool"
               PROVE  \E other \in prompt' : other.id = row.call /\ other.id < row.id
    OBVIOUS
  <2>1. row \in rows
    BY <1>6
  <2>2. PICK other \in rows : other.id = row.call
    BY <1>6
  <2>3. PICK k \in v .. n : row = messages[k]
    BY <1>5, <2>1
  <2>4. PICK i \in v .. n : other = messages[i]
    BY <1>5, <2>2
  <2>5. k \in 1 .. n /\ i \in 1 .. n
    BY <1>3
  <2>6. PICK j \in 1 .. k - 1 : /\ j \in 1 .. n /\ messages[j].role = "call" /\ messages[j].id = messages[k].call
                                /\ messages[j].id < messages[k].id
    BY <1>7, <2>3, <2>5
  <2>7. i = j
    <3>1. lastId - n + i = lastId - n + j
      BY <1>3, <2>2, <2>3, <2>4, <2>5, <2>6
    <3> QED
      BY <1>3, <2>5, <3>1
  <2>8. other \in prompt'
    BY <1>6, <2>4, <2>6, <2>7
  <2> QED
    BY <2>2, <2>3, <2>4, <2>6, <2>7, <2>8
<1> QED
  BY <1>3, <1>8, <1>9 DEF PromptCoversAll

LEMMA ConversationStarts ==
  ASSUME ConversationInit
  PROVE  ConversationInv
<1>1. <<>> \in Seq(Row) /\ <<>> \in Seq(Nat) /\ Len(<<>>) = 0
  OBVIOUS
<1>2. SummaryIsPrefix
  <2>1. Passed = 0
    <3>1. {k \in DOMAIN messages : messages[k].id <= summary.cursor} = {}
      BY DEF ConversationInit
    <3> QED
      BY <3>1, FS_EmptySet DEF Passed
  <2>2. SubSeq(messages, 1, 0) = <<>>
    BY SubSeqEmpty
  <2>3. Ids(<<>>) = <<>>
    BY DEF Ids
  <2>4. messages = <<>> /\ folded = <<>> /\ DOMAIN messages = {}
    BY DEF ConversationInit
  <2>5. Ids(SubSeq(messages, 1, Passed)) = <<>>
    BY <2>1, <2>2, <2>3
  <2> QED
    BY <2>4, <2>5 DEF SummaryIsPrefix
<1>3. 0 \in 0 .. MaxMessages /\ 0 \in 0 .. MaxClears /\ 0 <= SummarySize
  BY ConversationAssumption
<1> QED
  BY <1>1, <1>2, <1>3 DEF ConversationInit, ConversationInv, Answering, NoSummary

LEMMA ClearStep ==
  ASSUME ConversationInv, ClearConversation
  PROVE  ConversationInv'
<1>1. /\ messages' = <<>> /\ summary' = NoSummary /\ folded' = <<>> /\ UNCHANGED <<lastId, turn, prompt>>
      /\ clears < MaxClears /\ clears' = clears + 1
  BY DEF ClearConversation, Bounded
<1>2. <<>> \in Seq(Row) /\ <<>> \in Seq(Nat) /\ Len(<<>>) = 0 /\ DOMAIN <<>> = 1 .. 0
  OBVIOUS
<1>3. lastId \in Nat /\ clears \in 0 .. MaxClears /\ MaxClears \in Nat /\ SummarySize \in Nat
  BY ConversationFacts DEF ConversationInv
<1>4. SummaryIsPrefix'
  <2>1. 0 \in 0 .. Len(messages') /\ messages' \in Seq(Row) /\ summary'.cursor \in Nat
    BY <1>1, <1>2 DEF NoSummary
  <2>2. \A k \in DOMAIN messages' : messages'[k].id <= summary'.cursor <=> k <= 0
    BY <1>1, <1>2
  <2>3. folded' = [k \in 1 .. 0 |-> messages'[k].id]
    BY <1>1
  <2> QED
    BY <2>1, <2>2, <2>3, PrefixKept
<1>5. clears' \in 0 .. MaxClears /\ 0 \in 0 .. lastId /\ 0 <= SummarySize /\ 0 <= lastId
  BY <1>1, <1>3
<1> QED
  BY <1>1, <1>2, <1>4, <1>5 DEF ConversationInv, Answering, NoSummary

LEMMA ConversationStep ==
  ASSUME ConversationInv, [ConversationNext]_conversationVars
  PROVE  ConversationInv' /\ (ConversationNext => PromptCoversAll)
<1>1. CASE BeginPrompt
  <2>1. UNCHANGED <<messages, lastId, summary, folded>> /\ clears' = clears /\ turn' = "compacting"
    BY <1>1 DEF BeginPrompt
  <2>2. clears' \in 0 .. MaxClears
    BY <2>1 DEF ConversationInv
  <2> QED
    BY <2>1, <2>2, TalkStays DEF PromptCoversAll
<1>2. CASE Compact
  <2>1. turn' = turn
    BY <1>2 DEF Compact
  <2>2. turn = "compacting"
    BY <1>2 DEF Compact
  <2> QED
    BY <1>2, <2>1, <2>2, CompactStep DEF PromptCoversAll
<1>3. ASSUME NEW size \in 1 .. HistoryChars + 1, StartTurn(size)
      PROVE  ConversationInv' /\ PromptCoversAll
  <2>1. /\ AddBatch(<<Plain("user", size)>>) /\ turn' = "running"
        /\ UNCHANGED <<summary, folded, clears>>
    BY <1>3 DEF StartTurn
  <2>2. size \in Nat
    BY ConversationAssumption
  <2>3. ConversationInv'
    BY <2>1, <2>2, OneRow, BatchStep
  <2> QED
    BY <1>3, <2>3, PromptIsWhole
<1>4. ASSUME NEW n \in 1 .. 2, NEW size \in 1 .. 2, NEW calls \in 0 .. 1, NEW ids \in 0 .. 1,
             AppendExchange(n, size, calls, ids)
      PROVE  ConversationInv' /\ PromptCoversAll
  <2>1. AddBatch(ExchangeRows(n, size, calls, ids)) /\ turn = "running" /\ UNCHANGED <<summary, folded, turn, clears>>
    BY <1>4 DEF AppendExchange
  <2>2. n \in Nat /\ size \in Nat /\ calls \in Nat /\ ids \in Nat
    OBVIOUS
  <2>3. ConversationInv'
    BY <2>1, <2>2, ExchangeIsWhole, BatchStep
  <2> QED
    BY <2>1, <2>3 DEF PromptCoversAll
<1>5. ASSUME NEW answered \in BOOLEAN, EndTurn(answered)
      PROVE  ConversationInv' /\ PromptCoversAll
  <2>1. turn = "running" /\ turn' = "idle" /\ UNCHANGED <<summary, folded, clears>>
    BY <1>5 DEF EndTurn
  <2>2. CASE answered
    <3>1. AddBatch(<<Plain("assistant", 1)>>) /\ 1 \in Nat
      BY <1>5, <2>2 DEF EndTurn
    <3>2. ConversationInv'
      BY <2>1, <3>1, OneRow, BatchStep
    <3> QED
      BY <2>1, <3>2 DEF PromptCoversAll
  <2>3. CASE ~answered
    <3>1. UNCHANGED <<messages, lastId>>
      BY <1>5, <2>3 DEF EndTurn
    <3>2. clears' \in 0 .. MaxClears
      BY <2>1 DEF ConversationInv
    <3> QED
      BY <2>1, <3>1, <3>2, TalkStays DEF PromptCoversAll
  <2> QED
    BY <2>2, <2>3
<1>6. CASE ClearConversation
  <2>1. turn' = turn
    BY <1>6 DEF ClearConversation
  <2> QED
    BY <1>6, <2>1, ClearStep DEF PromptCoversAll
<1>7. CASE StopProcess
  <2>1. UNCHANGED <<messages, lastId, summary, folded>> /\ clears < MaxClears /\ clears' = clears + 1 /\ turn' = "idle"
    BY <1>7 DEF StopProcess, Bounded
  <2>2. clears' \in 0 .. MaxClears
    BY <2>1, ConversationFacts DEF ConversationInv
  <2> QED
    BY <2>1, <2>2, TalkStays DEF PromptCoversAll
<1>8. CASE UNCHANGED conversationVars
  <2>1. UNCHANGED <<messages, lastId, summary, folded, turn, clears>>
    BY <1>8 DEF conversationVars
  <2>2. clears' \in 0 .. MaxClears /\ turn' \in {"idle", "compacting", "running"}
    BY <2>1 DEF ConversationInv
  <2>3. ConversationInv'
    BY <2>1, <2>2, TalkStays
  <2>4. PromptCoversAll
    BY <2>1 DEF PromptCoversAll
  <2> QED
    BY <2>3, <2>4
<1> QED
  BY <1>1, <1>2, <1>3, <1>4, <1>5, <1>6, <1>7, <1>8 DEF ConversationNext

\* The summary has been given exactly the messages its cursor has passed, in
\* order, and a prompt is built of the others, but for the messages that fit
\* its budget as they are stored and not with their escapes, and for
\* observations without their call, whatever batches, stops and clears come
\* between.
THEOREM ConversationsAreWhole == ConversationSpec => []ConversationTypeOK /\ NothingForgotten
<1>1. ConversationInit => ConversationInv
  BY ConversationStarts
<1>2. ConversationInv /\ [ConversationNext]_conversationVars => ConversationInv'
  BY ConversationStep
<1>3. ConversationInv => ConversationTypeOK
  <2> SUFFICES ASSUME ConversationInv
               PROVE  ConversationTypeOK
    OBVIOUS
  <2>1. \A k \in DOMAIN messages : messages[k].id \in 1 .. lastId
    <3> SUFFICES ASSUME NEW k \in 1 .. Len(messages)
                 PROVE  messages[k].id \in 1 .. lastId
      BY ConversationFacts
    <3>1. messages[k].id = lastId - Len(messages) + k /\ Len(messages) <= lastId
      BY ConversationFacts DEF ConversationInv
    <3> QED
      BY <3>1, ConversationFacts
  <2>2. summary.cursor \in 0 .. lastId
    BY ConversationFacts
  <2> QED
    BY <2>1, <2>2 DEF ConversationInv, ConversationTypeOK
<1>4. ConversationInv /\ [ConversationNext]_conversationVars => [SummaryIsPrefix' /\ PromptCoversAll]_conversationVars
  <2> SUFFICES ASSUME ConversationInv, ConversationNext
               PROVE  SummaryIsPrefix' /\ PromptCoversAll
    BY DEF ConversationNext
  <2>1. ConversationInv' /\ PromptCoversAll
    BY ConversationStep
  <2> QED
    BY <2>1 DEF ConversationInv
<1> QED
  BY <1>1, <1>2, <1>3, <1>4, PTL DEF ConversationSpec, NothingForgotten

-----------------------------------------------------------------------------
(* The turns of a voice session.                                           *)

VoiceRun == [session : VoiceSessions, origin : Turns, status : SettledStatus \cup {"running"}]
Utterance == {"user", "assistant"} \X Nat

\* The type of the state, with the conversations about runs that began.
VoiceShape ==
  /\ phase \in {"idle", "listening", "transcribing", "thinking", "speaking", "closed"}
  /\ stopping \in BOOLEAN /\ approval \in BOOLEAN /\ runFinished \in BOOLEAN
  /\ session \in VoiceSessions
  /\ runs \in Seq(VoiceRun) /\ Len(runs) <= MaxTurns
  /\ busyElsewhere \subseteq VoiceSessions
  /\ runId \in 0..MaxTurns /\ prior \in 0..MaxTurns /\ clarification \in 0..MaxTurns
  /\ conversation \in [VoiceSessions -> Seq(Utterance)]
  /\ \A s \in VoiceSessions : \A i \in DOMAIN conversation[s] : conversation[s][i][2] \in DOMAIN runs
  /\ display \in SettledStatus \cup {"idle", "listening", "transcribing",
        "thinking", "waiting_approval", "speaking", "no_speech", "blocked"}
  /\ selected \in Seq(VoiceSkills) /\ stored \in [VoiceSessions -> Seq(VoiceSkills)]
  /\ registered \subseteq VoiceSkills
  /\ switches \in 0..MaxSwitches

\* Where a turn and its run stand: a run is begun with the phase that thinks
\* and settled with the step out of it.
TurnHasRun ==
  /\ phase \in {"thinking", "speaking"} =>
       /\ runId = Len(runs) /\ runId # Nothing /\ runs[runId].session = session
  /\ phase \notin {"thinking", "speaking"} => runId = Nothing /\ ~runFinished /\ prior = Nothing
  /\ phase = "thinking" =>
       /\ ~runFinished /\ runs[runId].status = "running" /\ clarification = Nothing
       /\ prior = Nothing => runs[runId].origin = runId
       /\ prior # Nothing => runs[runId].origin = prior
       /\ conversation[session] # <<>>
       /\ conversation[session][Len(conversation[session])] = <<"user", runId>>
  /\ phase = "speaking" => runFinished
  /\ \A r \in DOMAIN runs : runs[r].status = "running" => phase = "thinking" /\ r = runId

VoiceInv == VoiceShape /\ TurnHasRun /\ ConversationTells /\ QuestionIsOpen

\* What conversation c tells of run r.
Tells(c, r, status) ==
  /\ \E q \in 1..Len(c) :
        /\ {i \in DOMAIN c : c[i] = <<"user", r>>} = {q}
        /\ \A a \in {i \in DOMAIN c : c[i] = <<"assistant", r>>} : a = q + 1
  /\ {i \in DOMAIN c : c[i] = <<"assistant", r>>} # {} <=> status \in ANSWERED

LEMMA TellsOfRuns ==
  /\ ConversationTells <=> \A r \in DOMAIN runs : Tells(conversation[runs[r].session], r, runs[r].status)
  /\ ConversationTells' <=> \A r \in DOMAIN runs' : Tells(conversation'[runs'[r].session], r, runs'[r].status)
  BY DEF ConversationTells, Spoke, Tells

\* Which outcome has no answer makes no difference to it.
LEMMA TellsAlike ==
  ASSUME NEW c, NEW r, NEW status, NEW other, status \in ANSWERED <=> other \in ANSWERED, Tells(c, r, status)
  PROVE  Tells(c, r, other)
  BY DEF Tells

\* What is said of one run changes nothing about another.
LEMMA OthersTold ==
  ASSUME NEW c \in Seq(Utterance), NEW r \in Nat, NEW k \in Nat, k # r, NEW role \in {"user", "assistant"},
         NEW status, Tells(c, r, status)
  PROVE  Tells(Append(c, <<role, k>>), r, status)
<1>1. PICK d \in Seq(Utterance) : d = Append(c, <<role, k>>)
  BY AppendProperties DEF Utterance
<1>2. /\ Len(d) = Len(c) + 1 /\ Len(c) \in Nat /\ DOMAIN c = 1..Len(c) /\ DOMAIN d = 1..Len(d)
      /\ d[Len(c) + 1] = <<role, k>> /\ \A i \in 1..Len(c) : d[i] = c[i]
  BY <1>1, AppendProperties, LenProperties DEF Utterance
<1>3. \A w \in {"user", "assistant"} : d[Len(c) + 1] # <<w, r>>
  BY <1>2
<1>4. \A w \in {"user", "assistant"} : {i \in DOMAIN d : d[i] = <<w, r>>} = {i \in DOMAIN c : c[i] = <<w, r>>}
  <2> SUFFICES ASSUME NEW w \in {"user", "assistant"}, NEW i
               PROVE  i \in DOMAIN d /\ d[i] = <<w, r>> <=> i \in DOMAIN c /\ c[i] = <<w, r>>
    OBVIOUS
  <2>1. CASE i \in 1..Len(c)
    BY <1>2, <2>1
  <2>2. CASE i = Len(c) + 1
    BY <1>2, <1>3, <2>2
  <2>3. CASE i \notin 1..(Len(c) + 1)
    BY <1>2, <2>3
  <2> QED
    BY <1>2, <2>1, <2>2, <2>3
<1>5. 1..Len(c) \subseteq 1..Len(d)
  BY <1>2
<1>6. Tells(d, r, status)
  BY <1>4, <1>5 DEF Tells
<1> QED
  BY <1>1, <1>6

\* The user's words begin a run.
LEMMA AskedTold ==
  ASSUME NEW c \in Seq(Utterance), NEW r \in Nat, \A i \in DOMAIN c : c[i][2] # r
  PROVE  Tells(Append(c, <<"user", r>>), r, "running")
<1>1. PICK d \in Seq(Utterance) : d = Append(c, <<"user", r>>)
  BY AppendProperties DEF Utterance
<1>2. /\ Len(d) = Len(c) + 1 /\ Len(c) \in Nat /\ DOMAIN c = 1..Len(c) /\ DOMAIN d = 1..Len(d)
      /\ d[Len(c) + 1] = <<"user", r>> /\ \A i \in 1..Len(c) : d[i] = c[i]
  BY <1>1, AppendProperties, LenProperties DEF Utterance
<1>3. \A i \in 1..Len(c) : d[i] # <<"user", r>> /\ d[i] # <<"assistant", r>>
  BY <1>2
<1>4. {i \in DOMAIN d : d[i] = <<"user", r>>} = {Len(c) + 1} /\ {i \in DOMAIN d : d[i] = <<"assistant", r>>} = {}
  <2>1. <<"user", r>> # <<"assistant", r>>
    OBVIOUS
  <2> QED
    BY <1>2, <1>3, <2>1
<1>5. "running" \notin ANSWERED /\ Len(c) + 1 \in 1..Len(d)
  BY <1>2 DEF ANSWERED
<1>6. Tells(d, r, "running")
  BY <1>4, <1>5 DEF Tells
<1> QED
  BY <1>1, <1>6

\* The answer follows the words it answers.
LEMMA AnswerTold ==
  ASSUME NEW c \in Seq(Utterance), NEW r \in Nat, c # <<>>, c[Len(c)] = <<"user", r>>,
         Tells(c, r, "running"), NEW status \in ANSWERED
  PROVE  Tells(Append(c, <<"assistant", r>>), r, status)
<1>1. PICK d \in Seq(Utterance) : d = Append(c, <<"assistant", r>>)
  BY AppendProperties DEF Utterance
<1>2. /\ Len(d) = Len(c) + 1 /\ Len(c) \in Nat /\ DOMAIN c = 1..Len(c) /\ DOMAIN d = 1..Len(d)
      /\ d[Len(c) + 1] = <<"assistant", r>> /\ \A i \in 1..Len(c) : d[i] = c[i]
  BY <1>1, AppendProperties, LenProperties DEF Utterance
<1>3. Len(c) # 0
  BY EmptySeq
<1>4. "running" \notin ANSWERED
  BY DEF ANSWERED
<1>5. PICK q \in 1..Len(c) : {i \in DOMAIN c : c[i] = <<"user", r>>} = {q}
  BY DEF Tells
<1>6. Len(c) \in DOMAIN c
  BY <1>2, <1>3
<1>7. q = Len(c)
  BY <1>5, <1>6
<1>8. {i \in DOMAIN c : c[i] = <<"assistant", r>>} = {}
  BY <1>4 DEF Tells
<1>9. <<"user", r>> # <<"assistant", r>>
  OBVIOUS
<1>10. {i \in DOMAIN d : d[i] = <<"user", r>>} = {q}
  <2>1. \A i \in DOMAIN d : d[i] = <<"user", r>> <=> i = q
    BY <1>2, <1>5, <1>7, <1>9
  <2> QED
    BY <1>2, <1>5, <2>1
<1>11. {i \in DOMAIN d : d[i] = <<"assistant", r>>} = {q + 1}
  <2>1. \A i \in 1..Len(c) : d[i] # <<"assistant", r>>
    BY <1>2, <1>8
  <2> QED
    BY <1>2, <1>7, <2>1
<1>12. q \in 1..Len(d)
  BY <1>2
<1>13. Tells(d, r, status)
  BY <1>10, <1>11, <1>12 DEF Tells
<1> QED
  BY <1>1, <1>13

LEMMA VoiceFacts ==
  ASSUME VoiceInv
  PROVE  /\ Len(runs) \in Nat /\ DOMAIN runs = 1..Len(runs) /\ runs \in Seq(VoiceRun)
         /\ \A r \in DOMAIN runs : runs[r] \in VoiceRun /\ r \in Nat
         /\ \A s \in VoiceSessions : conversation[s] \in Seq(Utterance)
         /\ session \in VoiceSessions /\ MaxTurns \in Nat /\ MaxSwitches \in Nat
<1>1. runs \in Seq(VoiceRun) /\ session \in VoiceSessions /\ conversation \in [VoiceSessions -> Seq(Utterance)]
  BY DEF VoiceInv, VoiceShape
<1>2. Len(runs) \in Nat /\ DOMAIN runs = 1..Len(runs)
  BY <1>1, LenProperties
<1> QED
  BY <1>1, <1>2, VoiceAssumption

LEMMA VoiceStarts ==
  ASSUME VoiceInit
  PROVE  VoiceInv
<1>1. \A T : <<>> \in Seq(T) /\ Len(<<>>) = 0
  BY EmptySeq
<1>2. DOMAIN runs = {} /\ \A s \in VoiceSessions : DOMAIN conversation[s] = {}
  BY EmptySeq DEF VoiceInit
<1>3. /\ runs \in Seq(VoiceRun) /\ Len(runs) = 0 /\ selected \in Seq(VoiceSkills)
      /\ conversation \in [VoiceSessions -> Seq(Utterance)] /\ stored \in [VoiceSessions -> Seq(VoiceSkills)]
  BY <1>1 DEF VoiceInit
<1>4. MaxTurns \in Nat /\ MaxSwitches \in Nat /\ Len(runs) <= MaxTurns /\ 0 \in 0..MaxTurns /\ 0 \in 0..MaxSwitches
  BY <1>3, VoiceAssumption
<1>5. VoiceShape
  BY <1>2, <1>3, <1>4 DEF VoiceInit, VoiceShape, Nothing
<1> QED
  BY <1>2, <1>5 DEF VoiceInit, VoiceInv, TurnHasRun, ConversationTells, QuestionIsOpen, Nothing

\* Steps that touch neither runs nor what is said of them.
LEMMA VoiceQuietStep ==
  ASSUME VoiceInv, VoiceShape', UNCHANGED <<session, runs, turnVars, clarification, conversation>>,
         phase' = phase \/ {phase, phase'} \subseteq {"idle", "listening", "transcribing", "closed"}
  PROVE  VoiceInv' /\ \A r \in DOMAIN runs : runs'[r] = runs[r]
<1>1. TurnHasRun'
  BY DEF VoiceInv, TurnHasRun, turnVars
<1>2. ConversationTells'
  BY TellsOfRuns DEF VoiceInv
<1>3. QuestionIsOpen'
  BY DEF VoiceInv, QuestionIsOpen
<1> QED
  BY <1>1, <1>2, <1>3 DEF VoiceInv

\* A turn ends with no answer: its run, if it began one, fails or is cancelled.
LEMMA VoiceEndStep ==
  ASSUME VoiceInv, VoiceShape', NEW ended, TurnEnds(ended), UNCHANGED <<session, clarification, conversation>>,
         NEW status \in {"failed", "cancelled"},
         \/ runs' = runs /\ phase # "thinking"
         \/ phase = "thinking" /\ runs' = [runs EXCEPT ![runId].status = status]
  PROVE  VoiceInv' /\ \A r \in DOMAIN runs : runs[r].status # "running" => runs'[r] = runs[r]
<1>1. phase' = "idle" /\ runId' = Nothing /\ runFinished' = FALSE /\ prior' = Nothing
  BY DEF TurnEnds
<1>2. CASE runs' = runs /\ phase # "thinking"
  <2>1. TurnHasRun'
    BY <1>1, <1>2 DEF VoiceInv, TurnHasRun
  <2>2. ConversationTells'
    BY <1>2, TellsOfRuns DEF VoiceInv
  <2>3. QuestionIsOpen'
    BY <1>2 DEF VoiceInv, QuestionIsOpen
  <2> QED
    BY <1>2, <2>1, <2>2, <2>3 DEF VoiceInv
<1>3. CASE phase = "thinking" /\ runs' = [runs EXCEPT ![runId].status = status]
  <2>1. /\ runId \in DOMAIN runs /\ runs[runId].status = "running" /\ clarification = Nothing
        /\ \A r \in DOMAIN runs : runs[r].status = "running" => r = runId
    BY <1>3, VoiceFacts DEF VoiceInv, TurnHasRun, Nothing
  <2>2. /\ DOMAIN runs' = DOMAIN runs
        /\ \A r \in DOMAIN runs \ {runId} : runs'[r] = runs[r]
        /\ runs'[runId].status = status /\ runs'[runId].session = runs[runId].session
    BY <1>3, <2>1, VoiceFacts DEF VoiceRun
  <2>3. TurnHasRun'
    BY <1>1, <2>1, <2>2 DEF TurnHasRun
  <2>4. QuestionIsOpen'
    BY <2>1 DEF QuestionIsOpen
  <2>5. ConversationTells'
    <3> SUFFICES ASSUME NEW r \in DOMAIN runs
                 PROVE  Tells(conversation'[runs'[r].session], r, runs'[r].status)
      BY <2>2, TellsOfRuns
    <3>1. Tells(conversation[runs[r].session], r, runs[r].status)
      BY TellsOfRuns DEF VoiceInv
    <3>2. CASE r = runId
      <4>1. runs[r].status \notin ANSWERED /\ runs'[r].status \notin ANSWERED
        BY <2>1, <2>2, <3>2 DEF ANSWERED
      <4> QED
        BY <2>2, <3>1, <3>2, <4>1, TellsAlike
    <3>3. CASE r # runId
      BY <2>2, <3>1, <3>3
    <3> QED
      BY <3>2, <3>3
  <2> QED
    BY <2>1, <2>2, <2>3, <2>4, <2>5 DEF VoiceInv
<1> QED
  BY <1>2, <1>3

\* What the handlers leave of the runs.
LEMMA Settles ==
  ASSUME VoiceInv, NEW status \in {"failed", "cancelled"}, SettleUnfinished(status)
  PROVE  /\ \/ runs' = runs /\ phase # "thinking"
            \/ phase = "thinking" /\ runs' = [runs EXCEPT ![runId].status = status]
         /\ runs' \in Seq(VoiceRun) /\ Len(runs') = Len(runs) /\ DOMAIN runs' = DOMAIN runs
<1>1. runs \in Seq(VoiceRun) /\ Len(runs) \in Nat /\ DOMAIN runs = 1..Len(runs)
  BY VoiceFacts
<1>2. CASE phase = "thinking"
  <2>1. runId # Nothing /\ ~runFinished /\ runId \in DOMAIN runs /\ runs[runId].status = "running"
    BY <1>1, <1>2 DEF VoiceInv, TurnHasRun, Nothing
  <2>2. FinishRun(runId, status)
    BY <2>1 DEF SettleUnfinished
  <2>3. runs' = [runs EXCEPT ![runId].status = status]
    BY <2>1, <2>2 DEF FinishRun
  <2>4. [runs[runId] EXCEPT !.status = status] \in VoiceRun
    BY <1>1, <2>1, VoiceFacts DEF VoiceRun, SettledStatus
  <2>5. runs' \in Seq(VoiceRun) /\ Len(runs') = Len(runs)
    BY <1>1, <2>1, <2>3, <2>4, ExceptSeq
  <2> QED
    BY <1>1, <1>2, <2>3, <2>5, LenProperties
<1>3. CASE phase # "thinking"
  <2>1. ~(runId # Nothing /\ ~runFinished)
    BY <1>3 DEF VoiceInv, TurnHasRun
  <2>2. runs' = runs
    BY <2>1 DEF SettleUnfinished
  <2> QED
    BY <1>1, <1>3, <2>2
<1> QED
  BY <1>2, <1>3

\* The user's words begin a run, which takes the open question with it.
LEMMA HeardStep ==
  ASSUME VoiceInv, Heard
  PROVE  /\ VoiceInv'
         /\ \A r \in DOMAIN runs : runs'[r] = runs[r]
         /\ clarification # Nothing => Len(runs') > Len(runs) /\ Last(runs').origin = clarification
<1>1. PICK r : r = Len(runs) + 1
  OBVIOUS
<1>2. PICK row : row = [session |-> session, status |-> "running", origin |-> Origin(r)]
  OBVIOUS
<1>3. /\ phase = "transcribing" /\ Len(runs) < MaxTurns
      /\ runs' = Append(runs, row) /\ runId' = r /\ prior' = clarification /\ clarification' = Nothing
      /\ conversation' = [conversation EXCEPT ![session] = Append(@, <<"user", r>>)]
      /\ phase' = "thinking" /\ display' = "thinking"
      /\ UNCHANGED <<stopping, session, busyElsewhere, runFinished, approval, selected, stored, registered, switches>>
  BY <1>1, <1>2 DEF Heard, Say, skillVars
<1>4. /\ Len(runs) \in Nat /\ DOMAIN runs = 1..Len(runs) /\ runs \in Seq(VoiceRun) /\ MaxTurns \in Nat
      /\ session \in VoiceSessions /\ clarification \in 0..MaxTurns
  BY VoiceFacts DEF VoiceInv, VoiceShape
<1>5. r \in 1..MaxTurns /\ r # Nothing /\ r \notin DOMAIN runs /\ r \in Nat
  BY <1>1, <1>3, <1>4 DEF Nothing
<1>6. row.session = session /\ row.status = "running" /\ row.origin = Origin(r) /\ row \in VoiceRun
  <2>1. Origin(r) \in 1..MaxTurns
    BY <1>4, <1>5 DEF Origin, Nothing
  <2> QED
    BY <1>2, <1>4, <2>1 DEF VoiceRun, Turns
<1>7. /\ runs' \in Seq(VoiceRun) /\ Len(runs') = r /\ DOMAIN runs' = 1..r /\ runs'[r] = row
      /\ \A k \in DOMAIN runs : runs'[k] = runs[k]
  BY <1>1, <1>3, <1>4, <1>6, AppendProperties, LenProperties
<1>8. PICK said \in Seq(Utterance) : said = Append(conversation[session], <<"user", r>>)
  BY <1>4, <1>5, VoiceFacts, AppendProperties DEF Utterance
<1>9. /\ conversation \in [VoiceSessions -> Seq(Utterance)]
      /\ conversation' = [conversation EXCEPT ![session] = said]
      /\ conversation'[session] = said /\ \A s \in VoiceSessions : s # session => conversation'[s] = conversation[s]
      /\ conversation' \in [VoiceSessions -> Seq(Utterance)]
  BY <1>3, <1>4, <1>8 DEF VoiceInv, VoiceShape
<1>10. /\ Len(said) = Len(conversation[session]) + 1 /\ said[Len(said)] = <<"user", r>> /\ said # <<>>
       /\ DOMAIN said = 1..Len(said) /\ DOMAIN conversation[session] = 1..Len(conversation[session])
       /\ Len(conversation[session]) \in Nat
       /\ \A i \in 1..Len(conversation[session]) : said[i] = conversation[session][i]
  BY <1>4, <1>5, <1>8, VoiceFacts, AppendProperties, LenProperties, EmptySeq DEF Utterance
<1>11. \A s \in VoiceSessions : \A i \in DOMAIN conversation[s] : conversation[s][i][2] \in DOMAIN runs
  BY DEF VoiceInv, VoiceShape
<1>12. VoiceShape'
  <2>1. \A s \in VoiceSessions : \A i \in DOMAIN conversation'[s] : conversation'[s][i][2] \in DOMAIN runs'
    <3> SUFFICES ASSUME NEW s \in VoiceSessions, NEW i \in DOMAIN conversation'[s]
                 PROVE  conversation'[s][i][2] \in 1..r
      BY <1>7
    <3>1. 1..Len(runs) \subseteq 1..r
      BY <1>1, <1>4
    <3>2. CASE s # session
      BY <1>4, <1>9, <1>11, <3>1, <3>2
    <3>3. CASE s = session /\ i \in 1..Len(conversation[session])
      BY <1>4, <1>9, <1>10, <1>11, <3>1, <3>3
    <3>4. CASE s = session /\ i \notin 1..Len(conversation[session])
      <4>1. i = Len(said)
        BY <1>9, <1>10, <3>4
      <4>2. conversation'[s][i] = <<"user", r>>
        BY <1>9, <1>10, <3>4, <4>1
      <4> QED
        BY <1>5, <1>1, <1>4, <4>2
    <3> QED
      BY <3>2, <3>3, <3>4
  <2>2. runId' \in 0..MaxTurns /\ prior' \in 0..MaxTurns /\ clarification' \in 0..MaxTurns /\ Len(runs') <= MaxTurns
    BY <1>3, <1>4, <1>5, <1>7 DEF Nothing
  <2> QED
    BY <1>3, <1>7, <1>9, <2>1, <2>2 DEF VoiceInv, VoiceShape
<1>13. \A k \in DOMAIN runs : runs[k].status # "running"
  BY <1>3 DEF VoiceInv, TurnHasRun
<1>14. TurnHasRun'
  <2>1. \A k \in DOMAIN runs' : runs'[k].status = "running" => k = r
    BY <1>1, <1>4, <1>7, <1>13
  <2>2. /\ prior' = Nothing => runs'[runId'].origin = runId'
        /\ prior' # Nothing => runs'[runId'].origin = prior'
    BY <1>3, <1>6, <1>7 DEF Origin
  <2>3. ~runFinished'
    BY <1>3 DEF VoiceInv, TurnHasRun
  <2> QED
    BY <1>3, <1>5, <1>6, <1>7, <1>9, <1>10, <2>1, <2>2, <2>3 DEF TurnHasRun
<1>15. ConversationTells'
  <2> SUFFICES ASSUME NEW k \in DOMAIN runs'
               PROVE  Tells(conversation'[runs'[k].session], k, runs'[k].status)
    BY TellsOfRuns
  <2>1. CASE k = r
    <3>1. \A i \in DOMAIN conversation[session] : conversation[session][i][2] # r
      BY <1>4, <1>5, <1>11
    <3>2. Tells(said, r, "running")
      BY <1>4, <1>5, <1>8, <3>1, VoiceFacts, AskedTold
    <3> QED
      BY <1>6, <1>7, <1>9, <2>1, <3>2
  <2>2. CASE k # r
    <3>1. k \in DOMAIN runs /\ k \in Nat /\ runs'[k] = runs[k] /\ runs[k].session \in VoiceSessions
      BY <1>1, <1>4, <1>7, <2>2, VoiceFacts DEF VoiceRun
    <3>2. Tells(conversation[runs[k].session], k, runs[k].status)
      BY <3>1, TellsOfRuns DEF VoiceInv
    <3>3. CASE runs[k].session # session
      BY <1>9, <3>1, <3>2, <3>3
    <3>4. CASE runs[k].session = session
      <4>1. conversation[session] \in Seq(Utterance) /\ "user" \in {"user", "assistant"}
        BY <1>4, VoiceFacts
      <4>2. Tells(Append(conversation[session], <<"user", r>>), k, runs[k].status)
        BY <1>5, <2>2, <3>1, <3>2, <3>4, <4>1, OthersTold
      <4> QED
        BY <1>8, <1>9, <3>1, <3>4, <4>2
    <3> QED
      BY <3>3, <3>4
  <2> QED
    BY <2>1, <2>2
<1>16. QuestionIsOpen'
  BY <1>3 DEF QuestionIsOpen
<1>17. clarification # Nothing => Len(runs') > Len(runs) /\ Last(runs').origin = clarification
  BY <1>1, <1>4, <1>6, <1>7 DEF Last, Origin
<1> QED
  BY <1>7, <1>12, <1>14, <1>15, <1>16, <1>17 DEF VoiceInv

\* The run is settled and its answer, if it has one, stands after the words.
LEMMA VoiceAnswersStep ==
  ASSUME VoiceInv, NEW status \in SettledStatus, TurnAnswered(status)
  PROVE  /\ VoiceInv'
         /\ \A r \in DOMAIN runs : runs[r].status # "running" => runs'[r] = runs[r]
         /\ clarification = Nothing
<1>1. /\ phase = "thinking" /\ phase' = "speaking" /\ display' = "speaking" /\ runFinished' = TRUE
      /\ FinishRun(runId, status)
      /\ clarification' = IF status = "waiting_input" THEN IF prior = Nothing THEN runId ELSE prior
                          ELSE clarification
      /\ status \in ANSWERED => Say("assistant", runId)
      /\ status \notin ANSWERED => conversation' = conversation
      /\ UNCHANGED <<stopping, session, busyElsewhere, runId, prior, approval, selected, stored, registered, switches>>
  BY DEF TurnAnswered, skillVars
<1>2. /\ Len(runs) \in Nat /\ DOMAIN runs = 1..Len(runs) /\ runs \in Seq(VoiceRun) /\ session \in VoiceSessions
      /\ conversation \in [VoiceSessions -> Seq(Utterance)]
  BY VoiceFacts DEF VoiceInv, VoiceShape
<1>3. /\ runId = Len(runs) /\ runId # Nothing /\ runId \in DOMAIN runs /\ runId \in Nat
      /\ runs[runId].status = "running" /\ runs[runId].session = session
      /\ clarification = Nothing /\ \A r \in DOMAIN runs : runs[r].status = "running" => r = runId
  BY <1>1, <1>2 DEF VoiceInv, TurnHasRun, Nothing
<1>4. runs' = [runs EXCEPT ![runId].status = status]
  BY <1>1, <1>3 DEF FinishRun
<1>5. PICK row : row = [runs[runId] EXCEPT !.status = status]
  OBVIOUS
<1>6. row \in VoiceRun /\ row.status = status /\ row.session = session /\ row.origin = runs[runId].origin
  BY <1>3, <1>5, VoiceFacts DEF VoiceRun
<1>7. /\ runs' \in Seq(VoiceRun) /\ Len(runs') = Len(runs) /\ DOMAIN runs' = DOMAIN runs
      /\ runs'[runId] = row /\ \A r \in DOMAIN runs : r # runId => runs'[r] = runs[r]
  <2>1. runs' = [runs EXCEPT ![runId] = row]
    BY <1>4, <1>5
  <2> QED
    BY <1>2, <1>3, <1>6, <2>1, ExceptSeq
<1>8. \A r \in DOMAIN runs : r # runId => runs[r].status # "running"
  BY <1>3
<1>9. PICK said \in Seq(Utterance) : said = Append(conversation[session], <<"assistant", runId>>)
  BY <1>2, <1>3, VoiceFacts, AppendProperties DEF Utterance
<1>10. /\ status \in ANSWERED => conversation' = [conversation EXCEPT ![session] = said]
       /\ conversation' \in [VoiceSessions -> Seq(Utterance)]
       /\ \A s \in VoiceSessions : s # session => conversation'[s] = conversation[s]
       /\ status \in ANSWERED => conversation'[session] = said
  BY <1>1, <1>2, <1>9 DEF Say
<1>11. /\ DOMAIN said = 1..Len(conversation[session]) + 1
       /\ DOMAIN conversation[session] = 1..Len(conversation[session]) /\ Len(conversation[session]) \in Nat
       /\ said[Len(conversation[session]) + 1] = <<"assistant", runId>>
       /\ \A i \in 1..Len(conversation[session]) : said[i] = conversation[session][i]
  BY <1>2, <1>3, <1>9, VoiceFacts, AppendProperties, LenProperties DEF Utterance
<1>12. VoiceShape'
  <2>1. \A s \in VoiceSessions : \A i \in DOMAIN conversation[s] : conversation[s][i][2] \in DOMAIN runs
    BY DEF VoiceInv, VoiceShape
  <2>2. \A s \in VoiceSessions : \A i \in DOMAIN conversation'[s] : conversation'[s][i][2] \in DOMAIN runs'
    <3> SUFFICES ASSUME NEW s \in VoiceSessions, NEW i \in DOMAIN conversation'[s]
                 PROVE  conversation'[s][i][2] \in DOMAIN runs
      BY <1>7
    <3>1. CASE s # session \/ status \notin ANSWERED
      BY <1>1, <1>10, <2>1, <3>1
    <3>2. CASE s = session /\ status \in ANSWERED /\ i \in 1..Len(conversation[session])
      BY <1>2, <1>10, <1>11, <2>1, <3>2
    <3>3. CASE s = session /\ status \in ANSWERED /\ i \notin 1..Len(conversation[session])
      <4>1. i = Len(conversation[session]) + 1
        BY <1>10, <1>11, <3>3
      <4>2. conversation'[s][i] = <<"assistant", runId>>
        BY <1>10, <1>11, <3>3, <4>1
      <4> QED
        BY <1>3, <4>2
    <3> QED
      BY <3>1, <3>2, <3>3
  <2>3. clarification' \in 0..MaxTurns
    BY <1>1 DEF VoiceInv, VoiceShape
  <2> QED
    BY <1>1, <1>7, <1>10, <2>2, <2>3 DEF VoiceInv, VoiceShape
<1>13. TurnHasRun'
  <2>1. status # "running"
    BY DEF SettledStatus
  <2>2. \A r \in DOMAIN runs' : runs'[r].status # "running"
    BY <1>6, <1>7, <1>8, <2>1
  <2> QED
    BY <1>1, <1>3, <1>6, <1>7, <2>2 DEF TurnHasRun
<1>14. ConversationTells'
  <2> SUFFICES ASSUME NEW k \in DOMAIN runs
               PROVE  Tells(conversation'[runs'[k].session], k, runs'[k].status)
    BY <1>7, TellsOfRuns
  <2>1. Tells(conversation[runs[k].session], k, runs[k].status) /\ k \in Nat /\ runs[k].session \in VoiceSessions
    BY <1>2, TellsOfRuns, VoiceFacts DEF VoiceInv, VoiceRun
  <2>2. CASE k = runId /\ status \in ANSWERED
    <3>1. /\ conversation[session] # <<>>
          /\ conversation[session][Len(conversation[session])] = <<"user", runId>>
      BY <1>1 DEF VoiceInv, TurnHasRun
    <3>2. Tells(conversation[session], runId, "running")
      BY <1>3, <2>1, <2>2
    <3>3. conversation[session] \in Seq(Utterance)
      BY <1>2
    <3>4. Tells(Append(conversation[session], <<"assistant", runId>>), runId, status)
      BY <1>3, <2>2, <3>1, <3>2, <3>3, AnswerTold
    <3> QED
      BY <1>6, <1>7, <1>9, <1>10, <2>2, <3>4
  <2>3. CASE k = runId /\ status \notin ANSWERED
    <3>1. runs[k].status \notin ANSWERED
      BY <1>3, <2>3 DEF ANSWERED
    <3>2. Tells(conversation[session], k, status)
      BY <1>3, <2>1, <2>3, <3>1, TellsAlike
    <3> QED
      BY <1>1, <1>6, <1>7, <2>3, <3>2
  <2>4. CASE k # runId /\ (status \notin ANSWERED \/ runs[k].session # session)
    BY <1>1, <1>7, <1>10, <2>1, <2>4
  <2>5. CASE k # runId /\ status \in ANSWERED /\ runs[k].session = session
    <3>1. conversation[session] \in Seq(Utterance) /\ "assistant" \in {"user", "assistant"}
      BY <1>2
    <3>2. Tells(Append(conversation[session], <<"assistant", runId>>), k, runs[k].status)
      BY <1>3, <2>1, <2>5, <3>1, OthersTold
    <3> QED
      BY <1>7, <1>9, <1>10, <2>5, <3>2
  <2> QED
    BY <2>2, <2>3, <2>4, <2>5
<1>15. QuestionIsOpen'
  <2>1. CASE status = "waiting_input"
    <3>1. clarification' = row.origin
      BY <1>1, <1>6, <2>1 DEF VoiceInv, TurnHasRun
    <3>2. Last(runs') = row
      BY <1>3, <1>7 DEF Last
    <3> QED
      BY <1>1, <1>6, <2>1, <3>1, <3>2 DEF QuestionIsOpen
  <2>2. CASE status # "waiting_input"
    BY <1>1, <1>3, <2>2 DEF QuestionIsOpen
  <2> QED
    BY <2>1, <2>2
<1> QED
  BY <1>3, <1>7, <1>8, <1>12, <1>13, <1>14, <1>15 DEF VoiceInv

\* What no step of a voice session does to a run or to an open question.
VoiceKept ==
  /\ \A r \in DOMAIN runs : runs[r].status # "running" => runs'[r] = runs[r]
  /\ clarification # Nothing /\ clarification' # clarification =>
        \/ switches' # switches
        \/ Len(runs') > Len(runs) /\ Last(runs').origin = clarification

LEMMA QuietSteps ==
  ASSUME VoiceInv,
         \/ Listen \/ SkillUnavailable \/ Captured \/ AskApproval \/ AnswerApproval \/ CancelTurn \/ CloseController
         \/ \E s \in VoiceSessions : ElsewhereBegins(s) \/ ElsewhereEnds(s)
  PROVE  VoiceInv' /\ VoiceKept
<1>1. /\ UNCHANGED <<session, runs, turnVars, clarification, conversation, selected, stored, registered, switches>>
      /\ phase' = phase \/ {phase, phase'} \subseteq {"idle", "listening", "transcribing", "closed"}
      /\ busyElsewhere' \subseteq VoiceSessions /\ stopping' \in BOOLEAN /\ approval' \in BOOLEAN
      /\ display' \in {display, "listening", "blocked", "transcribing", "waiting_approval", "thinking"}
  BY DEF Listen, SkillUnavailable, Captured, AskApproval, AnswerApproval, CancelTurn, CloseController,
         ElsewhereBegins, ElsewhereEnds, VoiceInv, VoiceShape, skillVars
<1>2. VoiceShape'
  BY <1>1 DEF VoiceInv, VoiceShape, turnVars
<1>3. VoiceInv' /\ \A r \in DOMAIN runs : runs'[r] = runs[r]
  BY <1>1, <1>2, VoiceQuietStep
<1> QED
  BY <1>1, <1>3 DEF VoiceKept

LEMMA SkillSteps ==
  ASSUME VoiceInv, NEW n \in VoiceSkills, ActivateSkill(n) \/ DeactivateSkill(n) \/ SkillRemoved(n)
  PROVE  VoiceInv' /\ VoiceKept
<1>1. /\ phase = "idle" /\ switches < MaxSwitches /\ switches' = switches + 1
      /\ UNCHANGED <<phase, stopping, session, runs, busyElsewhere, turnVars, clarification, conversation,
                     approval, display>>
  BY DEF ActivateSkill, DeactivateSkill, SkillRemoved
<1>2. selected \in Seq(VoiceSkills) /\ stored \in [VoiceSessions -> Seq(VoiceSkills)] /\ registered \subseteq VoiceSkills
  BY DEF VoiceInv, VoiceShape
<1>3. /\ selected' \in Seq(VoiceSkills) /\ registered' \subseteq VoiceSkills
      /\ stored' = stored \/ stored' = [stored EXCEPT ![session] = selected']
  <2>1. CASE ActivateSkill(n)
    <3>1. Append(selected, n) \in Seq(VoiceSkills)
      BY <1>2, AppendProperties
    <3> QED
      BY <1>2, <2>1, <3>1 DEF ActivateSkill
  <2>2. CASE DeactivateSkill(n)
    <3>1. PICK i \in DOMAIN selected : selected' = RemoveAt(selected, i)
      BY <2>2 DEF DeactivateSkill
    <3>2. DOMAIN selected = 1..Len(selected) /\ Len(selected) \in Nat
      BY <1>2, LenProperties
    <3>3. SubSeq(selected, 1, i - 1) \in Seq(VoiceSkills) /\ SubSeq(selected, i + 1, Len(selected)) \in Seq(VoiceSkills)
      BY <1>2, <3>2, SubSeqProperties
    <3>4. RemoveAt(selected, i) \in Seq(VoiceSkills)
      BY <3>3, ConcatProperties DEF RemoveAt
    <3> QED
      BY <1>2, <2>2, <3>1, <3>4 DEF DeactivateSkill
  <2>3. CASE SkillRemoved(n)
    BY <1>2, <2>3 DEF SkillRemoved
  <2> QED
    BY <2>1, <2>2, <2>3
<1>4. stored' \in [VoiceSessions -> Seq(VoiceSkills)]
  BY <1>2, <1>3
<1>5. switches' \in 0..MaxSwitches /\ switches' # switches
  BY <1>1, VoiceFacts DEF VoiceInv, VoiceShape
<1>6. VoiceShape'
  BY <1>1, <1>3, <1>4, <1>5 DEF VoiceInv, VoiceShape, turnVars
<1>7. VoiceInv' /\ \A r \in DOMAIN runs : runs'[r] = runs[r]
  BY <1>1, <1>6, VoiceQuietStep
<1> QED
  BY <1>1, <1>7 DEF VoiceKept

\* A change of session takes no run with it, and leaves the open question.
LEMMA SwitchStep ==
  ASSUME VoiceInv, NEW s \in VoiceSessions, SelectSession(s)
  PROVE  VoiceInv' /\ VoiceKept
<1>1. /\ phase = "idle" /\ switches < MaxSwitches /\ switches' = switches + 1
      /\ session' = s /\ selected' = stored[s] /\ clarification' = Nothing /\ display' = "idle"
      /\ UNCHANGED <<phase, stopping, runs, busyElsewhere, turnVars, conversation, approval, stored, registered>>
  BY DEF SelectSession
<1>2. switches' \in 0..MaxSwitches /\ switches' # switches
  BY <1>1, VoiceFacts DEF VoiceInv, VoiceShape
<1>3. 0 \in 0..MaxTurns
  BY VoiceFacts
<1>4. VoiceShape'
  BY <1>1, <1>2, <1>3 DEF VoiceInv, VoiceShape, turnVars, Nothing
<1>5. TurnHasRun'
  BY <1>1 DEF VoiceInv, TurnHasRun, turnVars
<1>6. ConversationTells'
  BY <1>1, TellsOfRuns DEF VoiceInv
<1> QED
  BY <1>1, <1>2, <1>4, <1>5, <1>6 DEF VoiceInv, VoiceKept, QuestionIsOpen

LEMMA VoiceEndSteps ==
  ASSUME VoiceInv, HeardNothing \/ HeardButBusy \/ Spoken \/ TurnFails \/ TurnCancelled
  PROVE  VoiceInv' /\ VoiceKept
<1>1. PICK ended \in SettledStatus \cup {"no_speech", "blocked"} :
        TurnEnds(ended) /\ UNCHANGED <<session, busyElsewhere, clarification, conversation, skillVars, switches>>
  <2>1. CASE Spoken
    <3>1. phase = "speaking" /\ runId \in DOMAIN runs
      BY <2>1, VoiceFacts DEF Spoken, VoiceInv, TurnHasRun, Nothing
    <3>2. runs[runId].status \in SettledStatus
      BY <3>1, VoiceFacts DEF VoiceInv, TurnHasRun, VoiceRun
    <3> QED
      BY <2>1, <3>2 DEF Spoken
  <2>2. CASE HeardNothing
    BY <2>2 DEF HeardNothing
  <2>3. CASE HeardButBusy
    BY <2>3 DEF HeardButBusy
  <2>4. CASE TurnFails
    BY <2>4 DEF TurnFails, SettledStatus
  <2>5. CASE TurnCancelled
    BY <2>5 DEF TurnCancelled, SettledStatus
  <2> QED
    BY <2>1, <2>2, <2>3, <2>4, <2>5
<1>2. PICK status \in {"failed", "cancelled"} :
        /\ \/ runs' = runs /\ phase # "thinking"
           \/ phase = "thinking" /\ runs' = [runs EXCEPT ![runId].status = status]
        /\ runs' \in Seq(VoiceRun) /\ Len(runs') = Len(runs) /\ DOMAIN runs' = DOMAIN runs
  <2>1. CASE HeardNothing \/ HeardButBusy \/ Spoken
    <3>1. runs' = runs /\ phase # "thinking"
      BY <2>1 DEF HeardNothing, HeardButBusy, Spoken
    <3> QED
      BY <3>1, VoiceFacts
  <2>2. CASE TurnFails
    BY <2>2, Settles DEF TurnFails
  <2>3. CASE TurnCancelled
    BY <2>3, Settles DEF TurnCancelled
  <2> QED
    BY <2>1, <2>2, <2>3
<1>3. VoiceShape'
  <2>1. /\ phase' = "idle" /\ stopping' = FALSE /\ approval' = FALSE /\ display' = ended
        /\ runId' = 0 /\ runFinished' = FALSE /\ prior' = 0
    BY <1>1 DEF TurnEnds, Nothing
  <2>2. 0 \in 0..MaxTurns
    BY VoiceFacts
  <2> QED
    BY <1>1, <1>2, <2>1, <2>2 DEF VoiceInv, VoiceShape, skillVars
<1>4. VoiceInv' /\ \A r \in DOMAIN runs : runs[r].status # "running" => runs'[r] = runs[r]
  BY <1>1, <1>2, <1>3, VoiceEndStep
<1> QED
  BY <1>1, <1>4 DEF VoiceKept

LEMMA VoiceStep ==
  ASSUME VoiceInv, [VoiceNext]_voiceVars
  PROVE  VoiceInv' /\ VoiceKept
<1>1. CASE UNCHANGED voiceVars
  <2>1. VoiceShape'
    BY <1>1 DEF voiceVars, VoiceInv, VoiceShape
  <2>2. UNCHANGED <<session, runs, turnVars, clarification, conversation>> /\ phase' = phase
    BY <1>1 DEF voiceVars, turnVars
  <2> QED
    BY <2>1, <2>2, VoiceQuietStep DEF VoiceKept
<1>2. CASE Heard
  BY <1>2, HeardStep DEF VoiceKept
<1>3. CASE \E status \in SettledStatus : TurnAnswered(status)
  BY <1>3, VoiceAnswersStep DEF VoiceKept
<1>4. CASE VoiceNext /\ ~Heard /\ ~\E status \in SettledStatus : TurnAnswered(status)
  BY <1>4, QuietSteps, SkillSteps, SwitchStep, VoiceEndSteps DEF VoiceNext
<1> QED
  BY <1>1, <1>2, <1>3, <1>4

\* However a turn of the voice session ends, its run has ended with it, the
\* conversation has an answer exactly for the runs that gave one, results that
\* were kept stay, and an open question is taken by the run that carries it or
\* by a change of session only.
THEOREM TurnsKept == VoiceSpec => []VoiceTypeOK /\ TurnsAreKept
<1>1. VoiceInit => VoiceInv
  BY VoiceStarts
<1>2. VoiceInv /\ [VoiceNext]_voiceVars => VoiceInv'
  BY VoiceStep
<1>3. VoiceInv => VoiceTypeOK
  <2> SUFFICES ASSUME VoiceInv
               PROVE  VoiceTypeOK
    OBVIOUS
  <2>1. runs \in SeqOf([session : VoiceSessions, origin : Turns, status : SettledStatus \cup {"running"}], MaxTurns)
    <3>1. Len(runs) \in 0..MaxTurns /\ runs \in [1..Len(runs) -> VoiceRun]
      BY VoiceFacts, LenProperties DEF VoiceInv, VoiceShape
    <3> QED
      BY <3>1 DEF SeqOf, VoiceRun
  <2>2. selected \in SeqOf(VoiceSkills, Len(selected))
    <3>1. selected \in Seq(VoiceSkills)
      BY DEF VoiceInv, VoiceShape
    <3>2. Len(selected) \in 0..Len(selected) /\ selected \in [1..Len(selected) -> VoiceSkills]
      BY <3>1, LenProperties
    <3> QED
      BY <3>2 DEF SeqOf
  <2>3. \A s \in VoiceSessions : Range(stored[s]) \subseteq VoiceSkills
    <3> SUFFICES ASSUME NEW s \in VoiceSessions
                 PROVE  Range(stored[s]) \subseteq VoiceSkills
      OBVIOUS
    <3>1. stored[s] \in Seq(VoiceSkills)
      BY DEF VoiceInv, VoiceShape
    <3> QED
      BY <3>1, LenProperties DEF Range
  <2>4. \A s \in VoiceSessions : \A i \in DOMAIN conversation[s] : conversation[s][i] \in {"user", "assistant"} \X Turns
    <3> SUFFICES ASSUME NEW s \in VoiceSessions, NEW i \in DOMAIN conversation[s]
                 PROVE  conversation[s][i] \in {"user", "assistant"} \X Turns
      OBVIOUS
    <3>1. conversation[s] \in Seq(Utterance)
      BY VoiceFacts
    <3>2. conversation[s][i] \in {"user", "assistant"} \X Nat
      BY <3>1, LenProperties DEF Utterance
    <3>3. conversation[s][i][2] \in 1..MaxTurns
      BY VoiceFacts DEF VoiceInv, VoiceShape
    <3> QED
      BY <3>2, <3>3 DEF Turns
  <2> QED
    BY <2>1, <2>2, <2>3, <2>4 DEF VoiceInv, VoiceShape, VoiceTypeOK
<1>4. VoiceInv => NothingLeftRunning /\ ConversationTells /\ QuestionIsOpen
  BY DEF VoiceInv, TurnHasRun, NothingLeftRunning
<1>5. VoiceInv /\ [VoiceNext]_voiceVars =>
        [\A r \in DOMAIN runs : runs[r].status # "running" => runs'[r] = runs[r]]_voiceVars
  BY VoiceStep DEF VoiceKept
<1>6. VoiceInv /\ [VoiceNext]_voiceVars =>
        [clarification # Nothing /\ clarification' # clarification =>
            \/ switches' # switches
            \/ Len(runs') > Len(runs) /\ Last(runs').origin = clarification]_voiceVars
  BY VoiceStep DEF VoiceKept
<1> QED
  BY <1>1, <1>2, <1>3, <1>4, <1>5, <1>6, PTL DEF VoiceSpec, TurnsAreKept, ResultsStay, QuestionIsCarried
=============================================================================
