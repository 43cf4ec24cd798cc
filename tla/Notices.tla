------------------------------ MODULE Notices ------------------------------
(***************************************************************************)
(* The inbox of job notifications: the rows a trigger writes with every    *)
(* transition of a job, and the CLI sessions that present them, each with  *)
(* a cursor of its own, to be acknowledged once they have been printed.    *)
(*                                                                         *)
(* A session reads a batch of rows and presents them one by one; between   *)
(* its steps jobs move on, other sessions present, users acknowledge and   *)
(* the retention cleanup deletes.                                          *)
(***************************************************************************)
EXTENDS Integers, Sequences, FiniteSets

CONSTANTS
  Consoles,     \* CLI sessions with SUTO_NOTIFY_CLI=1
  BatchLimit,   \* rows of one query
  MaxNotices,   \* bound: notifications written
  MaxFailures   \* bound: prints and acknowledgements that fail, sessions closed

ASSUME NoticeAssumption ==
  BatchLimit \in Nat \ {0} /\ MaxNotices \in Nat /\ MaxFailures \in Nat

VARIABLES
  notifier,    \* the status of the job the notifications are about
  inbox,       \* notifications: inbox[i] is the row with id i
  console,     \* console[c]: its phase, cursor (after_id), what is left of its batch,
               \* whether the job waited when the batch was read, and pending_ack
  printed,     \* printed[c]: the ids session c has printed since it was opened
  noticed,     \* ghost: the ids somebody was shown, or acknowledged by hand
  failures     \* counts what MaxFailures bounds

noticeVars == <<notifier, inbox, console, printed, noticed, failures>>

Closed == [phase |-> "closed", cursor |-> 0, batch |-> {}, waiting |-> FALSE, pending |-> 0]

NoticeInit ==
  /\ notifier = "queued"
  /\ inbox = <<>>
  /\ console = [c \in Consoles |-> Closed]
  /\ printed = [c \in Consoles |-> <<>>]
  /\ noticed = {}
  /\ failures = 0

-----------------------------------------------------------------------------
(* Jobs.                                                                   *)

Notified == {"completed", "failed", "blocked", "waiting_approval", "interrupted", "cancelled"}

\* CASE of the trigger job_notification; "exhausted" is what the history says.
KindOf(to, exhausted) ==
  CASE to = "waiting_approval" -> "approval_required"
    [] to = "failed" /\ exhausted -> "retry_exhausted"
    [] OTHER -> to

Notice(kind) == [kind |-> kind, read |-> FALSE, gone |-> FALSE]

NotifyMove(to, exhausted) ==
  /\ Len(inbox) < MaxNotices
  /\ to # notifier /\ notifier \notin {"completed", "cancelled"}
  /\ notifier' = to
  /\ inbox' = IF to \in Notified THEN Append(inbox, Notice(KindOf(to, exhausted))) ELSE inbox
  /\ UNCHANGED <<console, printed, noticed, failures>>

-----------------------------------------------------------------------------
(* Sessions.                                                               *)

\* _NOTIFICATION_SUMMARIES
Summarized == {"completed", "failed", "cancelled", "approval_required", "retry_exhausted"}

Open(c) ==
  /\ console[c].phase = "closed"
  /\ console' = [console EXCEPT ![c] = [Closed EXCEPT !.phase = "poll"]]
  /\ printed' = [printed EXCEPT ![c] = <<>>]
  /\ UNCHANGED <<notifier, inbox, noticed, failures>>

Read(id) == inbox' = [inbox EXCEPT ![id].read = TRUE]

Failing ==
  /\ failures < MaxFailures
  /\ failures' = failures + 1

\* notifications_after: the first unread rows after the cursor.
UnreadAfter(cursor) ==
  LET rows == {i \in DOMAIN inbox : i > cursor /\ ~inbox[i].read /\ ~inbox[i].gone}
  IN {i \in rows : Cardinality({k \in rows : k < i}) < BatchLimit}

Present(batch) == IF batch = {} THEN "poll" ELSE "show"

\* First what could not be acknowledged before, then the query.
Poll(c) ==
  LET s == console[c] IN
  /\ s.phase = "poll"
  /\ IF s.pending = 0
     THEN /\ UnreadAfter(s.cursor) # {}
          /\ console' = [console EXCEPT ![c].batch = UnreadAfter(s.cursor), ![c].phase = "show",
                                        ![c].waiting = (notifier = "waiting_approval")]
          /\ UNCHANGED <<inbox, failures>>
     ELSE \/ /\ Read(s.pending)
             /\ console' = [console EXCEPT ![c].pending = 0]
             /\ UNCHANGED failures
          \/ Failing /\ UNCHANGED <<inbox, console>>
  /\ UNCHANGED <<notifier, printed, noticed>>

\* The batch is presented in the order of its ids.
NextOf(batch) == CHOOSE i \in batch : \A k \in batch : i <= k

\* Is the row to be printed, as the batch has it?
Displayed(id, waiting) ==
  /\ inbox[id].kind \in Summarized
  /\ inbox[id].kind = "approval_required" => waiting

\* What was printed, or is an approval that is not waited for, is acknowledged next.
Show(c) ==
  LET s == console[c]
      id == NextOf(s.batch)
      left == s.batch \ {id}
      displayed == Displayed(id, s.waiting)
      acknowledge == displayed \/ inbox[id].kind = "approval_required"
  IN
  /\ s.phase = "show"
  /\ \/ /\ console' = [console EXCEPT ![c].phase = IF acknowledge THEN "ack" ELSE Present(left),
                                      ![c].cursor = id, ![c].batch = left,
                                      ![c].pending = IF acknowledge THEN id ELSE 0]
        /\ printed' = IF displayed THEN [printed EXCEPT ![c] = Append(@, id)] ELSE printed
        /\ noticed' = IF displayed THEN noticed \cup {id} ELSE noticed
        /\ UNCHANGED failures
     \/ /\ displayed /\ Failing
        /\ console' = [console EXCEPT ![c].phase = "poll", ![c].batch = {}]
        /\ UNCHANGED <<printed, noticed>>
  /\ UNCHANGED <<notifier, inbox>>

Acknowledge(c) ==
  LET s == console[c] IN
  /\ s.phase = "ack"
  /\ \/ /\ Read(s.pending)
        /\ console' = [console EXCEPT ![c].phase = Present(s.batch), ![c].pending = 0]
        /\ UNCHANGED failures
     \/ /\ Failing
        /\ console' = [console EXCEPT ![c].phase = "poll", ![c].batch = {}]
        /\ UNCHANGED inbox
  /\ UNCHANGED <<notifier, printed, noticed>>

\* A closed session may leave an acknowledgement to its thread, which ends it.
Close(c) ==
  /\ console[c].phase # "closed" /\ Failing
  /\ console' = [console EXCEPT ![c] = Closed]
  /\ \/ UNCHANGED inbox
     \/ console[c].pending # 0 /\ Read(console[c].pending)
  /\ UNCHANGED <<notifier, printed, noticed>>

\* /notifications ack
AcknowledgeByHand(id) ==
  /\ id \in DOMAIN inbox /\ ~inbox[id].read /\ ~inbox[id].gone
  /\ Read(id)
  /\ noticed' = noticed \cup {id}
  /\ UNCHANGED <<notifier, console, printed, failures>>

\* Mutant: cleanup deletes whatever is old.
ExpiredAnyway(row) == TRUE

\* cleanup: what is unread stays, whatever its age.
ExpiredNotice(row) == row.read

CleanNotices ==
  /\ notifier \in {"completed", "failed", "cancelled"}
  /\ \E i \in DOMAIN inbox : ExpiredNotice(inbox[i]) /\ ~inbox[i].gone
  /\ inbox' = [i \in DOMAIN inbox |-> IF ExpiredNotice(inbox[i]) THEN [inbox[i] EXCEPT !.gone = TRUE] ELSE inbox[i]]
  /\ UNCHANGED <<notifier, console, printed, noticed, failures>>

-----------------------------------------------------------------------------
NoticeNext ==
  \/ \E to \in Notified \cup {"queued", "running"}, exhausted \in BOOLEAN : NotifyMove(to, exhausted)
  \/ \E c \in Consoles : Open(c) \/ Poll(c) \/ Show(c) \/ Acknowledge(c) \/ Close(c)
  \/ \E id \in 1 .. MaxNotices : AcknowledgeByHand(id)
  \/ CleanNotices

NoticeSpec == NoticeInit /\ [][NoticeNext]_noticeVars

-----------------------------------------------------------------------------
(* Properties.                                                             *)

NoticeTypeOK ==
  /\ notifier \in Notified \cup {"queued", "running"}
  /\ inbox \in Seq([kind : (Notified \ {"waiting_approval"}) \cup {"approval_required", "retry_exhausted"},
                    read : BOOLEAN, gone : BOOLEAN])
  /\ \A c \in Consoles :
       /\ console[c].phase \in {"closed", "poll", "show", "ack"}
       /\ {console[c].cursor, console[c].pending} \subseteq 0 .. Len(inbox)
       /\ console[c].batch \subseteq DOMAIN inbox
       /\ printed[c] \in Seq(DOMAIN inbox)
  /\ noticed \subseteq DOMAIN inbox /\ failures \in 0 .. MaxFailures

(* A session prints the items in the order of their ids and none twice,    *)
(* whatever prints and acknowledgements fail (docs/operations.md: "the     *)
(* task retries without printing the item again").                         *)
PrintedInOrder == \A c \in Consoles : \A i, k \in DOMAIN printed[c] : i < k => printed[c][i] < printed[c][k]

(* An item is acknowledged or deleted only if somebody was shown it, or if *)
(* it asks for an approval nobody waits for any more ("unread              *)
(* notifications remain available regardless of age").                     *)
NoneSwallowed ==
  \A i \in DOMAIN inbox :
    inbox[i].read \/ inbox[i].gone => i \in noticed \/ inbox[i].kind = "approval_required"

(* Every console prints in order, and nothing goes unseen.                 *)
NoticesReach == PrintedInOrder /\ NoneSwallowed
=============================================================================
