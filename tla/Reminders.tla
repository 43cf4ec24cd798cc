----------------------------- MODULE Reminders -----------------------------
(***************************************************************************)
(* Personal tasks, reminders and their delivery: the methods of TaskStore. *)
(* A reminder without a delivery target is announced by a CLI, one with a  *)
(* target by a sender of its platform, which claims it, asks once more     *)
(* whether it is still wanted, sends it, and reports.  Reports name the    *)
(* reminder and not the claim, and a claim that is not reported is taken   *)
(* over by the next sender when it has gone stale.                         *)
(*                                                                         *)
(* Time is counted in units of which a day has DayLength.                  *)
(***************************************************************************)
EXTENDS Integers, FiniteSets

CONSTANTS
  ReminderIds,   \* the reminders users may create
  Targeted,      \* those created with a delivery target
  TitleOf,       \* TitleOf[r]
  TaskIds,       \* the tasks users may create, of one title
  Senders,       \* processes that deliver to the target's platform
  Announcers,    \* CLIs that announce reminders without a target
  DayLength,
  RetryDelay,    \* defaults of fail_reminder_delivery ...
  MaxAttempts,
  StaleAfter,    \* ... and of claim_due_reminder_deliveries
  LastInstant,   \* bound: the clock stops here
  MaxMoves,      \* bound: how often one reminder is rescheduled
  MaxErrors      \* bound: sends that fail and senders that die

ASSUME ReminderAssumption ==
  /\ Targeted \subseteq ReminderIds
  /\ TitleOf \in [ReminderIds -> STRING]
  /\ DayLength \in Nat \ {0}
  /\ IsFiniteSet(Senders)
  /\ RetryDelay \in Nat /\ MaxAttempts \in Nat /\ StaleAfter \in Nat
  /\ LastInstant \in Nat /\ MaxMoves \in Nat /\ MaxErrors \in Nat

VARIABLES
  instant,     \* datetime.now
  tasks,       \* assistant_tasks: the status of each task
  reminders,   \* reminders: status and remind_at
  deliveries,  \* reminder_deliveries: status, attempt_count, retry_at, updated_at
  claims,      \* claims[s]: the deliveries sender s has claimed and not settled
  sending,     \* sending[s]: what it does with one of them
  listed,      \* listed[a]: the reminders a CLI has selected and not yet marked
  moves,       \* ghost: how often a reminder was rescheduled
  shown,       \* ghost: how often it was shown since it was last scheduled
  doubts,      \* ghost: claims taken over or settled by another since then
  errors       \* counts what MaxErrors bounds

storeVars    == <<tasks, reminders, deliveries>>
senderVars   == <<claims, sending>>
ghostVars    == <<moves, shown, doubts>>
reminderVars == <<instant, storeVars, senderVars, listed, ghostVars, errors>>

NoTime == -1
NoReminder == [status |-> "new", at |-> NoTime]
NoDelivery == [status |-> "none", count |-> 0, retryAt |-> NoTime, updated |-> NoTime]
Pending(time) == [status |-> "pending", count |-> 0, retryAt |-> NoTime, updated |-> time]
Resting == [phase |-> "rest"]

RemindersInit ==
  /\ instant = 0
  /\ tasks = [k \in TaskIds |-> "new"]
  /\ reminders = [r \in ReminderIds |-> NoReminder]
  /\ deliveries = [r \in ReminderIds |-> NoDelivery]
  /\ claims = [s \in Senders |-> {}]
  /\ sending = [s \in Senders |-> Resting]
  /\ listed = [a \in Announcers |-> {}]
  /\ moves = [r \in ReminderIds |-> 0]
  /\ shown = [r \in ReminderIds |-> 0]
  /\ doubts = [r \in ReminderIds |-> 0]
  /\ errors = 0

-----------------------------------------------------------------------------
(* Tasks.                                                                  *)

CreateTask(k) ==
  /\ tasks[k] = "new"
  /\ tasks' = [tasks EXCEPT ![k] = "open"]
  /\ UNCHANGED <<instant, reminders, deliveries, senderVars, listed, ghostVars, errors>>

CompleteTask(k) ==
  /\ tasks[k] = "open"
  /\ tasks' = [tasks EXCEPT ![k] = "completed"]
  /\ UNCHANGED <<instant, reminders, deliveries, senderVars, listed, ghostVars, errors>>

\* By its id, or by its title if that names one open task.
RemoveTask(k, byTitle) ==
  /\ tasks[k] = "open"
  /\ byTitle => {l \in TaskIds : tasks[l] = "open"} = {k}
  /\ tasks' = [tasks EXCEPT ![k] = "removed"]
  /\ UNCHANGED <<instant, reminders, deliveries, senderVars, listed, ghostVars, errors>>

-----------------------------------------------------------------------------
(* Users and reminders.                                                    *)

\* The next time after "time" at which the clock shows "hour".
NextClockTime(hour, time) ==
  LET today == (time \div DayLength) * DayLength + hour
  IN IF today > time THEN today ELSE today + DayLength

\* The rows of new reminders, and of their deliveries where they have a target.
CreateReminders(at) ==
  /\ \A r \in DOMAIN at : reminders[r].status = "new" /\ at[r] > instant
  /\ reminders' = [r \in ReminderIds |->
       IF r \in DOMAIN at THEN [status |-> "scheduled", at |-> at[r]] ELSE reminders[r]]
  /\ deliveries' = [r \in ReminderIds |->
       IF r \in DOMAIN at \cap Targeted THEN Pending(instant) ELSE deliveries[r]]
  /\ UNCHANGED <<instant, tasks, senderVars, listed, ghostVars, errors>>

CreateRelativeReminder(r, minutes) == CreateReminders([x \in {r} |-> instant + minutes])

\* One reminder for each of several clock times, all or none; of equal title.
CreateClockReminders(hours) ==
  /\ \A r, o \in DOMAIN hours :
       /\ r # o => hours[r] # hours[o]
       /\ TitleOf[r] = TitleOf[o] /\ (r \in Targeted <=> o \in Targeted)
  /\ CreateReminders([r \in DOMAIN hours |-> NextClockTime(hours[r], instant)])

\* Is somebody at work on r as it was scheduled until now?
InFlight(r) ==
  \/ \E a \in Announcers : \E c \in listed[a] : c.reminder = r
  \/ \E s \in Senders : \E c \in claims[s] : c.reminder = r

\* A move gives the ghosts a fresh start; one under somebody's hands is a doubt.
Reschedule(r, at) ==
  /\ reminders[r].status \notin {"new", "removed"}
  /\ at > instant
  /\ moves[r] < MaxMoves
  /\ reminders' = [reminders EXCEPT ![r] = [status |-> "scheduled", at |-> at]]
  /\ deliveries' = IF r \in Targeted THEN [deliveries EXCEPT ![r] = Pending(instant)] ELSE deliveries
  /\ moves' = [moves EXCEPT ![r] = @ + 1]
  /\ shown' = [shown EXCEPT ![r] = 0]
  /\ doubts' = [doubts EXCEPT ![r] = IF InFlight(r) THEN 1 ELSE 0]
  /\ UNCHANGED <<instant, tasks, senderVars, listed, errors>>

CancelReminder(r) ==
  /\ reminders[r].status = "scheduled"
  /\ reminders' = [reminders EXCEPT ![r].status = "cancelled"]
  /\ deliveries' = IF r \in Targeted
                   THEN [deliveries EXCEPT ![r] = [@ EXCEPT !.status = "failed", !.retryAt = NoTime,
                                                            !.updated = instant]]
                   ELSE deliveries
  /\ UNCHANGED <<instant, tasks, senderVars, listed, ghostVars, errors>>

\* Is r the only scheduled reminder of its title?
Unambiguous(r) ==
  {o \in ReminderIds : reminders[o].status = "scheduled" /\ TitleOf[o] = TitleOf[r]} = {r}

CancelReminderByTitle(r) == Unambiguous(r) /\ CancelReminder(r)

\* The delivery goes with its reminder (ON DELETE CASCADE).
RemoveReminder(r, byTitle) ==
  /\ reminders[r].status = "scheduled"
  /\ byTitle => Unambiguous(r)
  /\ reminders' = [reminders EXCEPT ![r] = [status |-> "removed", at |-> NoTime]]
  /\ deliveries' = [deliveries EXCEPT ![r] = NoDelivery]
  /\ UNCHANGED <<instant, tasks, senderVars, listed, ghostVars, errors>>

-----------------------------------------------------------------------------
(* Announcements: claim_due_reminders reads the rows outside of the        *)
(* transaction that marks them.                                            *)

Owed(r) == reminders[r].status = "scheduled" /\ reminders[r].at <= instant

SelectDue(a) ==
  /\ listed[a] = {}
  /\ listed' = [listed EXCEPT ![a] =
       {[reminder |-> r, at |-> reminders[r].at] : r \in {x \in ReminderIds \ Targeted : Owed(x)}}]
  /\ listed'[a] # {}
  /\ UNCHANGED <<instant, storeVars, senderVars, ghostVars, errors>>

\* The rows that the guarded updates change.
StillScheduled(a) == {c.reminder : c \in {d \in listed[a] : reminders[d.reminder].status = "scheduled"}}

\* The updates are one transaction; what they changed is announced after it,
\* unless the CLI ends in between.
MarkAndAnnounce(a) ==
  /\ listed[a] # {}
  /\ reminders' = [r \in ReminderIds |->
       IF r \in StillScheduled(a) THEN [reminders[r] EXCEPT !.status = "delivered"] ELSE reminders[r]]
  /\ \/ /\ shown' = [r \in ReminderIds |-> IF r \in StillScheduled(a) THEN shown[r] + 1 ELSE shown[r]]
        /\ UNCHANGED errors
     \/ /\ errors < MaxErrors
        /\ errors' = errors + 1
        /\ UNCHANGED shown
  /\ listed' = [listed EXCEPT ![a] = {}]
  /\ UNCHANGED <<instant, tasks, deliveries, senderVars, moves, doubts>>

-----------------------------------------------------------------------------
(* Deliveries.                                                             *)

Stale(r) == deliveries[r].status = "sending" /\ deliveries[r].updated + StaleAfter <= instant

\* Mutant: what another sender is sending may be claimed at any time.
ClaimableBySending(r) ==
  /\ Owed(r)
  /\ \/ deliveries[r].status \in {"pending", "sending"}
     \/ deliveries[r].status = "retrying" /\ deliveries[r].retryAt <= instant

Claimable(r) ==
  /\ Owed(r)
  /\ \/ deliveries[r].status = "pending"
     \/ deliveries[r].status = "retrying" /\ deliveries[r].retryAt <= instant
     \/ Stale(r)

\* claim_due_reminder_deliveries; a sender claims when it has settled what it had.
ClaimDeliveries(s) ==
  LET mine == {r \in Targeted : Claimable(r)} IN
  /\ claims[s] = {} /\ mine # {}
  /\ deliveries' = [r \in ReminderIds |->
       IF r \in mine
       THEN [status |-> "sending", count |-> deliveries[r].count + 1, retryAt |-> NoTime, updated |-> instant]
       ELSE deliveries[r]]
  /\ claims' = [claims EXCEPT ![s] = {[reminder |-> r, at |-> reminders[r].at] : r \in mine}]
  /\ doubts' = [r \in ReminderIds |-> IF r \in mine /\ Stale(r) THEN doubts[r] + 1 ELSE doubts[r]]
  /\ UNCHANGED <<instant, tasks, reminders, sending, listed, moves, shown, errors>>

\* reminder_delivery_is_current
IsCurrent(c) ==
  /\ reminders[c.reminder] = [status |-> "scheduled", at |-> c.at]
  /\ deliveries[c.reminder].status = "sending"

\* The last look before the send; what is not wanted any more is dropped.
Revalidate(s, c) ==
  /\ sending[s] = Resting /\ c \in claims[s]
  /\ IF IsCurrent(c)
     THEN sending' = [sending EXCEPT ![s] = [phase |-> "send", claim |-> c]] /\ UNCHANGED claims
     ELSE claims' = [claims EXCEPT ![s] = @ \ {c}] /\ UNCHANGED sending
  /\ UNCHANGED <<instant, storeVars, listed, ghostVars, errors>>

\* The platform's answer.  What goes out counts for the time it was claimed for.
Send(s) ==
  /\ sending[s].phase = "send"
  /\ LET c == sending[s].claim IN
     \/ /\ sending' = [sending EXCEPT ![s] = [phase |-> "sent", claim |-> c]]
        /\ shown' = IF reminders[c.reminder].at = c.at THEN [shown EXCEPT ![c.reminder] = @ + 1] ELSE shown
        /\ UNCHANGED errors
     \/ /\ errors < MaxErrors
        /\ errors' = errors + 1
        /\ sending' = [sending EXCEPT ![s] = [phase |-> "error", claim |-> c]]
        /\ UNCHANGED shown
  /\ UNCHANGED <<instant, storeVars, claims, listed, moves, doubts>>

\* Is a report of claim c a report on a later claim, or on a later time?
Astray(s, c) ==
  \/ reminders[c.reminder].at # c.at
  \/ \E o \in Senders \ {s} : c \in claims[o]

Settle(s, c) ==
  /\ claims' = [claims EXCEPT ![s] = @ \ {c}]
  /\ sending' = [sending EXCEPT ![s] = Resting]

\* complete_reminder_delivery: it asks only that somebody be sending.
CompleteDelivery(s) ==
  /\ sending[s].phase = "sent"
  /\ LET c == sending[s].claim
         r == c.reminder
     IN /\ IF deliveries[r].status = "sending"
           THEN /\ deliveries' = [deliveries EXCEPT ![r] = [@ EXCEPT !.status = "delivered", !.updated = instant]]
                /\ reminders' = IF reminders[r].status = "scheduled"
                                THEN [reminders EXCEPT ![r].status = "delivered"] ELSE reminders
                /\ doubts' = IF Astray(s, c) THEN [doubts EXCEPT ![r] = @ + 1] ELSE doubts
           ELSE UNCHANGED <<deliveries, reminders, doubts>>
        /\ Settle(s, c)
  /\ UNCHANGED <<instant, tasks, listed, moves, shown, errors>>

\* fail_reminder_delivery reads the number of attempts ...
ReadAttempts(s) ==
  /\ sending[s].phase = "error"
  /\ LET c == sending[s].claim
         d == deliveries[c.reminder]
     IN IF d.status = "sending"
        THEN /\ sending' = [sending EXCEPT ![s] =
                  [phase |-> "fail", claim |-> c, last |-> d.count >= MaxAttempts, current |-> instant]]
             /\ UNCHANGED claims
        ELSE Settle(s, c)
  /\ UNCHANGED <<instant, storeVars, listed, ghostVars, errors>>

\* ... and writes the verdict if somebody is sending still.
FailDelivery(s) ==
  /\ sending[s].phase = "fail"
  /\ LET c == sending[s].claim
         r == c.reminder
     IN /\ IF deliveries[r].status = "sending"
           THEN /\ deliveries' = [deliveries EXCEPT ![r] =
                     [@ EXCEPT !.status = IF sending[s].last THEN "failed" ELSE "retrying",
                               !.retryAt = IF sending[s].last THEN NoTime ELSE sending[s].current + RetryDelay,
                               !.updated = sending[s].current]]
                /\ doubts' = IF Astray(s, c) THEN [doubts EXCEPT ![r] = @ + 1] ELSE doubts
           ELSE UNCHANGED <<deliveries, doubts>>
        /\ Settle(s, c)
  /\ UNCHANGED <<instant, tasks, reminders, listed, moves, shown, errors>>

\* A sender dies; its claims stay "sending" until they are stale.
SenderDies(s) ==
  /\ claims[s] # {} /\ errors < MaxErrors
  /\ errors' = errors + 1
  /\ claims' = [claims EXCEPT ![s] = {}]
  /\ sending' = [sending EXCEPT ![s] = Resting]
  /\ UNCHANGED <<instant, storeVars, listed, ghostVars>>

TimePasses ==
  /\ instant < LastInstant
  /\ instant' = instant + 1
  /\ UNCHANGED <<storeVars, senderVars, listed, ghostVars, errors>>

-----------------------------------------------------------------------------
\* Tasks and reminders share no row.
AssistantTaskStep ==
  \E k \in TaskIds : CreateTask(k) \/ CompleteTask(k) \/ \E b \in BOOLEAN : RemoveTask(k, b)

UserStep ==
  \/ \E r \in ReminderIds :
       \/ \E minutes \in 1 .. DayLength : CreateRelativeReminder(r, minutes)
       \/ \E at \in 1 .. LastInstant : Reschedule(r, at)
       \/ CancelReminder(r)
       \/ CancelReminderByTitle(r)
       \/ \E b \in BOOLEAN : RemoveReminder(r, b)
  \/ \E batch \in (SUBSET ReminderIds) \ {{}} :
       \E hours \in [batch -> 0 .. DayLength - 1] : CreateClockReminders(hours)

DeliveryStep ==
  \/ \E a \in Announcers : SelectDue(a) \/ MarkAndAnnounce(a)
  \/ \E s \in Senders :
       \/ ClaimDeliveries(s)
       \/ \E c \in claims[s] : Revalidate(s, c)
       \/ Send(s) \/ CompleteDelivery(s) \/ ReadAttempts(s) \/ FailDelivery(s) \/ SenderDies(s)

ReminderStep == UserStep \/ DeliveryStep \/ TimePasses

RemindersNext == AssistantTaskStep \/ ReminderStep

RemindersSpec == RemindersInit /\ [][RemindersNext]_reminderVars

-----------------------------------------------------------------------------
(* Properties.                                                             *)

ClaimType == [reminder : ReminderIds, at : Nat]

RemindersTypeOK ==
  /\ instant \in Nat
  /\ tasks \in [TaskIds -> {"new", "open", "completed", "removed"}]
  /\ reminders \in [ReminderIds ->
       [status : {"new", "scheduled", "delivered", "cancelled", "removed"}, at : Nat \cup {NoTime}]]
  /\ deliveries \in [ReminderIds ->
       [status : {"none", "pending", "sending", "retrying", "failed", "delivered"},
        count : Nat, retryAt : Nat \cup {NoTime}, updated : Nat \cup {NoTime}]]
  /\ claims \in [Senders -> SUBSET ClaimType]
  /\ listed \in [Announcers -> SUBSET ClaimType]
  /\ \A s \in Senders : sending[s] = Resting \/ sending[s].claim \in claims[s]
  /\ moves \in [ReminderIds -> Nat] /\ shown \in [ReminderIds -> Nat] /\ doubts \in [ReminderIds -> Nat]
  /\ errors \in Nat

(* A reminder is shown at most once for the time it is scheduled for, and  *)
(* once more for each claim of it that went stale or was settled by the    *)
(* report of another claim (claim_due_reminder_deliveries).                *)
ShownOnce == \A r \in ReminderIds : shown[r] <= 1 + doubts[r]

(* A reminder with a target that the table says was delivered has been     *)
(* shown since it was last scheduled, unless it was moved while somebody   *)
(* was delivering it or a report went astray; and the two tables agree:    *)
(* only a scheduled reminder is pending, being sent or retried, and a      *)
(* delivery is over exactly when its reminder is                           *)
(* (complete_reminder_delivery, cancel_reminder, reschedule_reminder).     *)
DeliveriesTrue ==
  \A r \in Targeted :
    /\ reminders[r].status = "delivered" => shown[r] + doubts[r] > 0
    /\ deliveries[r].status \in {"pending", "sending", "retrying"} => reminders[r].status = "scheduled"
    /\ deliveries[r].status = "delivered" <=> reminders[r].status = "delivered"

(* A reminder reaches its user as often as the tables say, and no oftener. *)
RemindersReach == ShownOnce /\ DeliveriesTrue
=============================================================================
