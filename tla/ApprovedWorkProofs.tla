------------------------- MODULE ApprovedWorkProofs -------------------------
(***************************************************************************)
(* Theorems about ApprovedWork, for any set of requests and contents, any  *)
(* limits and any number of attempts, edits and faults.                    *)
(***************************************************************************)
EXTENDS ApprovedWork, SequenceTheorems, TLAPS

\* Somebody's decision is written.
Decision == \E d \in decisions : Decide(d)

-----------------------------------------------------------------------------
(* Data.                                                                   *)

LEMMA ActionKinds ==
  /\ \A a \in Actions \cup {NoAction} : IsWrite(a) <=> a \in Writes
  /\ \A a \in Writes : a.before \in Contents /\ a.after \in Contents
  BY DEF Actions, Writes, Commands, Write, Command, IsWrite, NoAction

LEMMA CallTypes ==
  /\ NoCall \in Calls
  /\ \A a \in Actions, n \in Nat : [action |-> a, stamp |-> n, id |-> NoId] \in Calls
  /\ \A c \in Calls, i \in Ids : [c EXCEPT !.id = i] \in Calls
  BY DEF NoCall, Calls

LEMMA DecisionTypes ==
  \A i \in Ids, b \in BOOLEAN, n \in Nat :
    [id |-> i, approve |-> b, stamp |-> n] \in Decisions
  BY DEF Decisions

LEMMA RowTypes ==
  /\ \A r \in Rows, s \in RequestStatus : [r EXCEPT !.status = s] \in Rows
  /\ \A a \in Actions \cup {NoAction}, n \in Nat, s \in RequestStatus :
       [status |-> s, action |-> a, expires |-> n] \in Rows
  BY DEF Rows

LEMMA EventTypes ==
  ASSUME TypeOK
  PROVE  \A ok \in BOOLEAN : Event(ok) \in Events
<1>1. Len(changes) \in Nat
  BY LenProperties DEF TypeOK
<1> QED
  BY <1>1 DEF Event, Events, TypeOK

LEMMA SweptTypes ==
  ASSUME TypeOK
  PROVE  \A S \in SUBSET Ids, n \in Nat : Swept(S, n) \in [Ids -> Rows]
  BY RowTypes DEF Swept, TypeOK, RequestStatus

-----------------------------------------------------------------------------
(* Type correctness.                                                       *)

LEMMA InitTypes == Init => TypeOK
<1> SUFFICES ASSUME Init PROVE TypeOK
  OBVIOUS
<1>1. requests \in [Ids -> Rows]
  BY RowTypes DEF Init, RequestStatus
<1>2. effects \in [Ids -> Seq(Actions)] /\ changes \in Seq(Writes) /\ commands \in Seq(Events)
  BY DEF Init
<1> QED
  BY <1>1, <1>2, CallTypes DEF Init, TypeOK, Statuses

\* A tool call is about an action.
CallOK == pc \in {"ask", "act", "audit"} => call.action \in Actions

LEMMA NextCall ==
  ASSUME TypeOK, CallOK, [Next]_vars
  PROVE  CallOK'
<1>1. CASE execVars' = execVars
  BY <1>1 DEF CallOK, execVars
<1>2. CASE pc' \in {"idle", "begin", "think", "dead"}
  BY <1>2 DEF CallOK
<1>3. ASSUME NEW a \in Actions, Propose(a)
      PROVE  CallOK'
  BY <1>3 DEF Propose, CallOK
<1>4. ASSUME NEW i \in Ids, Authorize(i)
      PROVE  CallOK'
  BY <1>4 DEF Authorize, CallOK, TypeOK, Calls
<1>5. CASE Perform
  BY <1>5 DEF Perform, CallOK
<1>6. Leave => pc' \in {"idle", "begin", "think", "dead"}
  BY DEF Leave
<1>7. CASE Attempt
  BY <1>1, <1>2, <1>3, <1>4, <1>5, <1>6, <1>7
     DEF Attempt, Claim, Begin, NoticeCancel, Request, Refuse, RecordWrite,
         RecordCommand, KillCommand, AuditFails, Finish, End
<1>8. CASE GiveUp
  BY <1>1, <1>2, <1>6, <1>8 DEF GiveUp
<1>9. CASE Crash \/ Recover
  BY <1>2, <1>6, <1>9 DEF Crash, Recover
<1>10. [Next]_vars => \/ Attempt \/ GiveUp \/ Crash \/ Recover
                      \/ execVars' = execVars
  BY DEF Next, Resume, RetryTrigger, Cancel, Choose, Decide, Edit, Tick, execVars,
         vars
<1> QED
  BY <1>1, <1>7, <1>8, <1>9, <1>10

LEMMA NextTypes ==
  ASSUME TypeOK, CallOK, [Next]_vars
  PROVE  TypeOK'
<1> USE DEF TypeOK, Statuses, jobVars, logVars, execVars, envVars, ghosts
<1>1. Leave => call' \in Calls /\ pc' = "idle"
  BY CallTypes DEF Leave
<1>2. \A s \in Statuses : Settle(s) => status' \in Statuses
  BY DEF Settle
<1>3. ASSUME Claim PROVE TypeOK'
  BY <1>3 DEF Claim
<1>4. ASSUME Begin PROVE TypeOK'
  BY <1>4, <1>1, <1>2 DEF Begin
<1>5. ASSUME NoticeCancel PROVE TypeOK'
  BY <1>5, <1>1 DEF NoticeCancel
<1>6. ASSUME NEW a \in Actions, Propose(a)
       PROVE  TypeOK'
  BY <1>6, CallTypes DEF Propose
<1>7. ASSUME NEW i \in Ids, Authorize(i)
       PROVE  TypeOK'
  <2>1. call \in Calls /\ call.stamp \in Nat
    BY DEF Calls
  <2>2. Swept(Active \ {i}, call.stamp) \in [Ids -> Rows]
    BY <2>1, SweptTypes DEF Active
  <2>3. requests' \in [Ids -> Rows]
    BY <1>7, <2>2, RowTypes DEF Authorize, RequestStatus
  <2>4. call' \in Calls
    BY <1>7, <2>1, CallTypes DEF Authorize
  <2> QED
    BY <1>7, <2>1, <2>2, <2>3, <2>4 DEF Authorize
<1>8. ASSUME NEW i \in Ids, Request(i)
       PROVE  TypeOK'
  <2>1. call \in Calls /\ call.stamp \in Nat /\ call.action \in Actions \cup {NoAction}
    BY DEF Calls
  <2>2. call.stamp + TTL \in Nat
    BY <2>1, WorkAssumption
  <2>3. \A S \in SUBSET Active : Swept(S, call.stamp) \in [Ids -> Rows]
    BY <2>1, SweptTypes DEF Active
  <2>4. requests' \in [Ids -> Rows]
    BY <1>8, <2>1, <2>2, <2>3, RowTypes DEF Request, RequestStatus
  <2> QED
    BY <1>8, <2>1, <2>2, <2>3, <2>4, <1>1 DEF Request
<1>9. ASSUME Refuse PROVE TypeOK'
  BY <1>9, <1>1 DEF Refuse
<1>10. ASSUME Perform PROVE TypeOK'
  <2>1. call.action \in Actions
    BY <1>10 DEF Perform, CallOK
  <2>2. \A i \in Ids : Append(effects[i], call.action) \in Seq(Actions)
    BY <2>1, AppendProperties
  <2>3. effects' \in [Ids -> Seq(Actions)]
    BY <1>10, <2>2 DEF Perform
  <2>4. IsWrite(call.action) => call.action.after \in Contents
    BY <2>1, ActionKinds
  <2> QED
    BY <1>10, <2>1, <2>2, <2>3, <2>4 DEF Perform
<1>11. ASSUME RecordWrite PROVE TypeOK'
  <2>1. call.action \in Writes
    BY <1>11, ActionKinds DEF RecordWrite, Calls
  <2>2. changes' \in Seq(Writes)
    BY <1>11, <2>1 DEF RecordWrite
  <2> QED
    BY <1>11, <2>1, <2>2, CallTypes DEF RecordWrite
<1>12. ASSUME NEW ok \in BOOLEAN, RecordCommand(ok)
       PROVE  TypeOK'
  <2>1. commands' \in Seq(Events)
    BY <1>12, EventTypes DEF RecordCommand
  <2>2. dirty' \in BOOLEAN
    BY <1>12, Zenon DEF RecordCommand
  <2> QED
    BY <1>12, <2>1, <2>2, CallTypes DEF RecordCommand
<1>13. ASSUME NEW s \in Ends, KillCommand(s)
       PROVE  TypeOK'
  <2>1. Event(FALSE) \in Events
    BY EventTypes
  <2>2. commands' \in Seq(Events)
    BY <1>13, <2>1, AppendProperties DEF KillCommand
  <2>3. status' \in Statuses
    BY <1>13, <1>2 DEF KillCommand, Ends
  <2> QED
    BY <1>13, <2>1, <2>2, <2>3, <1>1 DEF KillCommand
<1>14. ASSUME AuditFails PROVE TypeOK'
  BY <1>14, CallTypes DEF AuditFails
<1>15. ASSUME Finish PROVE TypeOK'
  BY <1>15, <1>1, <1>2 DEF Finish
<1>16. ASSUME NEW s \in Ends, End(s)
       PROVE  TypeOK'
  BY <1>16, <1>1, <1>2 DEF End, Ends
<1>17. ASSUME Crash PROVE TypeOK'
  BY <1>17, CallTypes DEF Crash
<1>18. ASSUME Recover PROVE TypeOK'
  BY <1>18, <1>1, <1>2 DEF Recover
<1>19. ASSUME Resume PROVE TypeOK'
  BY <1>19 DEF Resume, Requeue
<1>20. ASSUME RetryTrigger PROVE TypeOK'
  BY <1>20 DEF RetryTrigger, Requeue
<1>21. ASSUME Cancel PROVE TypeOK'
  <2>1. requests' \in [Ids -> Rows]
    BY <1>21, RowTypes DEF Cancel, RequestStatus
  <2> QED
    BY <1>21, <2>1 DEF Cancel
<1>22. ASSUME NEW d \in decisions, Decide(d)
       PROVE  TypeOK'
  <2>1. d.id \in Ids
    BY DEF Decisions
  <2>2. \A s \in RequestStatus : Decided(d.id, s) \in [Ids -> Rows]
    BY <2>1, RowTypes DEF Decided
  <2>3. requests' \in [Ids -> Rows] /\ decisions' \subseteq Decisions
    BY <1>22, <2>2 DEF Decide, RequestStatus
  <2>4. status' \in Statuses
    BY <1>22 DEF Decide, Requeue
  <2> QED
    BY <1>22, <2>3, <2>4 DEF Decide
<1>23. ASSUME NEW i \in Ids, NEW approve \in BOOLEAN, Choose(i, approve)
       PROVE  TypeOK'
  BY <1>23, DecisionTypes DEF Choose
<1>24. ASSUME NEW c \in Contents, Edit(c)
       PROVE  TypeOK'
  BY <1>24 DEF Edit
<1>25. ASSUME Tick PROVE TypeOK'
  BY <1>25 DEF Tick
<1>26. ASSUME GiveUp PROVE TypeOK'
  BY <1>26, <1>1, <1>2, DecisionTypes DEF GiveUp
<1>27. CASE UNCHANGED vars
  BY <1>27 DEF vars
<1> QED
  BY <1>3, <1>4, <1>5, <1>6, <1>7, <1>8, <1>9, <1>10, <1>11, <1>12, <1>13, <1>14,
         <1>15, <1>16, <1>17, <1>18, <1>19, <1>20, <1>21, <1>22, <1>23, <1>24, <1>25, <1>26, <1>27 DEF Next, Attempt
-----------------------------------------------------------------------------
(* Clocks that were read, and what happened since.                         *)

\* Nobody has been waiting for the lock for longer than Lag.
ClockInv ==
  /\ pc = "ask" => now <= call.stamp + Lag
  /\ \A d \in decisions : now <= d.stamp + Lag

LEMMA NextClockInv ==
  ASSUME TypeOK, ClockInv, [Next]_vars
  PROVE  ClockInv'
<1> DEFINE Asks    == pc' = "ask" => UNCHANGED execVars \/ \E a \in Actions : Propose(a)
           Decides == \/ decisions' \subseteq decisions
                      \/ \E i \in Ids, approve \in BOOLEAN : Choose(i, approve)
<1>1. /\ now \in Nat /\ Lag \in Nat /\ call.stamp \in Nat
      /\ \A d \in decisions : d.stamp \in Nat
  BY WorkAssumption DEF TypeOK, Calls, Decisions
<1>2. CASE Tick
  BY <1>1, <1>2 DEF Tick, ClockInv, execVars
<1>3. Attempt => Asks /\ Decides /\ now' = now
  BY DEF Attempt, Claim, Begin, NoticeCancel, Request, Refuse, RecordWrite, Propose,
         RecordCommand, KillCommand, AuditFails, Finish, End, Leave, Authorize, Perform
<1>4. Crash \/ Recover \/ Resume \/ RetryTrigger \/ Cancel \/ Decision \/ GiveUp
        => Asks /\ Decides /\ now' = now
  BY DEF Crash, Recover, Resume, RetryTrigger, Cancel, Decide, Decision, GiveUp, Leave
<1>5. (\E c \in Contents : Edit(c)) => Asks /\ Decides /\ now' = now
  BY DEF Edit
<1>6. (\E i \in Ids, approve \in BOOLEAN : Choose(i, approve))
        => Asks /\ Decides /\ now' = now
  BY DEF Choose
<1>7. UNCHANGED vars => Asks /\ Decides /\ now' = now
  BY DEF vars, execVars
<1>8. ASSUME Asks, now' = now
      PROVE  pc' = "ask" => now' <= call'.stamp + Lag
  BY <1>1, <1>8 DEF ClockInv, execVars, Propose
<1>9. ASSUME Decides, now' = now
      PROVE  \A d \in decisions' : now' <= d.stamp + Lag
  BY <1>1, <1>9 DEF ClockInv, Choose
<1> QED
  BY <1>2, <1>3, <1>4, <1>5, <1>6, <1>7, <1>8, <1>9 DEF Next, ClockInv, Decision

-----------------------------------------------------------------------------
(* The requests and the status that goes with them.                        *)

\* At most one request is pending or approved: requesting sweeps the others.
OneActive == \A i, k \in Active : i = k

ReqInv == OneActive /\ WaitingHasRequest /\ CancelRevokes

\* A step that leaves the requests alone and neither starts nor ends a wait.
Quiet == /\ requests' = requests
         /\ \/ status' = status
            \/ {status, status'} \cap {"waiting_approval", "cancelled"} = {}

LEMMA QuietSteps ==
  ASSUME [Next]_vars
  PROVE  Quiet \/ Cancel \/ Decision \/ \E i \in Ids : Authorize(i) \/ Request(i)
<1> USE DEF Quiet, jobVars
<1>1. \A s : Settle(s) /\ s \notin {"waiting_approval", "cancelled"}
        => status' = status \/ {status, status'} \cap {"waiting_approval", "cancelled"} = {}
  BY DEF Settle
<1>2. CASE Attempt
  BY <1>1, <1>2
     DEF Attempt, Claim, Begin, NoticeCancel, Propose, Refuse, Perform, RecordWrite,
         RecordCommand, KillCommand, AuditFails, Finish, End, Ends
<1>3. CASE Crash \/ Recover \/ Resume \/ RetryTrigger \/ Tick \/ GiveUp
  BY <1>1, <1>3 DEF Crash, Recover, Resume, RetryTrigger, Tick, GiveUp, Requeue
<1>4. ASSUME NEW i \in Ids, NEW approve \in BOOLEAN, Choose(i, approve)
      PROVE  Quiet
  BY <1>4 DEF Choose
<1>5. ASSUME NEW c \in Contents, Edit(c)
      PROVE  Quiet
  BY <1>5 DEF Edit
<1> QED
  BY <1>2, <1>3, <1>4, <1>5 DEF Next, Decision, vars

\* While at most one request is active, sweeping the others changes nothing.
LEMMA SweepsNothing ==
  ASSUME TypeOK, OneActive, NEW i \in Active
  PROVE  Swept(Active \ {i}, call.stamp) = requests
<1>1. Active \ {i} = {}
  BY DEF OneActive
<1> QED
  BY <1>1 DEF Swept, TypeOK

\* What the four steps that touch the requests do to them.
LEMMA AuthorizeChanges ==
  ASSUME TypeOK, OneActive, NEW i \in Ids, Authorize(i)
  PROVE  /\ requests' = [requests EXCEPT ![i].status = "consumed"]
         /\ Approved(i) /\ requests[i].expires > call.stamp
         /\ requests[i].action = call.action
         /\ status = "running" /\ status' = status
<1>1. i \in Active
  BY DEF Authorize, Active
<1>2. requests[i].expires \in Nat /\ call.stamp \in Nat
  BY DEF TypeOK, Rows, Calls
<1> QED
  BY <1>1, <1>2, SweepsNothing DEF Authorize, Matching, Expired, jobVars

LEMMA RequestChanges ==
  ASSUME TypeOK, OneActive, NEW i \in Ids, Request(i)
  PROVE  /\ status = "running" /\ status' = "waiting_approval"
         /\ \/ requests' = requests /\ Pending(i)
            \/ /\ requests[i].status = "none"
               /\ requests' = [Swept(Active, call.stamp) EXCEPT
                     ![i] = [status |-> "pending", action |-> call.action,
                             expires |-> call.stamp + TTL]]
<1>1. CASE Matching = {}
  BY <1>1 DEF Request
<1>2. CASE Matching # {}
  <2>1. i \in Active /\ ~Approved(i)
    BY <1>2 DEF Request, Matching
  <2> QED
    BY <1>2, <2>1, SweepsNothing DEF Request, Active
<1> QED
  BY <1>1, <1>2

LEMMA DecideChanges ==
  ASSUME TypeOK, NEW d \in decisions, Decide(d)
  PROVE  \/ UNCHANGED <<status, requests>>
         \/ /\ d.id \in Ids /\ Pending(d.id)
            /\ status = "waiting_approval"
            /\ \/ status' = "queued" /\ requests' = Decided(d.id, "expired")
               \/ /\ status' = "queued" /\ requests' = Decided(d.id, "approved")
                  /\ requests[d.id].expires > d.stamp
               \/ status' = "blocked" /\ requests' = Decided(d.id, "rejected")
<1>1. d.id \in Ids /\ d.stamp \in Nat
  BY DEF TypeOK, Decisions
<1>2. requests[d.id].expires \in Nat
  BY <1>1 DEF TypeOK, Rows
<1> QED
  BY <1>1, <1>2 DEF Decide, Expired, Requeue

-----------------------------------------------------------------------------
(* Waits, cancels and requests agree.                                      *)

LEMMA NextReqInv ==
  ASSUME TypeOK, ClockInv, ReqInv, [Next]_vars
  PROVE  ReqInv'
<1> USE DEF ReqInv, OneActive, WaitingHasRequest, CancelRevokes, Active, Pending,
            Approved
<1>1. CASE Quiet
  BY <1>1 DEF Quiet
<1>2. ASSUME NEW i \in Ids, Authorize(i)
      PROVE  ReqInv'
  <2>1. /\ requests' = [requests EXCEPT ![i].status = "consumed"]
        /\ status = "running" /\ status' = status
    BY <1>2, AuthorizeChanges
  <2>2. \A k \in Ids : requests'[k].status = IF k = i THEN "consumed" ELSE requests[k].status
    BY <2>1 DEF TypeOK, Rows
  <2> QED
    BY <2>1, <2>2
<1>3. ASSUME NEW i \in Ids, Request(i)
      PROVE  ReqInv'
  <2>1. status = "running" /\ status' = "waiting_approval"
    BY <1>3, RequestChanges
  <2>2. CASE requests' = requests /\ Pending(i)
    BY <2>1, <2>2
  <2>3. CASE requests' = [Swept(Active, call.stamp) EXCEPT
                            ![i] = [status |-> "pending", action |-> call.action,
                                    expires |-> call.stamp + TTL]]
    <3>1. requests'[i].status = "pending"
      BY <2>3 DEF Swept
    <3>2. \A k \in Ids \ {i} : requests'[k] = Swept(Active, call.stamp)[k]
      BY <2>3 DEF Swept
    <3>3. \A k \in Ids : Swept(Active, call.stamp)[k].status \notin {"pending", "approved"}
      BY DEF Swept, TypeOK, Rows
    <3> QED
      BY <2>1, <3>1, <3>2, <3>3
  <2> QED
    BY <1>3, <2>2, <2>3, RequestChanges
<1>4. CASE Cancel
  <2>1. /\ status' = "cancelled"
        /\ \A k \in Ids : requests'[k].status \notin {"pending", "approved"}
    BY <1>4 DEF Cancel, TypeOK, Rows
  <2> QED
    BY <2>1
<1>5. ASSUME NEW d \in decisions, Decide(d)
      PROVE  ReqInv'
  <2>1. CASE UNCHANGED <<status, requests>>
    BY <2>1
  <2>2. ASSUME NEW s \in {"expired", "approved", "rejected"},
               d.id \in Ids, Pending(d.id), requests' = Decided(d.id, s),
               status' \in {"queued", "blocked"}
        PROVE  ReqInv'
    <3>1. \A k \in Ids : requests'[k].status =
                           IF k = d.id THEN s ELSE requests[k].status
      BY <2>2 DEF Decided, TypeOK, Rows
    <3>2. \A k \in Ids \ {d.id} : k \notin Active
      BY <2>2
    <3> QED
      BY <2>2, <3>1, <3>2
  <2> QED
    BY <1>5, <2>1, <2>2, DecideChanges
<1> QED
  BY <1>1, <1>2, <1>3, <1>4, <1>5, QuietSteps DEF Decision

-----------------------------------------------------------------------------
(* A request is not granted or used after it has expired.                  *)

LEMMA FreshStep ==
  ASSUME TypeOK, ClockInv, OneActive, [Next]_vars,
         NEW i \in Ids, requests[i].status # requests'[i].status,
         requests'[i].status \in {"approved", "consumed"}
  PROVE  now < requests[i].expires + Lag
<1>1. /\ now \in Nat /\ Lag \in Nat /\ call.stamp \in Nat
      /\ \A d \in decisions : d.stamp \in Nat
      /\ requests[i].expires \in Nat
  BY WorkAssumption DEF TypeOK, Calls, Decisions, Rows
<1>2. ASSUME NEW k \in Ids, Authorize(k)
      PROVE  now < requests[i].expires + Lag
  <2>1. requests' = [requests EXCEPT ![k].status = "consumed"]
    BY <1>2, AuthorizeChanges
  <2>2. k = i
    BY <2>1 DEF TypeOK
  <2>3. requests[i].expires > call.stamp
    BY <1>2, <2>2, AuthorizeChanges
  <2>4. now <= call.stamp + Lag
    BY <1>2 DEF Authorize, ClockInv
  <2> QED
    BY <1>1, <2>3, <2>4
<1>3. ASSUME NEW k \in Ids, Request(k)
      PROVE  FALSE
  <2>1. CASE requests' = requests
    BY <2>1
  <2>2. CASE requests' = [Swept(Active, call.stamp) EXCEPT
                            ![k] = [status |-> "pending", action |-> call.action,
                                    expires |-> call.stamp + TTL]]
    <3>1. k = i => requests'[i].status = "pending"
      BY <2>2 DEF Swept
    <3>2. k # i => requests'[i] = Swept(Active, call.stamp)[i]
      BY <2>2 DEF Swept
    <3>3. \/ Swept(Active, call.stamp)[i] = requests[i]
          \/ Swept(Active, call.stamp)[i].status \in {"expired", "invalidated"}
      BY DEF Swept, TypeOK, Rows
    <3> QED
      BY <3>1, <3>2, <3>3
  <2> QED
    BY <1>3, <2>1, <2>2, RequestChanges
<1>4. CASE Cancel
  BY <1>4 DEF Cancel, TypeOK, Rows
<1>5. ASSUME NEW d \in decisions, Decide(d)
      PROVE  now < requests[i].expires + Lag
  <2>1. /\ requests' # requests
        /\ \A s : requests' = Decided(d.id, s) => s = requests'[i].status /\ d.id = i
    BY DEF Decided, TypeOK, Rows
  <2>2. d.id = i /\ requests[i].expires > d.stamp
    BY <1>5, <2>1, DecideChanges
  <2>3. now <= d.stamp + Lag
    BY DEF ClockInv
  <2> QED
    BY <1>1, <2>2, <2>3
<1> QED
  BY <1>2, <1>3, <1>4, <1>5, QuietSteps DEF Quiet, Decision

-----------------------------------------------------------------------------
(* An approval is used once, for its action.                               *)

LEMMA EffectSteps ==
  ASSUME [Next]_vars
  PROVE  Perform \/ effects' = effects
<1> USE DEF ghosts
<1>1. Attempt => Perform \/ effects' = effects
  BY DEF Attempt, Claim, Begin, NoticeCancel, Request, Refuse, RecordWrite, Propose,
         RecordCommand, KillCommand, AuditFails, Finish, End, Authorize
<1>2. Crash \/ Recover \/ Resume \/ RetryTrigger \/ Cancel \/ Decision \/ Tick \/ GiveUp
        => effects' = effects
  BY DEF Crash, Recover, Resume, RetryTrigger, Cancel, Decide, Decision, Tick, GiveUp
<1>3. ASSUME NEW i \in Ids, NEW approve \in BOOLEAN, Choose(i, approve)
      PROVE  effects' = effects
  BY <1>3 DEF Choose
<1>4. ASSUME NEW c \in Contents, Edit(c)
      PROVE  effects' = effects
  BY <1>4 DEF Edit
<1> QED
  BY <1>1, <1>2, <1>3, <1>4 DEF Next, Decision, vars

LEMMA ActSteps ==
  ASSUME [Next]_vars, pc' = "act"
  PROVE  UNCHANGED execVars \/ \E i \in Ids : Authorize(i)
<1>1. Attempt => UNCHANGED execVars \/ \E i \in Ids : Authorize(i)
  BY DEF Attempt, Claim, Begin, NoticeCancel, Request, Refuse, RecordWrite, Propose,
         RecordCommand, KillCommand, AuditFails, Finish, End, Leave, Perform
<1>2. Crash \/ Recover \/ Resume \/ RetryTrigger \/ Cancel \/ Decision \/ Tick \/ GiveUp
        => UNCHANGED execVars
  BY DEF Crash, Recover, Resume, RetryTrigger, Cancel, Decide, Decision, Tick,
         GiveUp, Leave,
         execVars
<1>3. ASSUME NEW i \in Ids, NEW approve \in BOOLEAN, Choose(i, approve)
      PROVE  UNCHANGED execVars
  BY <1>3 DEF Choose
<1>4. ASSUME NEW c \in Contents, Edit(c)
      PROVE  UNCHANGED execVars
  BY <1>4 DEF Edit
<1> QED
  BY <1>1, <1>2, <1>3, <1>4 DEF Next, Decision, vars, execVars

\* What is consumed stays as it is, and only an authorization consumes.
LEMMA ConsumedSteps ==
  ASSUME TypeOK, ClockInv, OneActive, [Next]_vars, NEW i \in Ids
  PROVE  /\ requests[i].status = "consumed" => requests'[i] = requests[i]
         /\ requests'[i].status = "consumed" => \/ requests[i].status = "consumed"
                                                \/ Authorize(i)
<1>1. CASE Quiet
  BY <1>1 DEF Quiet
<1>2. ASSUME NEW k \in Ids, Authorize(k)
      PROVE  /\ requests[i].status = "consumed" => requests'[i] = requests[i]
             /\ requests'[i].status = "consumed" => \/ requests[i].status = "consumed"
                                                    \/ Authorize(i)
  <2>1. requests' = [requests EXCEPT ![k].status = "consumed"] /\ Approved(k)
    BY <1>2, AuthorizeChanges
  <2>2. k # i => requests'[i] = requests[i]
    BY <2>1 DEF TypeOK
  <2> QED
    BY <1>2, <2>1, <2>2 DEF Approved
<1>3. ASSUME NEW k \in Ids, Request(k)
      PROVE  /\ requests[i].status = "consumed" => requests'[i] = requests[i]
             /\ requests'[i].status = "consumed" => requests[i].status = "consumed"
  <2>1. CASE requests' = requests
    BY <2>1
  <2>2. CASE /\ requests[k].status = "none"
             /\ requests' = [Swept(Active, call.stamp) EXCEPT
                               ![k] = [status |-> "pending", action |-> call.action,
                                       expires |-> call.stamp + TTL]]
    <3>1. k = i => requests'[i].status = "pending"
      BY <2>2 DEF Swept
    <3>2. k # i => requests'[i] = Swept(Active, call.stamp)[i]
      BY <2>2 DEF Swept
    <3>3. \/ Swept(Active, call.stamp)[i] = requests[i]
          \/ /\ Swept(Active, call.stamp)[i].status \in {"expired", "invalidated"}
             /\ requests[i].status # "consumed"
      BY DEF Swept, TypeOK, Rows, Active, Pending, Approved
    <3> QED
      BY <2>2, <3>1, <3>2, <3>3
  <2> QED
    BY <1>3, <2>1, <2>2, RequestChanges
<1>4. CASE Cancel
  BY <1>4 DEF Cancel, TypeOK, Rows, Active, Pending, Approved
<1>5. ASSUME NEW d \in decisions, Decide(d)
      PROVE  /\ requests[i].status = "consumed" => requests'[i] = requests[i]
             /\ requests'[i].status = "consumed" => requests[i].status = "consumed"
  <2>1. ASSUME NEW s \in {"expired", "approved", "rejected"},
               d.id \in Ids, Pending(d.id), requests' = Decided(d.id, s)
        PROVE  /\ requests[i].status = "consumed" => requests'[i] = requests[i]
               /\ requests'[i].status = "consumed" => requests[i].status = "consumed"
    BY <2>1 DEF Decided, TypeOK, Rows, Pending
  <2> QED
    BY <1>5, <2>1, DecideChanges
<1> QED
  BY <1>1, <1>2, <1>3, <1>4, <1>5, QuietSteps DEF Decision

\* Nothing was done under a request that was not consumed, or under the one
\* that the tool call has just consumed.
UseInv ==
  /\ \A i \in Ids : requests[i].status # "consumed" => effects[i] = <<>>
  /\ pc = "act" => /\ call.id \in Ids
                   /\ requests[call.id].status = "consumed"
                   /\ requests[call.id].action = call.action
                   /\ effects[call.id] = <<>>

LEMMA NextUseInv ==
  ASSUME TypeOK, ClockInv, OneActive, UseInv, [Next]_vars
  PROVE  UseInv'
<1>1. ASSUME NEW i \in Ids, requests'[i].status # "consumed"
      PROVE  effects'[i] = <<>>
  <2>1. requests[i].status # "consumed"
    BY <1>1, ConsumedSteps
  <2>2. CASE Perform
    BY <2>1, <2>2 DEF Perform, UseInv, TypeOK
  <2> QED
    BY <2>1, <2>2, EffectSteps DEF UseInv
<1>2. ASSUME pc' = "act"
      PROVE  /\ call'.id \in Ids
             /\ requests'[call'.id].status = "consumed"
             /\ requests'[call'.id].action = call'.action
             /\ effects'[call'.id] = <<>>
  <2>1. effects' = effects
    BY <1>2, EffectSteps DEF Perform
  <2>2. CASE UNCHANGED execVars
    BY <1>2, <2>1, <2>2, ConsumedSteps DEF UseInv, execVars
  <2>3. ASSUME NEW i \in Ids, Authorize(i)
        PROVE  /\ call'.id = i /\ call'.action = call.action
               /\ requests'[i].status = "consumed"
               /\ requests'[i].action = call.action
               /\ effects[i] = <<>>
    <3>1. call'.id = i /\ call'.action = call.action
      BY <2>3 DEF Authorize, TypeOK, Calls
    <3>2. requests' = [requests EXCEPT ![i].status = "consumed"]
          /\ Approved(i) /\ requests[i].action = call.action
      BY <2>3, AuthorizeChanges
    <3> QED
      BY <3>1, <3>2 DEF TypeOK, Rows, Approved, UseInv
  <2> QED
    BY <1>2, <2>1, <2>2, <2>3, ActSteps
<1> QED
  BY <1>1, <1>2 DEF UseInv

LEMMA PermitStep ==
  ASSUME TypeOK, CallOK, ClockInv, OneActive, UseInv, [Next]_vars
  PROVE  [Permits!Next]_(Permits!vars)
<1>1. /\ \A i \in Ids : i \in Permits!Open <=> i \in Active
      /\ \A s \in RequestStatus : PermitOf(s) \in {"none", "asked", "granted", "used", "void"}
  BY DEF Permits!Open, PermitOf, Active, Pending, Approved, TypeOK, Rows, RequestStatus
<1>2. ASSUME requests' = requests, effects' = effects
      PROVE  UNCHANGED Permits!vars
  BY <1>2 DEF Permits!vars
<1>3. CASE Perform
  <2>1. /\ call.id \in Ids /\ requests[call.id].status = "consumed"
        /\ requests[call.id].action = call.action /\ effects[call.id] = <<>>
        /\ requests' = requests
    BY <1>3 DEF Perform, UseInv
  <2>2. effects' = [effects EXCEPT ![call.id] = <<requests[call.id].action>>]
    BY <1>3, <2>1 DEF Perform
  <2>3. Permits!Act(call.id)
    BY <2>1, <2>2 DEF Permits!Act, PermitOf
  <2> QED
    BY <2>1, <2>3 DEF Permits!Next
<1>4. ASSUME NEW i \in Ids, Authorize(i)
      PROVE  Permits!Use(i)
  <2>1. /\ requests' = [requests EXCEPT ![i].status = "consumed"]
        /\ Approved(i) /\ effects' = effects
    BY <1>4, AuthorizeChanges DEF Authorize, ghosts
  <2>2. /\ \A k \in Ids : PermitOf(requests'[k].status) =
                            IF k = i THEN "used" ELSE PermitOf(requests[k].status)
        /\ \A k \in Ids : requests'[k].action = requests[k].action
    BY <2>1 DEF TypeOK, Rows, PermitOf
  <2> QED
    BY <2>1, <2>2 DEF Permits!Use, PermitOf, Approved
<1>5. ASSUME NEW i \in Ids, Request(i)
      PROVE  requests' = requests \/ \E a \in Actions : Permits!Ask(i, a)
  <2>1. call.action \in Actions /\ effects' = effects
    BY <1>5 DEF Request, CallOK, ghosts
  <2>2. CASE /\ requests[i].status = "none"
             /\ requests' = [Swept(Active, call.stamp) EXCEPT
                               ![i] = [status |-> "pending", action |-> call.action,
                                       expires |-> call.stamp + TTL]]
    <3>1. requests'[i] = [status |-> "pending", action |-> call.action,
                          expires |-> call.stamp + TTL]
      BY <2>2 DEF Swept
    <3>2. \A k \in Ids \ {i} : requests'[k] = Swept(Active, call.stamp)[k]
      BY <2>2 DEF Swept
    <3>3. \A k \in Ids : Swept(Active, call.stamp)[k].action = requests[k].action
      BY DEF Swept, TypeOK, Rows
    <3>4. \A k \in Ids : PermitOf(Swept(Active, call.stamp)[k].status) =
                           IF k \in Active THEN "void" ELSE PermitOf(requests[k].status)
      BY DEF Swept, TypeOK, Rows, PermitOf
    <3>5. \A k \in Ids : PermitOf(requests'[k].status) =
                           IF k = i THEN "asked"
                           ELSE IF k \in Permits!Open THEN "void"
                           ELSE PermitOf(requests[k].status)
      BY <1>1, <3>1, <3>2, <3>4 DEF PermitOf
    <3>6. \A k \in Ids : requests'[k].action =
                           IF k = i THEN call.action ELSE requests[k].action
      BY <3>1, <3>2, <3>3
    <3> QED
      BY <2>1, <2>2, <3>5, <3>6 DEF Permits!Ask, PermitOf
  <2> QED
    BY <1>5, <2>2, RequestChanges
<1>6. CASE Cancel
  <2>1. effects' = effects
    BY <1>6 DEF Cancel, ghosts
  <2>2. /\ \A k \in Ids : PermitOf(requests'[k].status) =
                            IF k \in Active THEN "void" ELSE PermitOf(requests[k].status)
        /\ \A k \in Ids : requests'[k].action = requests[k].action
    BY <1>6 DEF Cancel, TypeOK, Rows, PermitOf
  <2> QED
    BY <1>1, <2>1, <2>2 DEF Permits!Void, Permits!Next
<1>7. ASSUME NEW d \in decisions, Decide(d)
      PROVE  [Permits!Next]_(Permits!vars)
  <2>1. effects' = effects
    BY <1>7 DEF Decide, ghosts
  <2>2. ASSUME NEW s \in {"expired", "approved", "rejected"},
               d.id \in Ids, Pending(d.id), requests' = Decided(d.id, s)
        PROVE  Permits!Void \/ Permits!Grant(d.id)
    <3>1. /\ \A k \in Ids : PermitOf(requests'[k].status) =
                              IF k = d.id THEN PermitOf(s)
                              ELSE PermitOf(requests[k].status)
          /\ \A k \in Ids : requests'[k].action = requests[k].action
      BY <2>2 DEF Decided, TypeOK, Rows
    <3>2. \A k \in Ids : k \in Permits!Open <=> k = d.id
      BY <1>1, <2>2 DEF OneActive, Active
    <3>3. CASE s = "approved"
      BY <2>1, <2>2, <3>1, <3>3 DEF Permits!Grant, PermitOf, Pending
    <3>4. CASE s # "approved"
      <4>1. PermitOf(s) = "void"
        BY <3>4 DEF PermitOf
      <4> QED
        BY <2>1, <3>1, <3>2, <4>1 DEF Permits!Void
    <3> QED
      BY <3>3, <3>4
  <2> QED
    BY <1>2, <1>7, <2>1, <2>2, DecideChanges DEF Permits!Next
<1> QED
  BY <1>2, <1>3, <1>4, <1>5, <1>6, <1>7, QuietSteps, EffectSteps
     DEF Permits!Next, Quiet, Decision, Request, Authorize, ghosts

LEMMA PermitInit == Init => Permits!Init
  BY DEF Init, Permits!Init, PermitOf

-----------------------------------------------------------------------------
(* The recorded writes chain.                                              *)

\* A step that ends an attempt, or one that leaves it and the workspace alone.
Off  == pc' \in {"idle", "begin", "dead"} /\ changes' = changes
Same == UNCHANGED <<pc, call, changes, file>>

LEMMA ChainSteps ==
  ASSUME [Next]_vars
  PROVE  \/ Off \/ Same \/ Begin \/ Perform \/ RecordWrite \/ AuditFails
         \/ \E a \in Actions : Propose(a)
         \/ \E i \in Ids : Authorize(i)
         \/ \E ok \in BOOLEAN : RecordCommand(ok)
         \/ \E c \in Contents : Edit(c)
<1> USE DEF Off, Same, logVars, execVars
<1>1. CASE Attempt
  BY <1>1 DEF Attempt, Claim, NoticeCancel, Request, Refuse, KillCommand, Finish, End,
              Leave
<1>2. CASE Crash \/ Recover \/ Resume \/ RetryTrigger \/ Cancel \/ Decision \/ Tick
  BY <1>2 DEF Crash, Recover, Resume, RetryTrigger, Cancel, Decide, Decision, Tick,
         Leave
<1>3. CASE GiveUp
  BY <1>3 DEF GiveUp, Leave
<1>4. ASSUME NEW i \in Ids, NEW approve \in BOOLEAN, Choose(i, approve)
      PROVE  Same
  BY <1>4 DEF Choose
<1>5. CASE UNCHANGED vars
  BY <1>5 DEF vars
<1> QED
  BY <1>1, <1>2, <1>3, <1>4, <1>5 DEF Next, Decision

LEMMA StrayedStays ==
  ASSUME [Next]_vars, strayed
  PROVE  strayed'
<1> USE DEF ghosts
<1>1. Attempt => strayed'
  BY Zenon DEF Attempt, Claim, Begin, NoticeCancel, Request, Refuse, RecordWrite,
         Propose,
         RecordCommand, KillCommand, AuditFails, Finish, End, Authorize, Perform
<1>2. Crash \/ Recover \/ Resume \/ RetryTrigger \/ Cancel \/ Decision \/ Tick \/ GiveUp
        => strayed'
  BY Zenon DEF Crash, Recover, Resume, RetryTrigger, Cancel, Decide, Decision, Tick,
         GiveUp
<1>3. ASSUME NEW i \in Ids, NEW approve \in BOOLEAN, Choose(i, approve)
      PROVE  strayed'
  BY <1>3, Zenon DEF Choose
<1>4. ASSUME NEW c \in Contents, Edit(c)
      PROVE  strayed'
  BY <1>4, Zenon DEF Edit
<1> QED
  BY <1>1, <1>2, <1>3, <1>4 DEF Next, Decision, vars

\* The first attempt finds no record, so it needs no checkpoint.
FirstAttempt ==
  /\ attempts = 0 => changes = <<>>
  /\ pc = "begin" /\ attempts = 1 => changes = <<>>
  /\ pc \in {"begin", "think", "ask", "act", "audit"} => attempts # 0

LEMMA NextFirstAttempt ==
  ASSUME TypeOK, FirstAttempt, [Next]_vars
  PROVE  FirstAttempt'
<1> USE DEF FirstAttempt, TypeOK
<1>1. CASE Claim
  BY <1>1 DEF Claim, logVars
<1>2. CASE RecordWrite
  BY <1>2 DEF RecordWrite, jobVars
<1> DEFINE Step == /\ attempts' = attempts /\ changes' = changes
                   /\ \/ pc' \in {"idle", "dead"} \/ pc' = pc
                      \/ /\ pc \in {"begin", "think", "ask", "act", "audit"}
                         /\ pc' \in {"think", "ask", "act", "audit"}
<1>3. CASE Step
  BY <1>3
<1>4. Attempt => Claim \/ RecordWrite \/ Step
  BY DEF Attempt, Begin, NoticeCancel, Request, Refuse, Propose, RecordCommand,
         KillCommand, AuditFails, Finish, End, Authorize, Perform, Leave, jobVars, logVars
<1>5. Crash \/ Recover \/ Resume \/ RetryTrigger \/ Cancel \/ Decision \/ Tick \/ GiveUp
        => Step
  BY DEF Crash, Recover, Resume, RetryTrigger, Cancel, Decide, Decision, Tick,
         GiveUp, Leave,
         jobVars, logVars, execVars
<1>6. ASSUME NEW i \in Ids, NEW approve \in BOOLEAN, Choose(i, approve)
      PROVE  Step
  BY <1>6 DEF Choose, jobVars, logVars, execVars
<1>7. ASSUME NEW c \in Contents, Edit(c)
      PROVE  Step
  BY <1>7 DEF Edit, jobVars, logVars, execVars
<1>8. UNCHANGED vars => Step
  BY DEF vars
<1> QED
  BY <1>1, <1>2, <1>3, <1>4, <1>5, <1>6, <1>7, <1>8 DEF Next, Decision

Chained == \A k \in 2..Len(changes) : changes[k].before = changes[k - 1].after

\* Where the file and the tool call stand with respect to the record.
OnRecord ==
  /\ pc \in {"think", "ask", "act"} => file \in Recorded
  /\ pc \in {"ask", "act"} /\ IsWrite(call.action) => call.action.before = file
  /\ pc = "audit" /\ IsWrite(call.action) => /\ call.action.before \in Recorded
                                             /\ file = call.action.after
  /\ pc = "audit" /\ ~IsWrite(call.action) => file \in Recorded

ChainInv == ~strayed => Chained /\ OnRecord

LEMMA NextChainInv ==
  ASSUME TypeOK, CallOK, FirstAttempt, ChainInv, [Next]_vars
  PROVE  ChainInv'
<1> SUFFICES ASSUME ~strayed'
             PROVE  Chained' /\ OnRecord'
  BY DEF ChainInv
<1> USE DEF Chained, OnRecord
<1>1. Chained /\ OnRecord
  BY StrayedStays DEF ChainInv
<1>2. changes' = changes => Chained' /\ Recorded' = Recorded
  BY <1>1 DEF Recorded
<1>3. CASE Off
  BY <1>2, <1>3 DEF Off
<1>4. CASE Same
  BY <1>1, <1>2, <1>4 DEF Same
<1>5. CASE Begin
  <2>1. changes' = changes /\ file' = file
    BY <1>5 DEF Begin, logVars
  <2>2. CASE pc' = "think" /\ CheckpointHolds(2)
    <3>1. attempts >= 2 \/ changes = <<>>
      BY <1>5 DEF Begin, FirstAttempt, TypeOK
    <3>2. file \in Recorded
      BY <2>2, <3>1 DEF CheckpointHolds, Recorded, TypeOK
    <3> QED
      BY <1>2, <2>1, <2>2, <3>2
  <2>3. CASE pc' = "idle"
    BY <1>2, <2>1, <2>3
  <2> QED
    BY <1>5, <2>2, <2>3 DEF Begin, Leave
<1>6. ASSUME NEW a \in Actions, Propose(a)
      PROVE  Chained' /\ OnRecord'
  BY <1>1, <1>2, <1>6 DEF Propose, logVars
<1>7. ASSUME NEW i \in Ids, Authorize(i)
      PROVE  Chained' /\ OnRecord'
  <2>1. call'.action = call.action /\ changes' = changes /\ file' = file
    BY <1>7 DEF Authorize, logVars, TypeOK, Calls
  <2> QED
    BY <1>1, <1>2, <1>7, <2>1 DEF Authorize
<1>8. CASE Perform
  BY <1>1, <1>2, <1>8 DEF Perform, logVars
<1>9. CASE RecordWrite
  <2>1. /\ call.action \in Writes /\ changes \in Seq(Writes)
        /\ changes' = Append(changes, call.action) /\ file' = file /\ pc' = "think"
        /\ call.action.before \in Recorded /\ file = call.action.after
    BY <1>1, <1>9, ActionKinds DEF RecordWrite, TypeOK, Calls
  <2>2. /\ Len(changes) \in Nat /\ Len(changes') = Len(changes) + 1
        /\ \A k \in 1..Len(changes) : changes'[k] = changes[k]
        /\ changes'[Len(changes) + 1] = call.action
        /\ changes' # <<>>
    BY <2>1, AppendProperties, LenProperties
  <2>3. OnRecord'
    BY <2>1, <2>2 DEF Recorded
  <2>4. ASSUME NEW k \in 2..Len(changes')
        PROVE  changes'[k].before = changes'[k - 1].after
    <3>1. CASE k \in 2..Len(changes)
      BY <1>1, <2>2, <3>1
    <3>2. CASE k = Len(changes) + 1
      <4>1. changes # <<>> /\ k - 1 = Len(changes) /\ k - 1 \in 1..Len(changes)
        BY <2>1, <2>2, <2>4, <3>2
      <4>2. call.action.before = changes[Len(changes)].after
        BY <2>1, <4>1 DEF Recorded
      <4> QED
        BY <2>2, <3>2, <4>1, <4>2
    <3> QED
      BY <2>2, <2>4, <3>1, <3>2
  <2> QED
    BY <2>3, <2>4
<1>10. ASSUME NEW ok \in BOOLEAN, RecordCommand(ok)
       PROVE  Chained' /\ OnRecord'
  BY <1>1, <1>2, <1>10 DEF RecordCommand
<1>11. CASE AuditFails
  <2>1. ~IsWrite(call.action)
    BY <1>11, Zenon DEF AuditFails
  <2> QED
    BY <1>1, <1>2, <1>11, <2>1 DEF AuditFails, logVars
<1>12. ASSUME NEW c \in Contents, Edit(c)
       PROVE  Chained' /\ OnRecord'
  <2>1. pc \notin {"think", "ask", "act", "audit"}
    BY <1>12, Zenon DEF Edit
  <2> QED
    BY <1>2, <1>12, <2>1 DEF Edit, logVars, execVars
<1> QED
  BY <1>3, <1>4, <1>5, <1>6, <1>7, <1>8, <1>9, <1>10, <1>11, <1>12, ChainSteps

-----------------------------------------------------------------------------
(* A completed job has verified what it left behind.                       *)

\* Only a running job, or one cancelled under way, is in an attempt.
Attempted == pc \notin {"idle", "dead"} => status \in {"running", "cancelled"}

LEMMA NextAttempted ==
  ASSUME TypeOK, Attempted, [Next]_vars
  PROVE  Attempted'
<1> USE DEF Attempted, TypeOK, jobVars, execVars
<1> DEFINE Step == pc' \in {"idle",
         "dead"} \/ (status' = status /\ pc \notin {"idle", "dead"})
<1>1. Attempt => Step \/ Claim
  BY DEF Attempt, Begin, NoticeCancel, Request, Refuse, Propose, RecordWrite,
         RecordCommand,
         KillCommand, AuditFails, Finish, End, Authorize, Perform, Leave
<1>2. Claim => Attempted'
  BY DEF Claim
<1>3. Crash \/ Recover \/ GiveUp => Step \/ UNCHANGED <<pc, status>>
  BY DEF Crash, Recover, GiveUp, Leave
<1>4. Resume \/ RetryTrigger \/ Cancel \/ Decision \/ Tick => Attempted'
  BY DEF Resume, RetryTrigger, Cancel, Decide, Decision, Tick
<1>5. ASSUME NEW i \in Ids, NEW approve \in BOOLEAN, Choose(i, approve)
      PROVE  Attempted'
  BY <1>5 DEF Choose
<1>6. ASSUME NEW c \in Contents, Edit(c)
      PROVE  Attempted'
  BY <1>6 DEF Edit
<1>7. Step \/ UNCHANGED <<pc, status>> => Attempted'
  OBVIOUS
<1> QED
  BY <1>1, <1>2, <1>3, <1>4, <1>5, <1>6, <1>7 DEF Next, Decision, vars

\* What the job's file holds by its record.
Last == changes[Len(changes)].after

\* A command event is no younger than the record, and ran on what it says.
EventInv ==
  /\ \A n \in DOMAIN commands : commands[n].seen <= Len(changes)
  /\ ~strayed => \A n \in DOMAIN commands :
       commands[n].seen = Len(changes) /\ changes # <<>> => commands[n].content = Last

LEMMA LogSteps ==
  ASSUME [Next]_vars
  PROVE  \/ UNCHANGED logVars \/ RecordWrite
         \/ \E ok \in BOOLEAN : RecordCommand(ok)
         \/ \E s \in Ends : KillCommand(s)
<1>1. Attempt => \/ UNCHANGED logVars \/ RecordWrite
                 \/ \E ok \in BOOLEAN : RecordCommand(ok)
                 \/ \E s \in Ends : KillCommand(s)
  BY DEF Attempt, Claim, Begin, NoticeCancel, Propose, Authorize, Request, Refuse,
         Perform, AuditFails, Finish, End
<1>2. Crash \/ Recover \/ Resume \/ RetryTrigger \/ Cancel \/ Decision \/ Tick \/ GiveUp
        => UNCHANGED logVars
  BY DEF Crash, Recover, Resume, RetryTrigger, Cancel, Decide, Decision, Tick, GiveUp
<1>3. ASSUME NEW i \in Ids, NEW approve \in BOOLEAN, Choose(i, approve)
      PROVE  UNCHANGED logVars
  BY <1>3 DEF Choose
<1>4. ASSUME NEW c \in Contents, Edit(c)
      PROVE  UNCHANGED logVars
  BY <1>4 DEF Edit
<1> QED
  BY <1>1, <1>2, <1>3, <1>4 DEF Next, Decision, vars, logVars

LEMMA NextEventInv ==
  ASSUME TypeOK, ChainInv, EventInv, [Next]_vars
  PROVE  EventInv'
<1>1. Len(changes) \in Nat /\ \A n \in DOMAIN commands : commands[n].seen \in Nat
  <2>1. \A n \in DOMAIN commands : commands[n] \in Events
    BY ElementOfSeq, LenProperties DEF TypeOK
  <2> QED
    BY <2>1, LenProperties DEF TypeOK, Events
<1>2. CASE UNCHANGED logVars
  BY <1>2, StrayedStays DEF EventInv, Last, logVars
<1>3. CASE RecordWrite
  <2>1. Len(changes') = Len(changes) + 1 /\ commands' = commands
    <3>1. call.action \in Writes
      BY <1>3, ActionKinds DEF RecordWrite, TypeOK, Calls
    <3> QED
      BY <1>3, <3>1, AppendProperties DEF RecordWrite, TypeOK
  <2> QED
    BY <1>1, <2>1 DEF EventInv
<1>4. ASSUME NEW ok \in BOOLEAN, commands' = Append(commands, Event(ok)),
             changes' = changes, pc = "audit", ~IsWrite(call.action)
      PROVE  EventInv'
  <2>1. Event(ok).seen = Len(changes) /\ Event(ok).content = file
    BY DEF Event
  <2>2. ~strayed' /\ changes # <<>> => file = Last
    BY <1>4, StrayedStays DEF ChainInv, OnRecord, Recorded, Last
  <2>3. /\ DOMAIN commands' = DOMAIN commands \cup {Len(commands) + 1}
        /\ commands'[Len(commands) + 1] = Event(ok)
        /\ \A n \in DOMAIN commands : commands'[n] = commands[n]
    BY <1>4, EventTypes, AppendProperties, LenProperties DEF TypeOK
  <2> QED
    BY <1>1, <1>4, <2>1, <2>2, <2>3, StrayedStays DEF EventInv, Last
<1> QED
  BY <1>2, <1>3, <1>4, LogSteps DEF RecordCommand, KillCommand

LEMMA NextCompletedIsVerified ==
  ASSUME TypeOK, Attempted, EventInv, CompletedIsVerified, [Next]_vars
  PROVE  CompletedIsVerified'
<1> SUFFICES ASSUME status' = "completed", ~strayed', changes' # <<>>
             PROVE  \E n \in DOMAIN commands' :
                      /\ commands'[n].verify /\ commands'[n].ok
                      /\ commands'[n].content = changes'[Len(changes')].after
  BY DEF CompletedIsVerified
<1>1. ~strayed
  BY StrayedStays
<1>2. CASE status = "completed"
  <2>1. UNCHANGED logVars
    BY <1>2, LogSteps DEF Attempted, RecordWrite, RecordCommand, KillCommand
  <2> QED
    BY <1>1, <1>2, <2>1 DEF CompletedIsVerified, logVars
<1>3. CASE status # "completed"
  <2>1. Finish /\ Verified
    BY <1>3 DEF Next, Attempt, Claim, Begin, NoticeCancel, Propose, Authorize, Request,
       Refuse, Perform, RecordWrite, RecordCommand, KillCommand, AuditFails, Finish, End,
       Ends, Crash, Recover, Resume, RetryTrigger, Cancel, Choose, Decide, Decision,
         Edit, Tick,
       GiveUp, Settle, Requeue, jobVars, vars
  <2>2. UNCHANGED logVars
    BY <2>1 DEF Finish
  <2>3. PICK n \in DOMAIN commands : /\ commands[n].verify /\ commands[n].ok
                                     /\ commands[n].seen = Len(changes)
    BY <2>1, <2>2 DEF Verified, logVars
  <2> QED
    BY <1>1, <2>2, <2>3 DEF EventInv, Last, logVars
<1> QED
  BY <1>2, <1>3

-----------------------------------------------------------------------------
(* The theorems.                                                           *)

\* Everything that is needed of a reachable state.
IInv == /\ TypeOK /\ CallOK /\ ClockInv /\ ReqInv /\ UseInv
        /\ FirstAttempt /\ ChainInv /\ Attempted /\ EventInv /\ CompletedIsVerified

LEMMA InitInv == Init => IInv
<1> SUFFICES ASSUME Init PROVE IInv
  OBVIOUS
<1>1. TypeOK /\ CallOK /\ ClockInv
  BY InitTypes DEF Init, CallOK, ClockInv
<1>2. ReqInv /\ UseInv
  BY DEF Init, ReqInv, OneActive, WaitingHasRequest, CancelRevokes, Active, Pending,
         Approved, UseInv
<1>3. FirstAttempt /\ Attempted
  BY DEF Init, FirstAttempt, Attempted
<1>4. ChainInv
  BY DEF Init, ChainInv, Chained, OnRecord
<1>5. EventInv /\ CompletedIsVerified
  BY DEF Init, EventInv, CompletedIsVerified
<1> QED
  BY <1>1, <1>2, <1>3, <1>4, <1>5 DEF IInv

LEMMA NextInv == IInv /\ [Next]_vars => IInv'
  BY NextTypes, NextCall, NextClockInv, NextReqInv, NextUseInv, NextFirstAttempt,
     NextChainInv, NextAttempted, NextEventInv, NextCompletedIsVerified
  DEF IInv, ReqInv

\* What is inductive holds in every reachable state.
THEOREM Invariant == Spec => []IInv
  BY InitInv, NextInv, PTL DEF Spec

\* Every variable stays in its domain, for any number of requests and attempts.
THEOREM TypeCorrect == Spec => []TypeOK
<1>1. IInv => TypeOK
  BY DEF IInv
<1> QED
  BY <1>1, Invariant, PTL

\* A job waits exactly while one of its requests is pending (store.py:1308-1596).
THEOREM WaitsForSomething == Spec => []WaitingHasRequest
<1>1. IInv => WaitingHasRequest
  BY DEF IInv, ReqInv
<1> QED
  BY <1>1, Invariant, PTL

\* No request of a cancelled job can authorize anything (store.py:1861-1880).
THEOREM CancelIsFinal == Spec => []CancelRevokes
<1>1. IInv => CancelRevokes
  BY DEF IInv, ReqInv
<1> QED
  BY <1>1, Invariant, PTL

\* No request is granted or used later than Lag after it has expired, although
\* the clock is read before the lock is taken (store.py:1322, 1509).
THEOREM Fresh == Spec => FreshAuthorization
<1>1. IInv /\ [Next]_vars =>
        [\A i \in Ids :
           /\ requests[i].status # requests'[i].status
           /\ requests'[i].status \in {"approved", "consumed"}
           => now < requests[i].expires + Lag]_vars
  BY FreshStep DEF IInv, ReqInv
<1> QED
  BY <1>1, Invariant, PTL DEF Spec, FreshAuthorization

\* Approvals are what ExactApproval promises: each is for one action, is granted
\* by a user, is used once and the action takes effect once (store.py:1308-1457).
THEOREM ApprovalIsExact == Spec => PermitSpec
<1>1. IInv /\ [Next]_vars => [Permits!Next]_(Permits!vars)
  BY PermitStep DEF IInv, ReqInv
<1> QED
  BY <1>1, PermitInit, Invariant, PTL DEF Spec, PermitSpec, Permits!Spec

\* The recorded writes follow on from each other through waits, restarts and
\* edits between attempts (checkpoints.py:24-41).
THEOREM Chains == Spec => []HistoryChains
<1>1. IInv => HistoryChains
  BY DEF IInv, ChainInv, Chained, HistoryChains
<1> QED
  BY <1>1, Invariant, PTL

\* A completed job has verified the content its record leaves in the file
\* (store.py:1598-1630).
THEOREM Verifies == Spec => []CompletedIsVerified
<1>1. IInv => CompletedIsVerified
  BY DEF IInv
<1> QED
  BY <1>1, Invariant, PTL
=============================================================================
