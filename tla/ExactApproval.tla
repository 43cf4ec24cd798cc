---------------------------- MODULE ExactApproval ----------------------------
(***************************************************************************)
(* What an approval promises, whatever happens to the job that asked for   *)
(* it: a permit is for one action, is granted by a user, is used at most   *)
(* once, and the action takes effect at most once and only under it.  A    *)
(* job has at most one permit open at a time.  ApprovedWork implements it. *)
(***************************************************************************)
EXTENDS Naturals, Sequences

CONSTANTS Ids,        \* the permits that may ever be asked for
          Actions,    \* what they may be for
          NoAction    \* the purpose of a permit nobody has asked for

VARIABLES permit,     \* permit[i]: "none", "asked", "granted", "used" or "void"
          purpose,    \* purpose[i]: the action permit i is for
          effect      \* effect[i]: the actions performed under permit i

vars == <<permit, purpose, effect>>

Open == {i \in Ids : permit[i] \in {"asked", "granted"}}

Init == /\ permit = [i \in Ids |-> "none"]
        /\ purpose = [i \in Ids |-> NoAction]
        /\ effect = [i \in Ids |-> <<>>]

\* Asking voids what was open, granted or not.
Ask(i, a) ==
  /\ permit[i] = "none"
  /\ permit' = [k \in Ids |-> IF k = i THEN "asked"
                              ELSE IF k \in Open THEN "void" ELSE permit[k]]
  /\ purpose' = [purpose EXCEPT ![i] = a]
  /\ UNCHANGED effect

Grant(i) ==
  /\ permit[i] = "asked"
  /\ permit' = [permit EXCEPT ![i] = "granted"]
  /\ UNCHANGED <<purpose, effect>>

Use(i) ==
  /\ permit[i] = "granted"
  /\ permit' = [permit EXCEPT ![i] = "used"]
  /\ UNCHANGED <<purpose, effect>>

\* A rejection, an expiry, a cancel: whatever was open is void.
Void ==
  /\ permit' = [k \in Ids |-> IF k \in Open THEN "void" ELSE permit[k]]
  /\ UNCHANGED <<purpose, effect>>

Act(i) ==
  /\ permit[i] = "used"
  /\ effect[i] = <<>>
  /\ effect' = [effect EXCEPT ![i] = <<purpose[i]>>]
  /\ UNCHANGED <<permit, purpose>>

Next == \/ Void
        \/ \E i \in Ids : \/ Grant(i) \/ Use(i) \/ Act(i)
                          \/ \E a \in Actions : Ask(i, a)

Spec == Init /\ [][Next]_vars
=============================================================================
