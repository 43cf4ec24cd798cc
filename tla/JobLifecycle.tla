---------------------------- MODULE JobLifecycle ----------------------------
(***************************************************************************)
(* What Suto promises of a durable job, without saying how: the states a   *)
(* job moves through, and that an attempt is started only from the queue,  *)
(* one at a time, never beyond the number of running jobs the operator     *)
(* allows.  Several jobs may change state in one step, because a cancel    *)
(* cascades and a restart interrupts every running job at once.            *)
(* JobStore and AutomationWorker implement this specification.             *)
(***************************************************************************)
EXTENDS Naturals, FiniteSets

CONSTANTS Jobs,         \* every job that may ever be created
          MaxRunning    \* how many jobs may run at a time

VARIABLES state,        \* state[j]: where job j is in its life
          starts        \* starts[j]: how many attempts job j has had

vars == <<state, starts>>

\* The states of a job; "absent" is a job nobody has submitted yet.
States == {"absent", "queued", "running", "waiting_approval",
           "waiting_children", "completed", "failed", "blocked",
           "interrupted", "cancelled"}

\* The states that may follow a state.  "completed" and "cancelled" have no
\* successor; "failed" is left only by the schedule that created the job.
After(s) ==
  CASE s = "absent"      -> {"queued"}
    [] s = "queued"      -> {"cancelled"}
    [] s = "running"     -> {"completed", "failed", "blocked", "interrupted",
                             "cancelled", "waiting_approval", "waiting_children"}
    [] s \in {"waiting_approval", "waiting_children"}
                         -> {"queued", "blocked", "cancelled"}
    [] s = "interrupted" -> {"queued", "cancelled"}
    [] s = "blocked"     -> {"queued"}
    [] s = "failed"      -> {"queued"}
    [] OTHER             -> {}

Running == {j \in Jobs : state[j] = "running"}

Init == /\ state = [j \in Jobs |-> "absent"]
        /\ starts = [j \in Jobs |-> 0]

\* An attempt begins: the only way into "running".
Start(j) ==
  /\ state[j] = "queued"
  /\ Cardinality(Running) < MaxRunning
  /\ state' = [state EXCEPT ![j] = "running"]
  /\ starts' = [starts EXCEPT ![j] = @ + 1]

\* Some jobs, each along an edge of its own, change state together.
Move ==
  /\ state' \in [Jobs -> States]
  /\ \A j \in Jobs : state'[j] # state[j] => state'[j] \in After(state[j])
  /\ UNCHANGED starts

Next == Move \/ \E j \in Jobs : Start(j)

Spec == Init /\ [][Next]_vars
=============================================================================
