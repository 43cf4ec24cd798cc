---------------------------- MODULE OccurrenceLog ----------------------------
(***************************************************************************)
(* What Suto promises of a schedule: every occurrence is settled at most   *)
(* once, in the order of time, by skipping it or by one logical job of its *)
(* own; a retry is a further attempt of that same job, one after another   *)
(* and never beyond the schedule's limit.  Schedules implements this.      *)
(***************************************************************************)
EXTENDS Naturals, Sequences

CONSTANTS Schedules,    \* the schedules there may be
          RetryLimit    \* RetryLimit[s]: how often an occurrence of s is retried

VARIABLE log            \* what became of the occurrences, oldest entry first

Skipped == 0            \* stands for the job of an occurrence that has none

Entry == [schedule : Schedules, time : Nat, attempt : Nat, job : Nat]

\* A later occurrence than all before it, skipped or given to a new job.
Settles(e) ==
  /\ e.attempt = 1
  /\ \A i \in DOMAIN log :
       /\ log[i].schedule = e.schedule => log[i].time < e.time
       /\ e.job # Skipped => log[i].job # e.job

\* The attempt after the last one of an occurrence that has a job.
Retries(e) ==
  \E i \in DOMAIN log :
    /\ log[i].job # Skipped
    /\ log[i].attempt <= RetryLimit[e.schedule]
    /\ e = [log[i] EXCEPT !.attempt = @ + 1]
    /\ e \notin {log[k] : k \in DOMAIN log}

Init == log = <<>>

Next ==
  /\ Len(log') = Len(log) + 1
  /\ LET e == log'[Len(log')] IN
       /\ e \in Entry
       /\ Settles(e) \/ Retries(e)
       /\ log' = Append(log, e)

Spec == Init /\ [][Next]_log
=============================================================================
