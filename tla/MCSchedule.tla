----------------------------- MODULE MCSchedule -----------------------------
(***************************************************************************)
(* Small instances of Schedules: one interval schedule of either policy,   *)
(* and two schedules of different kinds beside each other.                 *)
(***************************************************************************)
EXTENDS Schedules, TLC

CONSTANTS a, b

Both == {a, b}

OnceAndCron  == [s \in ScheduleIds |-> IF s = a THEN "once" ELSE "cron"]
AllInterval  == [s \in ScheduleIds |-> "interval"]
AllRunOnce   == [s \in ScheduleIds |-> "run_once"]
RunOnceOrSkip == [s \in ScheduleIds |-> IF s = a THEN "run_once" ELSE "skip"]
EveryTwo     == [s \in ScheduleIds |-> 2]
NoDelay      == [s \in ScheduleIds |-> 0]
DelayOfOne   == [s \in ScheduleIds |-> 1]
OneRetry     == [s \in ScheduleIds |-> 1]
=============================================================================
