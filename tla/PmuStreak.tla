----------------------------- MODULE PmuStreak ----------------------------
(***************************************************************************)
(* PmuPoll with its polls counted: how many in a row had a bus error.      *)
(***************************************************************************)
EXTENDS PmuPoll

VARIABLE failed_polls    \* ghost, counted up to MaxFailures

streakVars == <<pmuVars, failed_polls>>

StreakInit == PmuInit /\ failed_polls = 0

PollFailed == failed_polls' = IF failed_polls < MaxFailures THEN failed_polls + 1 ELSE failed_polls
PollWorked == failed_polls' = 0

StreakNext ==
  \/ PmuStatusFails /\ PollFailed
  \/ (\E st \in Statuses : PmuNoBattery(st)) /\ PollWorked
  \/ \E st \in Statuses, mv_ok, pct_ok \in BOOLEAN, mv \in MilliVolts, pct \in Gauge :
       /\ PmuBattery(st, mv_ok, mv, pct_ok, pct)
       /\ IF mv_ok /\ pct_ok THEN PollWorked ELSE PollFailed

StreakSpec == StreakInit /\ [][StreakNext]_streakVars

---------------------------------------------------------------------------

(* sensors.rs:10-11, a device that "fails 5 polls in a row is marked       *)
(* absent": the poll that fails as the fifth in a row, and no other, gives *)
(* a PMU up that answered at the start.  Neither half is true, as the      *)
(* tracker counts bus operations: four failed polls can be enough, and     *)
(* polls whose status read works may fail for ever.                        *)
AbsentAfterFailedPolls ==
  [][pmu.ok => (~pmu'.ok <=> failed_polls' >= MaxFailures)]_streakVars

(* What does hold: a single failed poll can count double, as every poll    *)
(* that gets to the voltage and the gauge has first forgiven what came     *)
(* before.  So the PMU is given up one failed poll early at most           *)
(* (sensors.rs:277-297).                                                   *)
AbsentOnePollEarlyAtMost ==
  [][pmu.ok /\ ~pmu'.ok => failed_polls' >= MaxFailures - 1]_streakVars
===========================================================================
