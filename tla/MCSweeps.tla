------------------------------ MODULE MCSweeps -----------------------------
(***************************************************************************)
(* The arithmetic of the firmware over the whole of its inputs, and the    *)
(* count of failed polls: CadenceWalk, CivilDate, ImuScale and PmuStreak   *)
(* share nothing, so every behaviour walks one of them.                    *)
(***************************************************************************)
EXTENDS CadenceWalk, CivilDate, ImuScale, MCPmuStreak

VARIABLE walk

sweepVars == <<cadenceVars, civilVars, scaleVars, streakVars, walk>>

i16Min == -32768

SweepInit ==
  /\ walk \in {"cadence", "civil", "scale", "streak"}
  /\ CadenceInit
  /\ IF walk = "civil" THEN CivilInit
     ELSE /\ day = 0 /\ sec = 0 /\ ran = 0
          /\ regs = set(datetime_from_epoch(0, 0))
  /\ ScaleInit
  /\ StreakInit /\ (pmu.ok => walk = "streak")

SweepNext ==
  /\ UNCHANGED walk
  /\ \/ walk = "cadence" /\ Tick /\ UNCHANGED <<civilVars, scaleVars, streakVars>>
     \/ walk = "civil" /\ DeviceCounts /\ UNCHANGED <<cadenceVars, scaleVars, streakVars>>
     \/ walk = "scale" /\ Sweep /\ UNCHANGED <<cadenceVars, civilVars, streakVars>>
     \/ walk = "streak" /\ StreakNext /\ UNCHANGED <<cadenceVars, civilVars, scaleVars>>

SweepSpec == SweepInit /\ [][SweepNext]_sweepVars
===========================================================================
