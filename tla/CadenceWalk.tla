---------------------------- MODULE CadenceWalk ---------------------------
(***************************************************************************)
(* The hub's tick counter over its whole range, and the ticks each slow    *)
(* device has been waiting since it was last due.                          *)
(***************************************************************************)
EXTENDS Cadence

VARIABLES tick,
          since    \* ticks since the device was due, or since the start

cadenceVars == <<tick, since>>

Slow == {"imu", "pmu", "rtc"}

Due(d, t) ==
  CASE d = "imu" -> ImuDue(t)
    [] d = "pmu" -> PmuDue(t)
    [] d = "rtc" -> RtcDue(t)

CadenceInit == tick = 0 /\ since = [d \in Slow |-> 0]

Tick ==
  /\ tick' = NextTick(tick)
  /\ since' = [d \in Slow |-> IF Due(d, tick') THEN 0 ELSE since[d] + 1]

CadenceSpec == CadenceInit /\ [][Tick]_cadenceVars

---------------------------------------------------------------------------

(* IMU and PMU never wait longer than their period, at the start and at    *)
(* the wrap of the tick counter included.  The clock's poll may come late, *)
(* by its phase at most, and only in the ticks that follow a wrap (2^32    *)
(* ticks end just short of the clock's turn, and the phase starts over).   *)
WaitsAreBounded ==
  /\ since["imu"] < ImuEvery
  /\ since["pmu"] < SlowEvery
  /\ since["rtc"] < SlowEvery + RtcPhase
  /\ since["rtc"] >= SlowEvery => tick < RtcPhase

(* sensors.rs:131, "staggered by half a period": the clock is polled at    *)
(* least the phase after the PMU, and the PMU at least the rest of the     *)
(* period after the clock, at the wrap of the tick counter as well.  So a  *)
(* tick carries the bus time of only one of them.                          *)
Staggered ==
  [][/\ RtcDue(tick') => since'["pmu"] >= RtcPhase
     /\ PmuDue(tick') => since'["rtc"] >= SlowEvery - RtcPhase]_cadenceVars
===========================================================================
