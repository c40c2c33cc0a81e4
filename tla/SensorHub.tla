----------------------------- MODULE SensorHub -----------------------------
(***************************************************************************)
(* sensor_hub_task: one task owns the I2C bus and polls every device from  *)
(* a ticker.  The body of its loop has no await, so a whole tick, all its  *)
(* bus operations and all it publishes, is one step with respect to the    *)
(* other tasks of the thread executor.  A tick conjoins the steps of the   *)
(* device modules: they share nothing but the tick that says which is due. *)
(***************************************************************************)
EXTENDS TouchPoll, ImuPoll, PmuPoll, RtcPoll, Backlight, Cadence

CONSTANT Fitted    \* devices that may answer their bring-up probe

ASSUME FittedAssumption == Fitted \subseteq {"imu", "pmu", "rtc"}

VARIABLE tick

vars == <<touchVars, imuVars, pmuVars, rtcVars, lightVars, tick>>

TypeOK ==
  /\ TouchTypeOK
  /\ ImuTypeOK
  /\ PmuTypeOK
  /\ RtcTypeOK
  /\ LightTypeOK
  /\ tick \in 0 .. TickWrap - 1

(* The bring-up results of the PMU and the RTC are chosen here and first   *)
(* looked at in the poll loop.                                             *)
Init ==
  /\ TouchInit
  /\ ImuInit
  /\ PmuInit /\ (pmu.ok => "pmu" \in Fitted)
  /\ RtcInit /\ (rtc.ok => "rtc" \in Fitted)
  /\ LightInit
  /\ tick = 0

(* The bring-up of the IMU, with its await; the other probes run in the    *)
(* same stretches of code.                                                 *)
BringUp ==
  /\ \/ ImuProbeFails
     \/ "imu" \in Fitted /\ ImuResetSent
     \/ \E ok \in BOOLEAN : ImuConfigure(ok)
  /\ UNCHANGED <<touchVars, pmuVars, rtcVars, lightVars, tick>>

(* Mutant of HubTick: a PMU that has been given up is given another chance *)
(* when the tick counter wraps.                                            *)
HubTickRetries ==
  /\ imu_phase = "polling"
  /\ tick' = NextTick(tick)
  /\ PollTouch
  /\ PollImu(ImuDue(tick'))
  /\ IF PmuDue(tick')
     THEN \/ PollPmu
          \/ /\ tick' = 0 /\ ~pmu.ok
             /\ pmu' = HealthNew(TRUE)
             /\ UNCHANGED pmuPublished
     ELSE UNCHANGED pmuVars
  /\ RtcTick(RtcDue(tick'))
  /\ ApplyTick

HubTick ==
  /\ imu_phase = "polling"
  /\ tick' = NextTick(tick)
  /\ PollTouch
  /\ PollImu(ImuDue(tick'))
  /\ IF PmuDue(tick') THEN PollPmu ELSE UNCHANGED pmuVars
  /\ RtcTick(RtcDue(tick'))
  /\ ApplyTick

(* What the rest of the system and the world do between two ticks. *)
Finger == FingerMoves /\ UNCHANGED <<rtcVars, lightVars>>

Clock ==
  /\ ChipSecond \/ OscillatorStops \/ \E e \in Commands : PostEpoch(e)
  /\ UNCHANGED <<touchVars, lightVars>>

Screen ==
  /\ (\E p \in Knob : Drag(p)) \/ SwitchTab \/ TabUpdate
  /\ UNCHANGED <<touchVars, rtcVars>>

Environment ==
  /\ Finger \/ Clock \/ Screen
  /\ UNCHANGED <<imuVars, pmuVars, tick>>

Next == BringUp \/ HubTick \/ Environment

Spec == Init /\ [][Next]_vars

---------------------------------------------------------------------------

(* No tracker of a device that is still polled has used up its failures,   *)
(* so the u8 counters stay at or below MaxFailures.                        *)
TrackersWithinBudget ==
  WithinBudget(touch) /\ WithinBudget(imu) /\ WithinBudget(pmu) /\ WithinBudget(rtc)

(* The devices the hub has not given up, and what it shows for each. *)
Device == {"touch", "imu", "pmu", "rtc"}

LiveDevices ==
  {d \in Device :
     \/ d = "touch" /\ touch.ok
     \/ d = "imu" /\ (imu_phase # "polling" \/ imu.ok)
     \/ d = "pmu" /\ pmu.ok
     \/ d = "rtc" /\ rtc.ok}

Shown ==
  [d \in Device |->
     CASE d = "touch" -> touchPublished
       [] d = "imu"   -> <<IMU_STATE, imuPublished>>
       [] d = "pmu"   -> pmuPublished
       [] d = "rtc"   -> RTC_CLOCK]

(* The hub implements Availability: a device is given up at most once, and *)
(* then what the UI sees of it is frozen (IMU_STATE goes to 0 in the very  *)
(* tick that gives the IMU up).  A pressed pointer or a valid time of day  *)
(* freezes too.                                                            *)
Avail == INSTANCE Availability WITH
           Device <- Device, live <- LiveDevices, shown <- Shown

ImplementsAvailability == Avail!Spec
===========================================================================
