--------------------------- MODULE DeviceProofs ---------------------------
(***************************************************************************)
(* Proofs about the device modules of the sensor hub, each on its own, for *)
(* every value of their constants.  Each section is one device: the        *)
(* initial states satisfy its invariant, every step keeps it, and so its   *)
(* specification implies it always.  HubProofs uses the step lemmas.       *)
(***************************************************************************)
EXTENDS TouchPoll, ImuPoll, PmuPoll, RtcPoll, Backlight, HealthFacts

---------------------------------------------------------------------------
(* Touch *)

TouchInv == TouchTypeOK /\ WithinBudget(touch) /\ TouchCoherent

LEMMA TouchInitially == TouchInit => TouchInv
<1> SUFFICES ASSUME TouchInit PROVE TouchInv
  OBVIOUS
<1>1. touch \in HealthState /\ WithinBudget(touch)
  BY NewTracker DEF TouchInit
<1>2. QED
  BY <1>1, PointsAssumption
  DEF TouchInit, TouchInv, TouchTypeOK, TouchCoherent, Pointer, Released

(* One tick keeps the touch invariant, whatever the read returned. *)
LEMMA TouchPollKeeps == TouchInv /\ PollTouch => TouchInv'
<1> SUFFICES ASSUME TouchInv, PollTouch PROVE TouchInv'
  OBVIOUS
<1> USE DEF TouchInv, TouchTypeOK, TouchCoherent, Pointer
<1>1. CASE TouchReadFails
  BY <1>1, CheckOnce DEF TouchReadFails, touchPublished
<1>2. ASSUME NEW p \in Points, TouchReadDown(p) PROVE TouchInv'
  <2>1. touch' \in HealthState /\ WithinBudget(touch')
    BY <1>2, CheckOnce DEF TouchReadDown
  <2>2. QED BY <1>2, <2>1 DEF TouchReadDown, pack
<1>3. CASE TouchReadUp
  <2>1. touch' \in HealthState /\ WithinBudget(touch')
    BY <1>3, CheckOnce DEF TouchReadUp
  <2>2. CASE was_down
    BY <1>3, <2>1, <2>2 DEF TouchReadUp, release_xy
  <2>3. CASE ~was_down
    BY <1>3, <2>1, <2>3 DEF TouchReadUp, touchPublished
  <2>4. QED BY <2>2, <2>3
<1>4. CASE TouchSkip
  BY <1>4 DEF TouchSkip, touchVars, touchPublished, WithinBudget
<1>5. QED BY <1>1, <1>2, <1>3, <1>4 DEF PollTouch

(* The finger does not touch the hub's state. *)
LEMMA FingerKeeps == TouchInv /\ FingerMoves => TouchInv'
BY DEF TouchInv, TouchTypeOK, TouchCoherent, WithinBudget, FingerMoves, touchPublished

LEMMA TouchStutter == TouchInv /\ UNCHANGED touchVars => TouchInv'
BY DEF TouchInv, TouchTypeOK, TouchCoherent, WithinBudget, touchVars, touchPublished

(* The two published cells and the edge state agree in every state of the  *)
(* touch poll, for every failure pattern. *)
THEOREM TouchIsCoherent == TouchSpec => [](TouchTypeOK /\ TouchCoherent)
<1>1. TouchInv /\ [TouchNext]_touchVars => TouchInv'
  BY TouchPollKeeps, FingerKeeps, TouchStutter DEF TouchNext
<1>2. TouchInv => TouchTypeOK /\ TouchCoherent
  BY DEF TouchInv
<1>3. QED BY TouchInitially, <1>1, <1>2, PTL DEF TouchSpec

(* Only a read that found no finger releases the panel. *)
THEOREM ReleaseFollowsLift == TouchSpec => ReleaseNeedsLift
<1>1. TouchInv /\ [TouchNext]_touchVars
        => (TOUCH_STATE.pressed /\ ~TOUCH_STATE'.pressed => finger = NoFinger)
  <2> SUFFICES ASSUME TouchInv, [TouchNext]_touchVars,
                      TOUCH_STATE.pressed, ~TOUCH_STATE'.pressed
               PROVE  finger = NoFinger
    OBVIOUS
  <2>1. CASE FingerMoves
    BY <2>1 DEF FingerMoves, touchPublished
  <2>2. CASE TouchReadFails
    BY <2>2 DEF TouchReadFails, touchPublished
  <2>3. ASSUME NEW p \in Points, TouchReadDown(p) PROVE FALSE
    BY <2>3 DEF TouchReadDown
  <2>4. CASE TouchReadUp
    BY <2>4 DEF TouchReadUp
  <2>5. CASE TouchSkip \/ UNCHANGED touchVars
    BY <2>5 DEF TouchSkip, touchVars, touchPublished
  <2>6. QED BY <2>1, <2>2, <2>3, <2>4, <2>5 DEF TouchNext, PollTouch
<1>2. TouchInv /\ [TouchNext]_touchVars => TouchInv'
  BY TouchPollKeeps, FingerKeeps, TouchStutter DEF TouchNext
<1>3. QED BY TouchInitially, <1>1, <1>2, PTL DEF TouchSpec, ReleaseNeedsLift

---------------------------------------------------------------------------
(* IMU *)

ImuInv == ImuTypeOK /\ WithinBudget(imu) /\ StateTracksHealth

LEMMA ImuInitially == ImuInit => ImuInv
<1> SUFFICES ASSUME ImuInit PROVE ImuInv
  OBVIOUS
<1>1. imu \in HealthState /\ WithinBudget(imu)
  BY NewTracker DEF ImuInit
<1>2. IMU_SEQ \in 0 .. SeqWrap - 1 /\ IMU_SAMPLE \in Samples
  BY SamplesAssumption DEF ImuInit
<1>3. QED
  BY <1>1, <1>2 DEF ImuInit, ImuInv, ImuTypeOK, StateTracksHealth

(* The end of the bring-up, with either verdict. *)
LEMMA ImuBroughtUpKeeps ==
  ASSUME ImuInv, NEW ok \in BOOLEAN, ImuBroughtUp(ok)
  PROVE  ImuInv'
<1>1. imu' \in HealthState /\ WithinBudget(imu')
  BY NewTracker DEF ImuBroughtUp
<1>2. QED
  BY <1>1 DEF ImuBroughtUp, ImuInv, ImuTypeOK, StateTracksHealth, StateOf, imuPublished

LEMMA ImuBringUpKeeps == ImuInv /\ ImuBringUp => ImuInv'
<1> SUFFICES ASSUME ImuInv, ImuBringUp PROVE ImuInv'
  OBVIOUS
<1>1. CASE ImuProbeFails
  BY <1>1, ImuBroughtUpKeeps DEF ImuProbeFails
<1>2. CASE ImuResetSent
  BY <1>2 DEF ImuResetSent, ImuInv, ImuTypeOK, StateTracksHealth, WithinBudget, imuPublished
<1>3. ASSUME NEW ok \in BOOLEAN, ImuConfigure(ok) PROVE ImuInv'
  BY <1>3, ImuBroughtUpKeeps DEF ImuConfigure
<1>4. QED BY <1>1, <1>2, <1>3 DEF ImuBringUp

(* One tick, due or not. *)
LEMMA ImuPollKeeps ==
  ASSUME ImuInv, NEW due \in BOOLEAN, PollImu(due)
  PROVE  ImuInv'
<1> USE DEF ImuInv, ImuTypeOK, StateTracksHealth, StateOf
<1>1. CASE ImuReadFails
  <2>1. imu' \in HealthState /\ WithinBudget(imu')
    BY <1>1, CheckOnce DEF ImuReadFails
  <2>2. QED BY <1>1, <2>1 DEF ImuReadFails, imuPublished
<1>2. ASSUME NEW s \in Samples, ImuReadSample(s) PROVE ImuInv'
  <2>1. imu' \in HealthState /\ WithinBudget(imu')
    BY <1>2, CheckOnce DEF ImuReadSample
  <2>2. imu'.ok
    BY <1>2 DEF ImuReadSample, Check
  <2>3. IMU_SEQ' \in 0 .. SeqWrap - 1
    BY <1>2, SamplesAssumption DEF ImuReadSample
  <2>4. QED BY <1>2, <2>1, <2>2, <2>3 DEF ImuReadSample
<1>3. CASE ImuNoRead
  BY <1>3 DEF ImuNoRead, imuPublished, WithinBudget
<1>4. QED BY <1>1, <1>2, <1>3 DEF PollImu

LEMMA ImuStutter == ImuInv /\ UNCHANGED imuVars => ImuInv'
BY DEF ImuInv, ImuTypeOK, StateTracksHealth, WithinBudget, imuVars, imuPublished

(* What is announced to the UI is what the tracker knows, and nothing is   *)
(* announced before the bring-up is over. *)
THEOREM ImuStateIsHonest == ImuSpec => [](ImuTypeOK /\ StateTracksHealth)
<1>1. ImuInv /\ [ImuNext]_imuVars => ImuInv'
  BY ImuBringUpKeeps, ImuPollKeeps, ImuStutter DEF ImuNext
<1>2. ImuInv => ImuTypeOK /\ StateTracksHealth
  BY DEF ImuInv
<1>3. QED BY ImuInitially, <1>1, <1>2, PTL DEF ImuSpec

---------------------------------------------------------------------------
(* PMU *)

PmuInv == PmuTypeOK /\ WithinBudget(pmu) /\ NoBatterySentinels

LEMMA PmuInitially == PmuInit => PmuInv
<1> SUFFICES ASSUME PmuInit PROVE PmuInv
  OBVIOUS
<1>1. pmu \in HealthState /\ WithinBudget(pmu)
  BY NewTracker DEF PmuInit
<1>2. QED BY <1>1 DEF PmuInit, PmuInv, PmuTypeOK, NoBatterySentinels

LEMMA FlagsAreGated ==
  ASSUME NEW st \in Statuses
  PROVE  /\ FlagsOf(st) \subseteq Flags
         /\ "BATTERY" \in FlagsOf(st) <=> st.battery
         /\ ~st.battery => FlagsOf(st) \cap {"CHARGING", "CHARGE_DONE"} = {}
BY DEF FlagsOf, Flags

LEMMA PmuPollKeeps == PmuInv /\ PollPmu => PmuInv'
<1> SUFFICES ASSUME PmuInv, PollPmu PROVE PmuInv'
  OBVIOUS
<1> USE DEF PmuInv, PmuTypeOK, NoBatterySentinels
<1>1. CASE PmuStatusFails
  <2>1. pmu' \in HealthState /\ WithinBudget(pmu')
    BY <1>1, CheckOnce DEF PmuStatusFails
  <2>2. QED BY <1>1, <2>1 DEF PmuStatusFails, pmuPublished
<1>2. ASSUME NEW st \in Statuses, PmuNoBattery(st) PROVE PmuInv'
  <2>1. pmu' \in HealthState /\ WithinBudget(pmu')
    BY <1>2, CheckOnce DEF PmuNoBattery
  <2>2. QED BY <1>2, <2>1, FlagsAreGated DEF PmuNoBattery
<1>3. ASSUME NEW st \in Statuses, NEW mv_ok \in BOOLEAN, NEW pct_ok \in BOOLEAN,
             NEW mv \in MilliVolts, NEW pct \in Gauge,
             PmuBattery(st, mv_ok, mv, pct_ok, pct)
      PROVE  PmuInv'
  <2>1. pmu' \in HealthState /\ WithinBudget(pmu')
    BY <1>3, CheckAfterSuccess DEF PmuBattery
  <2>2. BAT_MV' \in MilliVolts \cup {0}
    BY <1>3 DEF PmuBattery
  <2>3. BAT_PERCENT' \in (0 .. 100) \cup {Unknown}
    BY <1>3, PmuAssumption DEF PmuBattery, AtMost100
  <2>4. QED BY <1>3, <2>1, <2>2, <2>3, FlagsAreGated DEF PmuBattery
<1>4. CASE PmuSkip
  BY <1>4 DEF PmuSkip, pmuVars, pmuPublished, WithinBudget
<1>5. QED BY <1>1, <1>2, <1>3, <1>4 DEF PollPmu, PmuMeasuredPoll

LEMMA PmuStutter == PmuInv /\ UNCHANGED pmuVars => PmuInv'
BY DEF PmuInv, PmuTypeOK, NoBatterySentinels, WithinBudget, pmuVars, pmuPublished

(* Without a battery the sentinels are published, whatever failed before.  *)
THEOREM SentinelsWithoutBattery == PmuSpec => [](PmuTypeOK /\ NoBatterySentinels)
<1>1. PmuInv /\ [PmuNext]_pmuVars => PmuInv'
  BY PmuPollKeeps, PmuStutter DEF PmuNext
<1>2. PmuInv => PmuTypeOK /\ NoBatterySentinels
  BY DEF PmuInv
<1>3. QED BY PmuInitially, <1>1, <1>2, PTL DEF PmuSpec

(* A poll whose status read succeeds never costs the PMU its place, so     *)
(* polls may fail in a row for ever: the half of AbsentAfterFailedPolls    *)
(* (sensors.rs:11) that no bound on the number of polls can save.  It is   *)
(* the limit above two that does it: two would be reached by the voltage   *)
(* and the gauge read of one poll.                                         *)
THEOREM FailedPollsMayGoOn == PmuSpec => [][PmuMeasuredPoll => pmu'.ok]_pmuVars
<1>1. PmuInv /\ [PmuNext]_pmuVars => (PmuMeasuredPoll => pmu'.ok)
  <2> SUFFICES ASSUME PmuInv, PmuMeasuredPoll PROVE pmu'.ok
    OBVIOUS
  <2>1. PICK st \in Statuses, mv_ok \in BOOLEAN, pct_ok \in BOOLEAN,
             mv \in MilliVolts, pct \in Gauge :
               PmuBattery(st, mv_ok, mv, pct_ok, pct)
    BY DEF PmuMeasuredPoll
  <2>2. QED BY <2>1, CheckAfterSuccess DEF PmuBattery, PmuInv, PmuTypeOK
<1>2. PmuInv /\ [PmuNext]_pmuVars => PmuInv'
  BY PmuPollKeeps, PmuStutter DEF PmuNext
<1>3. QED BY PmuInitially, <1>1, <1>2, PTL DEF PmuSpec

---------------------------------------------------------------------------
(* RTC *)

(* Unless refused bursts may tear, a clear OS flag means a good clock: the *)
(* strengthening that makes TrustedTime inductive.                         *)
ClearFlagMeansGood == ~chip_os => chip_good

RtcInv ==
  /\ RtcTypeOK
  /\ WithinBudget(rtc)
  /\ ~TornWrites => ClearFlagMeansGood /\ TrustedTime

LEMMA RtcInitially == RtcInit => RtcInv
<1> SUFFICES ASSUME RtcInit PROVE RtcInv
  OBVIOUS
<1>1. rtc \in HealthState /\ WithinBudget(rtc)
  BY NewTracker DEF RtcInit
<1>2. 0 \in Moments
  BY EpochAssumption DEF Moments
<1>3. RTC_CLOCK \in Readings /\ ~RTC_CLOCK.valid
  BY <1>2 DEF RtcInit, Unread, Readings
<1>4. chip_good \in BOOLEAN /\ ClearFlagMeansGood
  BY DEF RtcInit, ClearFlagMeansGood
<1>5. QED
  BY <1>1, <1>2, <1>3, <1>4 DEF RtcInit, RtcInv, RtcTypeOK, TrustedTime

LEMMA ReadingType ==
  ASSUME NEW t \in Moments, NEW os \in BOOLEAN, NEW good \in BOOLEAN
  PROVE  /\ Reading(t, os, good) \in Readings
         /\ Reading(t, os, good).valid = ~os
         /\ Reading(t, os, good).good = good
BY DEF Reading, Readings

(* The device on its own, and the SNTP client. *)
LEMMA ClockKeeps ==
  ASSUME RtcInv,
         ChipSecond \/ OscillatorStops \/ \E e \in Commands : PostEpoch(e)
  PROVE  RtcInv'
<1> USE DEF RtcInv, RtcTypeOK, ClearFlagMeansGood, TrustedTime, WithinBudget
<1>1. CASE ChipSecond
  <2>1. chip_time' \in Moments
    BY <1>1, EpochAssumption DEF ChipSecond, Moments
  <2>2. QED BY <1>1, <2>1 DEF ChipSecond
<1>2. CASE OscillatorStops
  BY <1>2 DEF OscillatorStops
<1>3. ASSUME NEW e \in Commands, PostEpoch(e) PROVE RtcInv'
  <2>1. RTC_SET_EPOCH' \in Moments
    BY <1>3 DEF PostEpoch, Commands, Moments
  <2>2. QED BY <1>3, <2>1 DEF PostEpoch, chip
<1>4. QED BY <1>1, <1>2, <1>3

(* One tick: the poll, the set and the re-read, whatever each returned. *)
LEMMA RtcTickKeeps ==
  ASSUME RtcInv, NEW due \in BOOLEAN, RtcTick(due)
  PROVE  RtcInv'
<1>1. PICK readable \in BOOLEAN, settable \in BOOLEAN, rereadable \in BOOLEAN :
             HubRtc(due, readable, settable, rereadable)
  BY DEF RtcTick
<1> DEFINE polled  == due /\ rtc.ok
           h1      == IF polled THEN Check(rtc, readable) ELSE rtc
           setting == RTC_SET_EPOCH # 0 /\ h1.ok
           written == setting /\ settable
           h2      == IF setting THEN Check(h1, settable) ELSE h1
           h3      == IF written THEN Check(h2, rereadable) ELSE h2
<1>2. h1 \in HealthState /\ WithinBudget(h1)
  BY CheckOnce DEF RtcInv, RtcTypeOK
<1>3. h2 \in HealthState /\ WithinBudget(h2) /\ (written => h2.ok)
  <2> HIDE DEF h1
  <2>1. CASE setting
    <3>1. h2 \in HealthState /\ WithinBudget(h2)
      BY <1>2, <2>1, CheckOnce
    <3>2. settable => h2.ok
      BY <2>1 DEF Check
    <3>3. QED BY <3>1, <3>2
  <2>2. CASE ~setting
    BY <1>2, <2>2
  <2>3. QED BY <2>1, <2>2
<1>4. h3 \in HealthState /\ WithinBudget(h3)
  <2> HIDE DEF h1, h2, written
  <2>1. QED BY <1>3, CheckOnce
<1>5. rtc' = h3 /\ RTC_SET_EPOCH' = 0
  BY <1>1 DEF HubRtc
<1>6. IF written THEN WholeBurst(RTC_SET_EPOCH)
      ELSE RefusedBurst \/ UNCHANGED chip
  BY <1>1 DEF HubRtc
<1>7. RTC_CLOCK' = IF written /\ rereadable
                   THEN Reading(RTC_SET_EPOCH, FALSE, TRUE)
                   ELSE IF polled /\ readable
                        THEN Reading(chip_time, chip_os, chip_good) ELSE RTC_CLOCK
  BY <1>1 DEF HubRtc
<1> HIDE DEF h1, h2, h3, setting, written, polled
<1>8. /\ chip_time' \in Moments /\ chip_os' \in BOOLEAN /\ chip_good' \in BOOLEAN
      /\ ~TornWrites => ClearFlagMeansGood'
  <2>1. CASE written
    BY <1>6, <2>1 DEF WholeBurst, ClearFlagMeansGood, RtcInv, RtcTypeOK
  <2>2. CASE ~written
    BY <1>6, <2>2 DEF RefusedBurst, chip, ClearFlagMeansGood, RtcInv, RtcTypeOK
  <2>3. QED BY <2>1, <2>2
<1>9. /\ RTC_CLOCK' \in Readings
      /\ ~TornWrites => TrustedTime'
  <2>1. CASE written /\ rereadable
    BY <1>7, <2>1, ReadingType DEF TrustedTime, RtcInv, RtcTypeOK
  <2>2. CASE ~(written /\ rereadable) /\ polled /\ readable
    BY <1>7, <2>2, ReadingType DEF TrustedTime, ClearFlagMeansGood, RtcInv, RtcTypeOK
  <2>3. CASE ~(written /\ rereadable) /\ ~(polled /\ readable)
    BY <1>7, <2>3 DEF TrustedTime, RtcInv, RtcTypeOK
  <2>4. QED BY <2>1, <2>2, <2>3
<1>10. RTC_SET_EPOCH' \in Moments
  BY <1>5, EpochAssumption DEF Moments
<1>11. QED BY <1>4, <1>5, <1>8, <1>9, <1>10 DEF RtcInv, RtcTypeOK

LEMMA RtcStutter == RtcInv /\ UNCHANGED rtcVars => RtcInv'
BY DEF RtcInv, RtcTypeOK, ClearFlagMeansGood, TrustedTime, WithinBudget, rtcVars, chip

(* If set bursts are all or nothing, a time of day shown as valid comes    *)
(* from a clock that was set as a whole and has run ever since.            *)
THEOREM ShownTimeIsTrusted ==
  RtcSpec => [](RtcTypeOK /\ (~TornWrites => TrustedTime))
<1>1. RtcInv /\ [RtcNext]_rtcVars => RtcInv'
  BY ClockKeeps, RtcTickKeeps, RtcStutter DEF RtcNext
<1>2. RtcInv => RtcTypeOK /\ (~TornWrites => TrustedTime)
  BY DEF RtcInv
<1>3. QED BY RtcInitially, <1>1, <1>2, PTL DEF RtcSpec

(* A command taken out of RTC_SET_EPOCH that leaves the tracker clean went  *)
(* through all of set, re-read and publication: a refused set and a refused *)
(* re-read would each have left a failure behind.                           *)
LEMMA CleanSetStep ==
  ASSUME RtcInv, [RtcNext]_rtcVars,
         RTC_SET_EPOCH # 0, RTC_SET_EPOCH' = 0, rtc'.ok, rtc'.failures = 0
  PROVE  /\ chip_time' = RTC_SET_EPOCH /\ ~chip_os'
         /\ RTC_CLOCK' = Reading(RTC_SET_EPOCH, FALSE, TRUE)
<1>1. PICK due \in BOOLEAN, readable \in BOOLEAN, settable \in BOOLEAN,
           rereadable \in BOOLEAN : HubRtc(due, readable, settable, rereadable)
  BY DEF RtcNext, RtcTick, ChipSecond, OscillatorStops, PostEpoch, Commands, rtcVars
<1> DEFINE h1 == IF due /\ rtc.ok THEN Check(rtc, readable) ELSE rtc
           setting == RTC_SET_EPOCH # 0 /\ h1.ok
           h2 == IF setting THEN Check(h1, settable) ELSE h1
           written == setting /\ settable
           h3 == IF written THEN Check(h2, rereadable) ELSE h2
<1>2. rtc' = h3
  BY <1>1 DEF HubRtc
<1>3. h1 \in HealthState
  BY CheckOnce DEF RtcInv, RtcTypeOK
<1>4. h1.ok
  <2> HIDE DEF h1
  <2>1. CASE ~h1.ok
    BY <1>2, <2>1
  <2>2. QED BY <2>1
<1>5. settable
  <2> HIDE DEF h1
  <2>1. CASE ~settable
    <3>1. rtc' = Check(h1, FALSE)
      BY <1>2, <1>4, <2>1
    <3>2. rtc'.failures = h1.failures + 1
      BY <3>1 DEF Check
    <3>3. QED BY <1>3, <3>2 DEF HealthState
  <2>2. QED BY <2>1
<1>6. written
  BY <1>4, <1>5
<1>7. rereadable
  <2> HIDE DEF h1, h2, written
  <2>1. CASE ~rereadable
    <3>1. rtc' = Check(h2, FALSE) /\ h2 = Check(h1, TRUE)
      BY <1>2, <1>4, <1>5, <1>6, <2>1 DEF h2
    <3>2. rtc'.failures = 1
      BY <3>1 DEF Check
    <3>3. QED BY <3>2
  <2>2. QED BY <2>1
<1>8. /\ WholeBurst(RTC_SET_EPOCH)
      /\ RTC_CLOCK' = Reading(RTC_SET_EPOCH, FALSE, TRUE)
  BY <1>1, <1>4, <1>5, <1>7 DEF HubRtc
<1>9. QED BY <1>8 DEF WholeBurst

(* For clocks of every range and every failure limit: a set command        *)
(* consumed with a clean tracker is in the device and on the screen.       *)
THEOREM CleanSetReachesScreen == RtcSpec => CleanSetIsShown
<1>1. RtcInv /\ [RtcNext]_rtcVars => RtcInv'
  BY ClockKeeps, RtcTickKeeps, RtcStutter DEF RtcNext
<1>2. RtcInv /\ [RtcNext]_rtcVars
        => (RTC_SET_EPOCH # 0 /\ RTC_SET_EPOCH' = 0 /\ rtc'.ok /\ rtc'.failures = 0
              => /\ chip_time' = RTC_SET_EPOCH /\ ~chip_os'
                 /\ RTC_CLOCK' = Reading(RTC_SET_EPOCH, FALSE, TRUE))
  BY CleanSetStep
<1>3. QED BY RtcInitially, <1>1, <1>2, PTL DEF RtcSpec, CleanSetIsShown

---------------------------------------------------------------------------
(* Backlight *)

(* The tab's cache never leaves the cell, and the duty follows the hub's   *)
(* cache: the two halves of SettledMeansApplied.                           *)
LightInv ==
  /\ LightTypeOK
  /\ last_bl = BACKLIGHT_PCT
  /\ applied_backlight # NotApplied => duty = Clamped(applied_backlight)

LEMMA ClampedInKnob == \A p \in Knob : Clamped(p) = p /\ p \in Percent /\ p # NotApplied
BY BacklightAssumption DEF Knob, Clamped, NotApplied

LEMMA LightInitially == LightInit => LightInv
<1>1. 100 \in Knob /\ 100 \in Percent
  BY BacklightAssumption DEF Knob
<1>2. QED BY <1>1 DEF LightInit, LightInv, LightTypeOK

LEMMA ScreenKeeps ==
  ASSUME LightInv, (\E p \in Knob : Drag(p)) \/ SwitchTab \/ TabUpdate
  PROVE  LightInv'
BY DEF LightInv, LightTypeOK, Drag, SwitchTab, TabUpdate, Clamped

LEMMA ApplyKeeps == LightInv /\ ApplyTick => LightInv'
BY ClampedInKnob DEF LightInv, LightTypeOK, ApplyTick, Apply, lightUi, Clamped

LEMMA LightStutter == LightInv /\ UNCHANGED lightVars => LightInv'
BY DEF LightInv, LightTypeOK, lightVars, lightUi, Clamped

(* Once every cache along the path agrees, the panel has the brightness of *)
(* the knob. *)
THEOREM SettledBrightness == LightSpec => [](LightTypeOK /\ SettledMeansApplied)
<1>1. LightInv /\ [LightNext]_lightVars => LightInv'
  BY ScreenKeeps, ApplyKeeps, LightStutter DEF LightNext
<1>2. LightInv => LightTypeOK /\ SettledMeansApplied
  BY ClampedInKnob DEF LightInv, LightTypeOK, SettledMeansApplied
<1>3. QED BY LightInitially, <1>1, <1>2, PTL DEF LightSpec
===========================================================================
