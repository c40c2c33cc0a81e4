----------------------------- MODULE HubProofs -----------------------------
(***************************************************************************)
(* Proofs about the whole hub: the invariants of the devices hold together *)
(* in the composition, and the hub implements Availability.                *)
(***************************************************************************)
EXTENDS SensorHub, DeviceProofs

HubInv ==
  /\ TouchInv
  /\ ImuInv
  /\ PmuInv
  /\ RtcInv
  /\ LightInv
  /\ tick \in 0 .. TickWrap - 1

LEMMA HubInitially == Init => HubInv
<1> SUFFICES ASSUME Init PROVE HubInv
  OBVIOUS
<1>1. TouchInv /\ ImuInv /\ PmuInv /\ RtcInv /\ LightInv
  BY TouchInitially, ImuInitially, PmuInitially, RtcInitially, LightInitially DEF Init
<1>2. tick \in 0 .. TickWrap - 1
  BY CadenceAssumption DEF Init
<1>3. QED BY <1>1, <1>2 DEF HubInv

LEMMA HubStep == HubInv /\ [Next]_vars => HubInv'
<1> SUFFICES ASSUME HubInv, [Next]_vars PROVE HubInv'
  OBVIOUS
<1> USE DEF HubInv
<1>1. CASE BringUp
  <2>1. ImuInv'
    BY <1>1, ImuBringUpKeeps DEF BringUp, ImuBringUp
  <2>2. UNCHANGED <<touchVars, pmuVars, rtcVars, lightVars, tick>>
    BY <1>1 DEF BringUp
  <2>3. QED BY <2>1, <2>2, TouchStutter, PmuStutter, RtcStutter, LightStutter
<1>2. CASE HubTick
  <2>1. TouchInv'
    BY <1>2, TouchPollKeeps DEF HubTick
  <2>2. ImuInv'
    BY <1>2, ImuPollKeeps DEF HubTick, ImuDue
  <2>3. PmuInv'
    BY <1>2, PmuPollKeeps, PmuStutter DEF HubTick
  <2>4. RtcInv'
    BY <1>2, RtcTickKeeps DEF HubTick, RtcDue
  <2>5. LightInv'
    BY <1>2, ApplyKeeps DEF HubTick
  <2>6. tick' \in 0 .. TickWrap - 1
    BY <1>2, CadenceAssumption DEF HubTick, NextTick
  <2>7. QED BY <2>1, <2>2, <2>3, <2>4, <2>5, <2>6
<1>3. CASE Environment
  <2>1. ImuInv' /\ PmuInv' /\ tick' \in 0 .. TickWrap - 1
    BY <1>3, ImuStutter, PmuStutter DEF Environment
  <2>2. CASE Finger
    BY <2>1, <2>2, FingerKeeps, RtcStutter, LightStutter DEF Finger
  <2>3. CASE Clock
    BY <2>1, <2>3, ClockKeeps, TouchStutter, LightStutter DEF Clock
  <2>4. CASE Screen
    BY <2>1, <2>4, ScreenKeeps, TouchStutter, RtcStutter DEF Screen
  <2>5. QED BY <1>3, <2>2, <2>3, <2>4 DEF Environment
<1>4. CASE UNCHANGED vars
  BY <1>4, TouchStutter, ImuStutter, PmuStutter, RtcStutter, LightStutter DEF vars
<1>5. QED BY <1>1, <1>2, <1>3, <1>4 DEF Next

(* Every cell of the hub keeps its range, for every set of readings and    *)
(* every cadence. *)
THEOREM HubTypes == Spec => []TypeOK
<1>1. HubInv => TypeOK
  BY DEF HubInv, TypeOK, TouchInv, ImuInv, PmuInv, RtcInv, LightInv
<1>2. QED BY HubInitially, HubStep, <1>1, PTL DEF Spec

(* A device that is still polled has failures to spare: the counters never *)
(* pass the limit, let alone wrap. *)
THEOREM TrackersStayWithinBudget == Spec => []TrackersWithinBudget
<1>1. HubInv => TrackersWithinBudget
  BY DEF HubInv, TrackersWithinBudget, TouchInv, ImuInv, PmuInv, RtcInv
<1>2. QED BY HubInitially, HubStep, <1>1, PTL DEF Spec

(* The safety invariants of the devices hold in the composed hub. *)
THEOREM DevicesStayCoherent ==
  Spec => [](TouchCoherent /\ StateTracksHealth /\ NoBatterySentinels /\ SettledMeansApplied)
<1>1. LightInv => SettledMeansApplied
  BY ClampedInKnob DEF LightInv, LightTypeOK, SettledMeansApplied
<1>2. HubInv => TouchCoherent /\ StateTracksHealth /\ NoBatterySentinels /\ SettledMeansApplied
  BY <1>1 DEF HubInv, TouchInv, ImuInv, PmuInv
<1>3. QED BY HubInitially, HubStep, <1>2, PTL DEF Spec

---------------------------------------------------------------------------
(* The hub implements Availability.  One lemma per device: given up, it    *)
(* stays given up and what it shows stays.                                 *)

LEMMA TouchGone ==
  ASSUME HubInv, [Next]_vars, ~touch.ok
  PROVE  ~touch'.ok /\ UNCHANGED touchPublished
<1>1. CASE PollTouch
  BY <1>1 DEF PollTouch, TouchReadFails, TouchReadDown, TouchReadUp, TouchSkip,
              touchVars, touchPublished
<1>2. CASE FingerMoves \/ UNCHANGED touchVars
  BY <1>2 DEF FingerMoves, touchVars, touchPublished
<1>3. QED
  BY <1>1, <1>2 DEF Next, BringUp, HubTick, Environment, Finger, Clock, Screen, vars

LEMMA ImuGone ==
  ASSUME HubInv, [Next]_vars, imu_phase = "polling", ~imu.ok
  PROVE  /\ imu_phase' = "polling" /\ ~imu'.ok
         /\ UNCHANGED <<IMU_STATE, imuPublished>>
<1>1. IMU_STATE = 0
  BY DEF HubInv, ImuInv, StateTracksHealth, StateOf
<1>2. ASSUME NEW due \in BOOLEAN, PollImu(due)
      PROVE  /\ imu_phase' = "polling" /\ ~imu'.ok
             /\ UNCHANGED <<IMU_STATE, imuPublished>>
  BY <1>1, <1>2 DEF PollImu, ImuReadFails, ImuReadSample, ImuNoRead, imuPublished
<1>3. CASE HubTick
  BY <1>2, <1>3 DEF HubTick, ImuDue
<1>4. CASE BringUp
  BY <1>4 DEF BringUp, ImuProbeFails, ImuResetSent, ImuConfigure
<1>5. CASE UNCHANGED imuVars
  BY <1>5 DEF imuVars, imuPublished
<1>6. QED BY <1>3, <1>4, <1>5 DEF Next, Environment, vars

LEMMA PmuGone ==
  ASSUME HubInv, [Next]_vars, ~pmu.ok
  PROVE  ~pmu'.ok /\ UNCHANGED pmuPublished
<1>1. CASE PollPmu
  BY <1>1 DEF PollPmu, PmuStatusFails, PmuNoBattery, PmuMeasuredPoll, PmuBattery,
              PmuSkip, pmuVars
<1>2. CASE UNCHANGED pmuVars
  BY <1>2 DEF pmuVars
<1>3. QED BY <1>1, <1>2 DEF Next, BringUp, HubTick, Environment, vars

LEMMA RtcGone ==
  ASSUME HubInv, [Next]_vars, ~rtc.ok
  PROVE  ~rtc'.ok /\ UNCHANGED RTC_CLOCK
<1>1. ASSUME NEW due \in BOOLEAN, RtcTick(due)
      PROVE  ~rtc'.ok /\ UNCHANGED RTC_CLOCK
  BY <1>1 DEF RtcTick, HubRtc
<1>2. CASE ChipSecond \/ OscillatorStops \/ \E e \in Commands : PostEpoch(e)
  BY <1>2 DEF ChipSecond, OscillatorStops, PostEpoch
<1>3. CASE UNCHANGED rtcVars
  BY <1>3 DEF rtcVars
<1>4. QED
  BY <1>1, <1>2, <1>3
  DEF Next, BringUp, HubTick, RtcDue, Environment, Finger, Clock, Screen, vars

LEMMA ShownOf ==
  /\ Shown["touch"] = touchPublished
  /\ Shown["imu"] = <<IMU_STATE, imuPublished>>
  /\ Shown["pmu"] = pmuPublished
  /\ Shown["rtc"] = RTC_CLOCK
  /\ DOMAIN Shown = Device
BY DEF Shown, Device

LEMMA ShownNext ==
  /\ Shown'["touch"] = touchPublished'
  /\ Shown'["imu"] = <<IMU_STATE, imuPublished>>'
  /\ Shown'["pmu"] = pmuPublished'
  /\ Shown'["rtc"] = RTC_CLOCK'
  /\ DOMAIN Shown' = Device
BY DEF Shown, Device

LEMMA HubStepIsAvailable == HubInv /\ [Next]_vars => Avail!Poll
<1> SUFFICES ASSUME HubInv, [Next]_vars PROVE Avail!Poll
  OBVIOUS
<1>1. LiveDevices' \subseteq LiveDevices
  BY TouchGone, ImuGone, PmuGone, RtcGone DEF LiveDevices
<1>2. ASSUME NEW d \in Device, d \notin LiveDevices PROVE Shown'[d] = Shown[d]
  <2>1. CASE d = "touch"
    BY <1>2, <2>1, TouchGone, ShownOf, ShownNext DEF LiveDevices
  <2>2. CASE d = "imu"
    BY <1>2, <2>2, ImuGone, ShownOf, ShownNext DEF LiveDevices
  <2>3. CASE d = "pmu"
    BY <1>2, <2>3, PmuGone, ShownOf, ShownNext DEF LiveDevices
  <2>4. CASE d = "rtc"
    BY <1>2, <2>4, RtcGone, ShownOf, ShownNext DEF LiveDevices
  <2>5. QED BY <2>1, <2>2, <2>3, <2>4 DEF Device
<1>3. QED BY <1>1, <1>2, ShownNext DEF Avail!Poll

(* A device that has been given up is never asked again and what the UI    *)
(* sees of it never changes: the hub implements Availability.              *)
THEOREM HubImplementsAvailability == Spec => ImplementsAvailability
<1>1. Init => Avail!Init
  BY ShownOf DEF Avail!Init, LiveDevices
<1>2. HubInv /\ [Next]_vars => [Avail!Poll]_Avail!vars
  BY HubStepIsAvailable
<1>3. QED
  BY HubInitially, HubStep, <1>1, <1>2, PTL DEF Spec, ImplementsAvailability, Avail!Spec

---------------------------------------------------------------------------
(* Liveness of the hub.  tlapm does not reason about ENABLED, so each      *)
(* theorem has as its hypothesis that the guards named below enable their  *)
(* actions; it holds in every state that can be reached.                   *)

(* The bring-up ends, the ticker fires every 15 ms, the UI loop runs.      *)
FairSpec ==
  Spec /\ WF_vars(BringUp) /\ WF_vars(HubTick) /\ WF_vars(Environment /\ TabUpdate)

Polling == imu_phase = "polling"
KnobMoved == system_active /\ slider # last_bl

(* No more than the guards of the three actions FairSpec is fair to: an    *)
(* outcome of the bring-up and of every poll exists, and the tick moves.   *)
HubCanStep ==
  /\ ~Polling => ENABLED <<BringUp>>_vars
  /\ Polling => ENABLED <<HubTick>>_vars
  /\ KnobMoved => ENABLED <<Environment /\ TabUpdate>>_vars

(* The bring-up takes two steps at most. *)
LEMMA BringUpEnds == FairSpec /\ []HubCanStep => <>[]Polling
<1> DEFINE At(phase) == imu_phase = phase
<1> USE DEF ImuBroughtUp, ImuProbeFails, ImuResetSent, ImuConfigure
<1>1. HubInv => At("probe") \/ At("settle") \/ Polling
  BY DEF HubInv, ImuInv, ImuTypeOK, Polling
<1>2. [Next]_vars => BringUp \/ UNCHANGED imu_phase
  BY DEF Next, HubTick, PollImu, ImuReadFails, ImuReadSample, ImuNoRead, Environment, imuVars, vars
<1>3. BringUp => \/ At("probe") /\ (At("settle") \/ Polling)'
                 \/ At("settle") /\ Polling'
  BY DEF BringUp, Polling
<1>4. At("probe") => ~At("settle") /\ ~Polling
  BY DEF Polling
<1>5. At("settle") => ~Polling
  BY DEF Polling
<1>6. At("probe") /\ UNCHANGED imu_phase => At("probe")'
  OBVIOUS
<1>7. At("settle") /\ UNCHANGED imu_phase => At("settle")'
  OBVIOUS
<1>8. Polling /\ UNCHANGED imu_phase => Polling'
  BY DEF Polling
<1> HIDE DEF At
<1>9. QED
  BY HubInitially, HubStep, <1>1, <1>2, <1>3, <1>4, <1>5, <1>6, <1>7, <1>8, PTL DEF FairSpec, Spec, HubCanStep

(* A knob left alone on the visible System tab is in the end what the      *)
(* panel's duty says, for good: the slider's cache and the hub's never     *)
(* keep a value from going all the way (system.rs:115, sensors.rs:320).    *)
THEOREM KnobReachesThePanel == FairSpec /\ []HubCanStep => KnobIsHonest
<1> SUFFICES ASSUME NEW p \in Knob
             PROVE  FairSpec /\ []HubCanStep
                      => (<>[](system_active /\ slider = p) => <>[](duty = p))
  BY DEF KnobIsHonest
<1> DEFINE Left == system_active /\ slider = p
           Sent == last_bl = p
           Applied == applied_backlight = p
           Step == HubInv /\ HubInv' /\ Left /\ Left' /\ [Next]_vars
<1>1. Step => TabUpdate \/ ApplyTick \/ UNCHANGED <<last_bl, BACKLIGHT_PCT, applied_backlight, duty>>
  BY DEF Next, BringUp, HubTick, Environment, Finger, Clock, Screen, Drag, SwitchTab, vars, lightVars, lightUi
<1>2. Step /\ Sent => Sent'
  BY <1>1 DEF TabUpdate, ApplyTick, lightUi
<1>3. Left /\ ~Sent => KnobMoved
  BY DEF KnobMoved
<1>4. Left /\ ~Sent /\ <<Environment /\ TabUpdate>>_vars => Sent'
  BY DEF TabUpdate
<1>5. Step /\ Sent /\ Applied => Applied'
  BY <1>1 DEF HubInv, LightInv, TabUpdate, ApplyTick, Apply, lightUi
<1>6. HubInv /\ Sent /\ <<HubTick>>_vars => Applied'
  BY DEF HubInv, LightInv, HubTick, ApplyTick, Apply
<1>7. HubInv /\ Applied => duty = p
  BY ClampedInKnob DEF HubInv, LightInv, LightTypeOK
<1> HIDE DEF Left, Sent, Applied
<1>8. FairSpec /\ []HubCanStep /\ <>[]Left => <>[]Sent
  BY HubInitially, HubStep, <1>2, <1>3, <1>4, PTL DEF FairSpec, Spec, HubCanStep
<1>9. FairSpec /\ []HubCanStep /\ <>[]Left => <>[]Applied
  BY HubInitially, HubStep, BringUpEnds, <1>5, <1>6, <1>8, PTL DEF FairSpec, Spec, HubCanStep
<1>10. QED BY HubInitially, HubStep, <1>7, <1>9, PTL DEF FairSpec, Spec, Left

(* A finger lifted for good is lifted in the touch cells for good, or the  *)
(* controller is given up after the at most five failures of MAX_FAILURES  *)
(* (sensors.rs, poll_touch): no failure leaves a phantom press.            *)
THEOREM LiftReachesTheCells ==
  ASSUME MaxFailures <= 5
  PROVE  FairSpec /\ []HubCanStep => LiftIsSeen
<1> DEFINE Lifted == finger = NoFinger
           Seen == ~TOUCH_STATE.pressed \/ ~touch.ok
           Failed(n) == TOUCH_STATE.pressed /\ touch.ok /\ touch.failures = n
           Step == HubInv /\ Lifted /\ Lifted' /\ [Next]_vars
<1>1. HubInv => /\ Seen \/ Failed(0) \/ Failed(1) \/ Failed(2) \/ Failed(3) \/ Failed(4)
                /\ ~Failed(5)
  <2> SUFFICES ASSUME HubInv, ~Seen
               PROVE  touch.failures \in Nat /\ touch.failures < 5
    OBVIOUS
  <2>1. touch.failures \in 0 .. MaxFailures /\ touch.failures < MaxFailures
    BY DEF HubInv, TouchInv, TouchTypeOK, HealthState, WithinBudget
  <2>2. MaxFailures \in Nat
    BY MaxFailuresAssumption
  <2>3. QED BY <2>1, <2>2
<1>2. Step => PollTouch \/ UNCHANGED touchVars
  BY DEF Next, BringUp, HubTick, Environment, Finger, FingerMoves, Clock, Screen, vars
<1>3. Step /\ Seen => Seen'
  <2>1. CASE Step /\ Seen /\ TouchReadUp
    BY <2>1 DEF TouchReadUp, touchPublished, HubInv, TouchInv, TouchTypeOK, TouchCoherent, Pointer
  <2>2. CASE Step /\ Seen /\ TouchReadFails
    BY <2>2 DEF TouchReadFails, touchPublished
  <2>3. CASE Step /\ Seen /\ UNCHANGED touchVars
    BY <2>3 DEF touchVars, touchPublished
  <2>4. QED BY <1>2, <2>1, <2>2, <2>3 DEF PollTouch, TouchReadDown, TouchSkip
<1>4. ASSUME NEW n \in Nat
      PROVE  /\ Step /\ Failed(n) => Failed(n)' \/ Failed(n + 1)' \/ Seen'
             /\ Step /\ Failed(n) /\ <<HubTick>>_vars => ~Failed(n)'
  <2>1. ASSUME Failed(n), PollTouch, Step
        PROVE  ~Failed(n)' /\ (Failed(n + 1)' \/ Seen')
    <3>1. CASE TouchReadFails
      BY <2>1, <3>1 DEF TouchReadFails, Check, touchPublished
    <3>2. CASE TouchReadUp
      BY <2>1, <3>2 DEF TouchReadUp, touchPublished, HubInv, TouchInv, TouchTypeOK, TouchCoherent, Pointer
    <3>3. QED
      BY <2>1, <3>1, <3>2 DEF PollTouch, TouchReadDown, TouchSkip
  <2>2. Step /\ Failed(n) /\ UNCHANGED touchVars => Failed(n)'
    BY DEF touchVars, touchPublished
  <2>3. QED BY <1>2, <2>1, <2>2 DEF HubTick
<1>5. /\ Step /\ Failed(0) => Failed(0)' \/ Failed(1)' \/ Seen'
      /\ Step /\ Failed(1) => Failed(1)' \/ Failed(2)' \/ Seen'
      /\ Step /\ Failed(2) => Failed(2)' \/ Failed(3)' \/ Seen'
      /\ Step /\ Failed(3) => Failed(3)' \/ Failed(4)' \/ Seen'
      /\ Step /\ Failed(4) => Failed(4)' \/ Failed(5)' \/ Seen'
  BY <1>4, 0 + 1 = 1, 1 + 1 = 2, 2 + 1 = 3, 3 + 1 = 4, 4 + 1 = 5
<1>6. Step /\ <<HubTick>>_vars =>
        /\ ~(Failed(0) /\ Failed(0)') /\ ~(Failed(1) /\ Failed(1)')
        /\ ~(Failed(2) /\ Failed(2)') /\ ~(Failed(3) /\ Failed(3)') /\ ~(Failed(4) /\ Failed(4)')
  BY <1>4
<1> HIDE DEF Lifted, Seen, Failed
<1>7. FairSpec /\ []HubCanStep /\ <>[]Lifted => <>[]Seen
  BY HubInitially, HubStep, BringUpEnds, <1>1, <1>3, <1>5, <1>6, PTL DEF FairSpec, Spec, HubCanStep
<1>8. QED BY <1>7, PTL DEF LiftIsSeen, Lifted, Seen
===========================================================================
