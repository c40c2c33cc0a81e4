---------------------------- MODULE ViewProofs -----------------------------
(***************************************************************************)
(* Theorems about the UI and the hub together: every step of View is one   *)
(* the hub's own specification allows, so what is proved of the hub holds  *)
(* here; the chart misses no sample; and the view implements Mirror.       *)
(***************************************************************************)
EXTENDS View, HubProofs

---------------------------------------------------------------------------
(* View and the hub. *)

(* SelectTab names the tab, Backlight only whether it is the System tab.   *)
TabInv == system_active = (tab = "System")

LEMMA ViewStepIsHubStep ==
  ASSUME TabInv, [ViewNext]_viewVars
  PROVE  [Next]_vars /\ TabInv'
<1> USE DEF TabInv
<1>1. CASE Hub
  <2>1. Next
    BY <1>1 DEF Hub, Next
  <2>2. UNCHANGED system_active
    BY <1>1 DEF Hub, BringUp, HubTick, ApplyTick, lightVars, lightUi
  <2>3. UNCHANGED tab
    BY <1>1 DEF Hub, ui
  <2>4. QED BY <2>1, <2>2, <2>3
<1>2. CASE World
  <2>1. UNCHANGED tab
    BY <1>2 DEF World, ui
  <2>2. CASE WifiPublishes
    BY <2>1, <2>2 DEF WifiPublishes, vars, lightVars, lightUi
  <2>3. CASE (Finger \/ Clock) /\ UNCHANGED <<imuVars, pmuVars, tick, cells>>
    BY <2>1, <2>3 DEF Next, Environment, Finger, Clock, lightVars, lightUi
  <2>4. QED BY <1>2, <2>2, <2>3 DEF World
<1>3. ASSUME NEW fires \in BOOLEAN, LvglHandles(fires)
      PROVE  [Next]_vars /\ TabInv'
  <2>0. UNCHANGED <<touchVars, imuVars, pmuVars, rtcVars, tick>>
    BY <1>3 DEF LvglHandles
  <2>1. CASE UNCHANGED <<tab, lightVars, playInputs>>
    BY <2>0, <2>1 DEF vars, lightVars, lightUi
  <2>2. ASSUME NEW t \in Tabs \ {tab}, SelectTab(t)
        PROVE  [Next]_vars /\ TabInv'
    <3>1. TabInv'
      BY <2>2 DEF SelectTab
    <3>2. CASE system_active' = ~system_active
      <4>1. SwitchTab
        BY <2>2, <3>2 DEF SelectTab, SwitchTab
      <4>2. QED BY <2>0, <3>1, <4>1 DEF Next, Environment, Screen
    <3>3. CASE system_active' = system_active
      BY <2>0, <2>2, <3>1, <3>3 DEF SelectTab, vars, lightVars, lightUi
    <3>4. system_active \in BOOLEAN /\ system_active' \in BOOLEAN
      BY <2>2 DEF SelectTab
    <3>5. QED BY <3>2, <3>3, <3>4
  <2>3. ASSUME NEW p \in Knob, Drag(p), UNCHANGED <<tab, playInputs>>
        PROVE  [Next]_vars /\ TabInv'
    BY <2>0, <2>3 DEF Next, Environment, Screen, Drag
  <2>4. CASE UNCHANGED <<tab, lightVars>>
    BY <2>0, <2>4 DEF vars, lightVars, lightUi
  <2>5. QED BY <1>3, <2>1, <2>2, <2>3, <2>4 DEF LvglHandles, Gesture
<1>4. CASE Update
  <2>1. UNCHANGED <<touchVars, imuVars, pmuVars, rtcVars, tick, tab>>
    BY <1>4 DEF Update
  <2>2. CASE TabUpdate
    BY <2>1, <2>2 DEF Next, Environment, Screen, TabUpdate
  <2>3. CASE UNCHANGED lightVars
    BY <2>1, <2>3 DEF vars, lightVars, lightUi
  <2>4. QED BY <1>4, <2>2, <2>3 DEF Update, SystemUpdate
<1>5. CASE UNCHANGED viewVars
  BY <1>5 DEF viewVars, vars, lightVars, lightUi
<1>6. QED BY <1>1, <1>2, <1>3, <1>4, <1>5 DEF ViewNext

LEMMA ViewInitially == ViewInit => Init /\ TabInv
BY DEF ViewInit, Init, LightInit, TabInv

(* The UI moves the slider, switches tabs and posts the backlight command  *)
(* in no way but those the hub was checked and proved against: every       *)
(* behaviour of View is one of SensorHub.                                  *)
THEOREM ViewImplementsHub == ViewSpec => Spec
<1>1. ViewInit => Init /\ TabInv
  BY ViewInitially
<1>2. TabInv /\ [ViewNext]_viewVars => [Next]_vars /\ TabInv'
  BY ViewStepIsHubStep
<1>3. QED BY <1>1, <1>2, PTL DEF ViewSpec, Spec

---------------------------------------------------------------------------
(* The chart. *)

(* While the device is there, or not yet configured, the tab's cache and   *)
(* the chart agree and lag the hub by what was not seen yet.  OneUnseen is *)
(* what the code relies on: the UI loop runs more often than the IMU is    *)
(* read.                                                                   *)
OneUnseen == MaxUnseen = 1

PlotInv ==
  /\ unseen \in 0 .. MaxUnseen
  /\ last_seq \in 0 .. SeqWrap - 1 /\ chart \in 0 .. SeqWrap - 1
  /\ IMU_SEQ \in 0 .. SeqWrap - 1
  /\ imu_phase # "polling" => IMU_SEQ = 0 /\ chart = 0 /\ last_seq = 0 /\ unseen = 0
  /\ IMU_STATE = 1 =>
       /\ last_seq = chart
       /\ IMU_SEQ = IF chart + unseen = SeqWrap THEN 0 ELSE chart + unseen

LEMMA PlotInitially == ViewInit => PlotInv
BY MaxUnseenAssumption, SamplesAssumption
DEF ViewInit, Init, ImuInit, ImuTabCreate, PlotInv

(* A hub step moves the counter by one or not at all, and never while or   *)
(* after the device is announced as absent.                                *)
LEMMA PlotHub ==
  ASSUME OneUnseen, ImuInv, PlotInv, Hub
  PROVE  PlotInv'
<1> USE MaxUnseenAssumption, SamplesAssumption
    DEF PlotInv, OneUnseen, ImuInv, ImuTypeOK, StateTracksHealth, StateOf
<1>1. /\ unseen' = IF IMU_SEQ' # IMU_SEQ THEN unseen + 1 ELSE unseen
      /\ unseen' <= MaxUnseen
      /\ UNCHANGED <<last_seq, chart>>
  BY DEF Hub, CountSample, imuTab
<1>2. CASE BringUp
  <2>1. UNCHANGED IMU_SEQ /\ imu_phase # "polling"
    BY <1>2 DEF BringUp, ImuProbeFails, ImuResetSent, ImuConfigure, ImuBroughtUp, imuPublished
  <2>2. QED BY <1>1, <2>1
<1>3. CASE HubTick
  <2>1. PICK polled \in BOOLEAN : PollImu(polled)
    BY <1>3 DEF HubTick, ImuDue
  <2>2. imu_phase = "polling" /\ imu_phase' = "polling"
    BY <2>1 DEF PollImu, ImuReadFails, ImuReadSample, ImuNoRead
  <2>3. CASE ImuReadFails \/ ImuNoRead
    <3>1. UNCHANGED IMU_SEQ /\ (IMU_STATE' = 1 => IMU_STATE = 1)
      BY <2>3 DEF ImuReadFails, ImuNoRead, imuPublished
    <3>2. QED BY <1>1, <2>2, <3>1
  <2>4. ASSUME NEW s \in Samples, ImuReadSample(s)
        PROVE  PlotInv'
    <3>1. IMU_SEQ' = (IMU_SEQ + 1) % SeqWrap /\ IMU_STATE' = 1 /\ IMU_STATE = 1
      BY <2>2, <2>4 DEF ImuReadSample
    <3>2. IMU_SEQ' = IF IMU_SEQ + 1 = SeqWrap THEN 0 ELSE IMU_SEQ + 1
      BY <3>1
    <3>3. IMU_SEQ' # IMU_SEQ /\ IMU_SEQ' \in 0 .. SeqWrap - 1
      BY <3>2
    <3>4. unseen = 0 /\ unseen' = 1
      BY <1>1, <3>3
    <3>5. QED BY <1>1, <2>2, <3>1, <3>2, <3>3, <3>4
  <2>5. QED BY <2>1, <2>3, <2>4 DEF PollImu
<1>4. QED BY <1>2, <1>3 DEF Hub

(* An update catches up. *)
LEMMA PlotUpdate ==
  ASSUME OneUnseen, ImuInv, PlotInv, NEW active \in BOOLEAN,
         ImuTabUpdate(active), UNCHANGED imuVars
  PROVE  PlotInv'
<1> USE MaxUnseenAssumption, SamplesAssumption
    DEF PlotInv, OneUnseen, ImuInv, ImuTypeOK, StateTracksHealth
<1>1. unseen' = 0 /\ UNCHANGED <<imu_phase, IMU_STATE, IMU_SEQ>>
  BY DEF ImuTabUpdate, imuVars, imuPublished
<1>2. CASE UpdateAbsent
  BY <1>1, <1>2 DEF UpdateAbsent
<1>3. CASE UpdateNothingNew
  <2>1. IMU_STATE = 1 /\ IMU_SEQ = last_seq /\ UNCHANGED <<last_seq, chart>>
    BY <1>3 DEF UpdateNothingNew, imuTab
  <2>2. QED BY <1>1, <2>1
<1>4. CASE UpdateSample(active)
  <2>1. IMU_STATE = 1 /\ IMU_SEQ # last_seq /\ last_seq' = IMU_SEQ
    BY <1>4 DEF UpdateSample
  <2>2. chart' = (chart + 1) % SeqWrap
    BY <1>4 DEF UpdateSample
  <2>3. chart' = IF chart + 1 = SeqWrap THEN 0 ELSE chart + 1
    BY <2>2
  <2>4. unseen = 1
    BY <2>1
  <2>5. chart' = IMU_SEQ
    BY <2>1, <2>3, <2>4
  <2>6. QED BY <1>1, <2>1, <2>5
<1>5. QED BY <1>2, <1>3, <1>4 DEF ImuTabUpdate

LEMMA PlotStep ==
  ASSUME OneUnseen, ImuInv, PlotInv, [ViewNext]_viewVars
  PROVE  PlotInv'
<1>1. CASE Hub
  BY <1>1, PlotHub
<1>2. CASE Update
  BY <1>2, PlotUpdate DEF Update
<1>3. CASE UNCHANGED <<imuVars, imuTabVars>>
  BY <1>3 DEF PlotInv, imuVars, imuPublished, imuTabVars, imuTab
<1>4. CASE World \/ (\E fires \in BOOLEAN : LvglHandles(fires)) \/ UNCHANGED viewVars
  BY <1>3, <1>4 DEF World, WifiPublishes, LvglHandles, viewVars, vars, tabsVars
<1>5. QED BY <1>1, <1>2, <1>4 DEF ViewNext

(* If the UI loop runs between any two samples, each of them becomes one   *)
(* point of the chart, for every wrap of the counter and however the       *)
(* device comes, fails and goes.                                           *)
THEOREM ChartIsContinuous ==
  ASSUME OneUnseen
  PROVE  ViewSpec => []EverySampleIsPlotted
<1>1. PlotInv => EverySampleIsPlotted
  BY SamplesAssumption, MaxUnseenAssumption DEF PlotInv, EverySampleIsPlotted
<1>2. ViewInit => HubInv /\ TabInv /\ PlotInv
  BY ViewInitially, HubInitially, PlotInitially
<1>3. HubInv /\ TabInv /\ PlotInv /\ [ViewNext]_viewVars
        => HubInv' /\ TabInv' /\ PlotInv'
  BY HubStep, ViewStepIsHubStep, PlotStep DEF HubInv
<1>4. QED BY <1>1, <1>2, <1>3, PTL DEF ViewSpec

---------------------------------------------------------------------------
(* The view implements Mirror. *)

(* What the caches know.  A cache and its label may disagree only before   *)
(* the label was first rendered: then the cached value is one the source   *)
(* no longer has, or, for the slider, one it cannot take before the tab    *)
(* has been updated.                                                       *)
HomeCaches ==
  /\ home.clock.text = clock_text(home.clock.last)
  /\ home.date.text = home.date.last
  /\ home.date.last # 0 => RTC_CLOCK.read
  /\ \/ home.wifi.text = wifi_text(home.wifi.last[1], home.wifi.last[2])
     \/ home.wifi.last[1] = "UNCONFIGURED" /\ WIFI_STATE # "UNCONFIGURED"
  /\ \/ home.battery.text = battery_text(home.battery.last)
     \/ home.battery.last[2] = 0 /\ home.battery.last[3] = {}

PlayCaches ==
  /\ play.taps.text = play.taps.last
  /\ play.led.text = play.led.last
  /\ play.roller.text = play.roller.last
  /\ play.coords.text = coords_text(play.coords.last)
  /\ play.slider.text # play.slider.last
       => play.slider.last # knob /\ (tab = "Play" => due)

(* Nothing is rendered outside Update, and no source goes back to the      *)
(* value its cache was created with.                                       *)
LEMMA CachesInitially == ViewInit => HomeCaches /\ PlayCaches
<1> SUFFICES ASSUME ViewInit PROVE HomeCaches /\ PlayCaches
  OBVIOUS
<1>1. HomeCreate /\ PlayCreate /\ tab = "Home" /\ WIFI_IP = NoAddress
  BY DEF ViewInit
<1>2. PlayCaches
  BY <1>1 DEF PlayCreate, PlayCaches, Label, coords_text, Released
<1>3. HomeCaches
  <2>1. /\ home.clock.text = clock_text(home.clock.last)
        /\ home.date.text = home.date.last /\ home.date.last = 0
        /\ home.battery.last[2] = 0 /\ home.battery.last[3] = {}
    BY <1>1 DEF HomeCreate, Label, clock_text
  <2>2. home.wifi.last = <<"UNCONFIGURED", NoAddress>>
        /\ home.wifi.text = wifi_text(WIFI_STATE, NoAddress)
    BY <1>1 DEF HomeCreate, Label
  <2>3. \/ home.wifi.text = wifi_text(home.wifi.last[1], home.wifi.last[2])
        \/ home.wifi.last[1] = "UNCONFIGURED" /\ WIFI_STATE # "UNCONFIGURED"
    BY <2>2
  <2>4. QED BY <2>1, <2>3 DEF HomeCaches
<1>4. QED BY <1>2, <1>3

(* A date once read stays read. *)
LEMMA ReadStaysRead ==
  ASSUME [Next]_vars, RTC_CLOCK.read
  PROVE  RTC_CLOCK'.read
<1>1. ASSUME NEW polled \in BOOLEAN, RtcTick(polled)
      PROVE  RTC_CLOCK'.read
  BY <1>1 DEF RtcTick, HubRtc, Reading
<1>2. CASE ChipSecond \/ OscillatorStops \/ \E e \in Commands : PostEpoch(e)
  BY <1>2 DEF ChipSecond, OscillatorStops, PostEpoch
<1>3. CASE UNCHANGED rtcVars
  BY <1>3 DEF rtcVars
<1>4. QED
  BY <1>1, <1>2, <1>3
  DEF Next, BringUp, HubTick, RtcDue, Environment, Finger, Clock, Screen, vars

(* Between two passes: no pass is called off, and a widget of the Play tab *)
(* moves only when the tab has been brought up to date.                    *)
LEMMA PassStaysDue ==
  ASSUME Hub \/ World \/ (\E fires \in BOOLEAN : LvglHandles(fires)) \/ UNCHANGED viewVars
  PROVE  /\ due => due'
         /\ tab' = tab \/ due'
         /\ knob' = knob \/ (tab = "Play" /\ ~due)
<1>1. CASE UNCHANGED <<due, tab, knob>>
  <2>1. due' = due
    BY <1>1
  <2>2. due => due'
    BY <2>1, Zenon
  <2>3. tab' = tab /\ knob' = knob
    BY <1>1
  <2>4. QED BY <2>2, <2>3, Zenon
<1>2. ASSUME NEW fires \in BOOLEAN, LvglHandles(fires)
      PROVE  /\ ~due /\ due'
             /\ knob' = knob \/ tab = "Play"
  <2>1. ~due /\ due'
    BY <1>2 DEF LvglHandles
  <2>2. Gesture
    BY <1>2 DEF LvglHandles
  <2>3. knob' = knob \/ tab = "Play"
    BY <2>2 DEF Gesture, SelectTab, playInputs
  <2>4. QED BY <2>1, <2>3
<1>3. Hub \/ World \/ UNCHANGED viewVars => UNCHANGED <<due, tab, knob>>
  BY DEF Hub, World, ui, playVars, playInputs, viewVars, tabsVars
<1>4. QED BY <1>1, <1>2, <1>3

LEMMA CachesElsewhere ==
  ASSUME TabInv, HomeCaches, PlayCaches,
         Hub \/ World \/ (\E fires \in BOOLEAN : LvglHandles(fires)) \/ UNCHANGED viewVars
  PROVE  HomeCaches' /\ PlayCaches' /\ UNCHANGED <<home, play>>
<1>1. UNCHANGED <<home, play>>
  BY DEF Hub, World, WifiPublishes, LvglHandles, ui, homeVars, playVars, viewVars, tabsVars
<1>2. RTC_CLOCK.read => RTC_CLOCK'.read
  BY ViewStepIsHubStep, ReadStaysRead DEF ViewNext
<1>3. WIFI_STATE # "UNCONFIGURED" => WIFI_STATE' # "UNCONFIGURED"
  BY DEF Hub, World, WifiPublishes, LvglHandles, cells, viewVars
<1>4. HomeCaches'
  BY <1>1, <1>2, <1>3 DEF HomeCaches, clock_text, wifi_text, battery_text, charge_state
<1>5. PlayCaches'
  BY <1>1, PassStaysDue DEF PlayCaches, coords_text
<1>6. QED BY <1>1, <1>4, <1>5

LEMMA DiffIsFresh ==
  ASSUME NEW label, NEW value, NEW text,
         value = label.last => label.text = text
  PROVE  Diff(label, value, text).text = text /\ Diff(label, value, text).last = value
BY DEF Diff, Label

(* A date that was read is never 0, "no date". *)
LEMMA DateFromOne ==
  ASSUME RtcInv, RTC_CLOCK.read
  PROVE  RTC_DATE # 0
<1>1. RTC_CLOCK.at \in Nat
  BY EpochAssumption DEF RtcInv, RtcTypeOK, Readings, Moments
<1>2. \A t \in Nat, n \in Nat \ {0} : t \div n \in Nat
  OBVIOUS
<1>3. QED BY <1>1, <1>2, DayAssumption DEF RTC_DATE

(* One pass: what is visible is what it should be, the rest stays. *)
LEMMA HomeRefreshes ==
  ASSUME HomeCaches, PmuInv, RtcInv, Update
  PROVE  /\ HomeCaches'
         /\ home'.clock.text = clock_text(RTC_HMS)
         /\ home'.date.text = RTC_DATE
         /\ home'.wifi.text = wifi_text(WIFI_STATE, WIFI_IP)
         /\ home'.battery.text = battery_text(Bat)
<1> DEFINE w == <<WIFI_STATE, WIFI_IP>>
           date == IF RTC_DATE # 0 THEN RTC_DATE ELSE home.date.text
<1>1. /\ home'.clock = Diff(home.clock, RTC_HMS, clock_text(RTC_HMS))
      /\ home'.date = Diff(home.date, RTC_DATE, date)
      /\ home'.wifi = Diff(home.wifi, w, wifi_text(WIFI_STATE, WIFI_IP))
      /\ home'.battery = Diff(home.battery, Bat, battery_text(Bat))
  BY DEF Update, HomeUpdate
<1>2. UNCHANGED <<WIFI_STATE, WIFI_IP, RTC_CLOCK, BAT_MV, BAT_PERCENT, PMU_FLAGS>>
  BY DEF Update, cells, rtcVars, pmuVars, pmuPublished
<1>3. home'.clock.text = clock_text(RTC_HMS) /\ home'.clock.last = RTC_HMS
  <2>1. RTC_HMS = home.clock.last => home.clock.text = clock_text(RTC_HMS)
    BY DEF HomeCaches
  <2>2. QED BY <1>1, <2>1, DiffIsFresh
<1>4. home'.date.text = RTC_DATE /\ home'.date.last = RTC_DATE
  <2>1. RTC_DATE = home.date.last => home.date.text = date
    BY DEF HomeCaches
  <2>2. home'.date.text = date /\ home'.date.last = RTC_DATE
    BY <1>1, <2>1, DiffIsFresh
  <2>3. CASE RTC_DATE # 0
    BY <2>2, <2>3
  <2>4. CASE RTC_DATE = 0
    <3>1. ~RTC_CLOCK.read
      BY <2>4, DateFromOne
    <3>2. home.date.last = 0
      BY <3>1 DEF HomeCaches
    <3>3. QED BY <2>2, <2>4, <3>2 DEF HomeCaches
  <2>5. QED BY <2>3, <2>4
<1>5. /\ home'.wifi.text = wifi_text(WIFI_STATE, WIFI_IP)
      /\ home'.wifi.last = w
  <2>1. w = home.wifi.last => home.wifi.text = wifi_text(WIFI_STATE, WIFI_IP)
    BY DEF HomeCaches
  <2>2. QED BY <1>1, <2>1, DiffIsFresh
<1>6. home'.battery.text = battery_text(Bat) /\ home'.battery.last = Bat
  <2>1. ~(BAT_PERCENT = 0 /\ PMU_FLAGS = {})
    BY PmuAssumption DEF PmuInv, NoBatterySentinels
  <2>2. Bat = home.battery.last => home.battery.text = battery_text(Bat)
    BY <2>1 DEF HomeCaches, Bat
  <2>3. QED BY <1>1, <2>2, DiffIsFresh
<1>7. HomeCaches'
  <2>1. RTC_DATE # 0 => RTC_CLOCK.read
    BY DEF RTC_DATE
  <2>2. home'.clock.text = clock_text(home'.clock.last)
    BY <1>3
  <2>3. home'.wifi.text = wifi_text(home'.wifi.last[1], home'.wifi.last[2])
    BY <1>5
  <2>4. home'.battery.text = battery_text(home'.battery.last)
    BY <1>6
  <2>5. QED
    BY <1>2, <1>4, <2>1, <2>2, <2>3, <2>4
    DEF HomeCaches, clock_text, wifi_text, battery_text, charge_state
<1>8. QED BY <1>3, <1>4, <1>5, <1>6, <1>7

LEMMA PlayRefreshes ==
  ASSUME PlayCaches, Update
  PROVE  /\ PlayCaches'
         /\ play'.taps.text = TAPS
         /\ tab = "Play" => /\ play'.slider.text = knob
                            /\ play'.led.text = switch
                            /\ play'.roller.text = selected
                            /\ play'.coords.text = coords_text(TOUCH_XY)
         /\ tab # "Play" => UNCHANGED <<play.slider, play.led, play.roller, play.coords>>
<1>1. UNCHANGED <<tab, knob>>
  BY DEF Update, playInputs
<1>2. play'.taps.text = TAPS /\ play'.taps.last = TAPS
  <2>1. play'.taps = Diff(play.taps, TAPS, TAPS)
    BY DEF Update, PlayUpdate
  <2>2. QED BY <2>1, DiffIsFresh DEF PlayCaches
<1>3. CASE tab = "Play"
  <2>1. /\ play'.slider = Diff(play.slider, knob, knob)
        /\ play'.led = Diff(play.led, switch, switch)
        /\ play'.roller = Diff(play.roller, selected, selected)
        /\ play'.coords = Diff(play.coords, TOUCH_XY, coords_text(TOUCH_XY))
    BY <1>3 DEF Update, PlayUpdate
  <2>2. play'.led.text = switch /\ play'.led.last = switch
    BY <2>1, DiffIsFresh DEF PlayCaches
  <2>3. play'.roller.text = selected /\ play'.roller.last = selected
    BY <2>1, DiffIsFresh DEF PlayCaches
  <2>4. play'.coords.text = coords_text(TOUCH_XY) /\ play'.coords.last = TOUCH_XY
    <3>1. TOUCH_XY = play.coords.last => play.coords.text = coords_text(TOUCH_XY)
      BY DEF PlayCaches
    <3>2. QED BY <2>1, <3>1, DiffIsFresh
  <2>5. play'.slider.text = knob /\ play'.slider.last = knob
    <3>1. knob = play.slider.last => play.slider.text = knob
      BY DEF PlayCaches
    <3>2. QED BY <2>1, <3>1, DiffIsFresh
  <2>6. PlayCaches'
    <3>1. play'.coords.text = coords_text(play'.coords.last)
      BY <2>4
    <3>2. QED BY <1>2, <2>2, <2>3, <2>5, <3>1 DEF PlayCaches, coords_text
  <2>7. QED BY <1>2, <1>3, <2>2, <2>3, <2>4, <2>5, <2>6
<1>4. CASE tab # "Play"
  <2>1. /\ play'.slider = play.slider /\ play'.led = play.led
        /\ play'.roller = play.roller /\ play'.coords = play.coords
    BY <1>4 DEF Update, PlayUpdate
  <2>2. PlayCaches'
    BY <1>1, <1>2, <1>4, <2>1 DEF PlayCaches, coords_text
  <2>3. QED BY <1>2, <1>4, <2>1, <2>2
<1>5. QED BY <1>3, <1>4

FieldNames == Always \cup PlayOnly \cup {"backlight"}

LEMMA FieldsOfView ==
  /\ DOMAIN Source = FieldNames /\ DOMAIN Source' = FieldNames
  /\ DOMAIN ShownFields = FieldNames
  /\ ShownFields' = [f \in FieldNames |-> ShownFields'[f]]
BY DEF Source, ShownFields, FieldNames, Always, PlayOnly

LEMMA PassRefreshes ==
  ASSUME HubInv, TabInv, HomeCaches, PlayCaches, Update
  PROVE  Fields!Refresh
<1>1. due /\ due' = FALSE
  BY DEF Update
<1>2. UNCHANGED <<Source, Visible>>
  <2>1. UNCHANGED <<RTC_CLOCK, WIFI_STATE, WIFI_IP, BAT_MV, BAT_PERCENT, PMU_FLAGS,
                    TAPS, knob, switch, selected, TOUCH_XY, tab>>
    BY DEF Update, cells, rtcVars, pmuVars, pmuPublished, touchVars, touchPublished, playInputs
  <2>2. UNCHANGED slider
    BY DEF Update, SystemUpdate, TabUpdate, lightVars, lightUi
  <2>3. QED
    BY <2>1, <2>2
    DEF Source, Visible, RTC_HMS, RTC_DATE, Bat, clock_text, wifi_text, battery_text,
        charge_state, coords_text
<1>3. ShownFields' = [f \in DOMAIN Source |-> IF f \in Visible THEN Source[f] ELSE ShownFields[f]]
  <2>1. HomeCaches' /\ UNCHANGED tab
    BY HomeRefreshes DEF HubInv, Update
  <2>2. ASSUME NEW f \in {"clock", "date", "wifi", "battery"}
        PROVE  f \in Visible /\ ShownFields'[f] = Source[f]
    BY HomeRefreshes DEF HubInv, Visible, Always, ShownFields, Source
  <2>3. "taps" \in Visible /\ ShownFields'["taps"] = Source["taps"]
    BY PlayRefreshes DEF Visible, Always, ShownFields, Source
  <2>4. ASSUME NEW f \in PlayOnly
        PROVE  ShownFields'[f] = IF f \in Visible THEN Source[f] ELSE ShownFields[f]
    <3>1. CASE tab = "Play"
      BY <3>1, PlayRefreshes DEF Visible, PlayOnly, ShownFields, Source
    <3>2. CASE tab # "Play"
      BY <3>2, PlayRefreshes DEF Visible, Always, PlayOnly, ShownFields, Source
    <3>3. QED BY <3>1, <3>2
  <2>5. ShownFields'["backlight"]
          = IF "backlight" \in Visible THEN Source["backlight"] ELSE ShownFields["backlight"]
    <3>1. last_bl' = IF tab = "System" THEN slider ELSE last_bl
      BY DEF Update, SystemUpdate, TabUpdate, lightVars, lightUi
    <3>2. "backlight" \in Visible <=> tab = "System"
      BY DEF Visible, Always, PlayOnly
    <3>3. QED BY <3>1, <3>2 DEF ShownFields, Source
  <2>6. \A f \in FieldNames :
          ShownFields'[f] = IF f \in Visible THEN Source[f] ELSE ShownFields[f]
    BY <2>2, <2>3, <2>4, <2>5 DEF FieldNames, Always
  <2>7. QED BY <2>6, FieldsOfView
<1>4. QED BY <1>1, <1>2, <1>3 DEF Fields!Refresh

(* The view implements Mirror: for every way the sources move, hidden or   *)
(* visible, a pass leaves no visible field behind.                         *)
THEOREM ViewImplementsMirror == ViewSpec => ImplementsMirror
<1> DEFINE Inv == HubInv /\ TabInv /\ HomeCaches /\ PlayCaches
<1>1. ViewInit => Inv /\ Fields!Init
  BY ViewInitially, HubInitially, CachesInitially, FieldsOfView DEF Fields!Init
<1>2. Inv /\ [ViewNext]_viewVars => Inv' /\ [Fields!Refresh \/ Fields!Elsewhere]_Fields!vars
  <2> SUFFICES ASSUME Inv, [ViewNext]_viewVars
               PROVE  Inv' /\ [Fields!Refresh \/ Fields!Elsewhere]_Fields!vars
    OBVIOUS
  <2>1. HubInv' /\ TabInv'
    BY HubStep, ViewStepIsHubStep
  <2>2. CASE Update
    BY <2>1, <2>2, HomeRefreshes, PlayRefreshes, PassRefreshes DEF HubInv
  <2>3. CASE Hub \/ World \/ (\E fires \in BOOLEAN : LvglHandles(fires)) \/ UNCHANGED viewVars
    <3>1. HomeCaches' /\ PlayCaches' /\ UNCHANGED <<home, play>>
      BY <2>3, CachesElsewhere
    <3>2. UNCHANGED last_bl
      BY <2>3
      DEF Hub, World, WifiPublishes, Finger, Clock, LvglHandles, Gesture, SelectTab, Drag,
          BringUp, HubTick, ApplyTick, lightVars, lightUi, viewVars, vars
    <3>3. UNCHANGED ShownFields
      BY <3>1, <3>2 DEF ShownFields
    <3>4. due => due'
      BY <2>3, PassStaysDue
    <3>5. Fields!Elsewhere
      BY <3>3, <3>4, FieldsOfView DEF Fields!Elsewhere
    <3>6. QED BY <2>1, <3>1, <3>5
  <2>4. QED BY <2>2, <2>3 DEF ViewNext
<1>3. QED BY <1>1, <1>2, PTL DEF ViewSpec, ImplementsMirror, Fields!Spec

---------------------------------------------------------------------------
(* The types of the view. *)

UiTypes ==
  /\ tab \in Tabs
  /\ WIFI_STATE \in States /\ WIFI_IP \in MaybeAddress
  /\ TAPS \in 0 .. TapWrap - 1 /\ knob \in Knobs
  /\ switch \in BOOLEAN /\ selected \in 0 .. Options - 1
  /\ due \in BOOLEAN /\ slow \in BOOLEAN
  /\ now \in 0 .. SecondWrap - 1 /\ uptime \in 0 .. SecondWrap - 1

LEMMA UiTypesInitially == ViewInit => UiTypes /\ ImuTabTypeOK
<1> SUFFICES ASSUME ViewInit PROVE UiTypes /\ ImuTabTypeOK
  OBVIOUS
<1>1. UiTypes
  <2>1. tab = "Home" /\ due = FALSE /\ slow = FALSE /\ now = 0 /\ uptime = 0
    BY DEF ViewInit, HomeCreate
  <2>2. TAPS = 0 /\ knob = 30 /\ switch = FALSE /\ selected = 0
    BY DEF ViewInit, PlayCreate
  <2>3. WIFI_STATE \in States /\ WIFI_IP \in MaybeAddress
    BY DEF ViewInit, States, MaybeAddress
  <2>4. 0 \in 0 .. TapWrap - 1 /\ 30 \in Knobs /\ 0 \in 0 .. Options - 1
    BY PlayAssumption
  <2>5. 0 \in 0 .. SecondWrap - 1 /\ "Home" \in Tabs
    BY SecondAssumption DEF Tabs
  <2>6. QED
    BY <2>1, <2>2, <2>3, <2>4, <2>5 DEF UiTypes
<1>2. ImuTabTypeOK
  <2>1. 0 \in 0 .. SeqWrap - 1 /\ 0 \in 0 .. MaxUnseen
    BY SamplesAssumption, MaxUnseenAssumption
  <2>2. QED BY <2>1, SamplesAssumption DEF ViewInit, ImuTabCreate, ImuTabTypeOK
<1>3. QED BY <1>1, <1>2

LEMMA UiTypesStep ==
  ASSUME UiTypes, [ViewNext]_viewVars
  PROVE  UiTypes'
<1> USE DEF UiTypes
<1>1. CASE Hub
  BY <1>1 DEF Hub, cells, ui, playVars, playInputs, homeVars
<1>2. CASE World
  <2>1. WIFI_STATE' \in States /\ WIFI_IP' \in MaybeAddress
    BY <1>2 DEF World, WifiPublishes, cells, States
  <2>2. QED BY <1>2, <2>1 DEF World, ui, playVars, playInputs, homeVars
<1>3. ASSUME NEW fires \in BOOLEAN, LvglHandles(fires)
      PROVE  UiTypes'
  <2>1. /\ TAPS' \in 0 .. TapWrap - 1 /\ knob' \in Knobs
        /\ switch' \in BOOLEAN /\ selected' \in 0 .. Options - 1
    <3>1. CASE UNCHANGED playInputs
      BY <3>1 DEF playInputs
    <3>2. CASE on_button_clicked
      <4>1. (TAPS + 1) % TapWrap \in 0 .. TapWrap - 1
        BY PlayAssumption
      <4>2. QED BY <3>2, <4>1 DEF on_button_clicked
    <3>3. CASE PlayGesture /\ ~on_button_clicked
      BY <3>3 DEF PlayGesture
    <3>4. QED BY <1>3, <3>1, <3>2, <3>3 DEF LvglHandles, Gesture, SelectTab
  <2>2. tab' \in Tabs
    BY <1>3 DEF LvglHandles, Gesture, SelectTab
  <2>3. due' \in BOOLEAN /\ slow' \in BOOLEAN
    BY <1>3 DEF LvglHandles
  <2>4. now' \in 0 .. SecondWrap - 1
    BY <1>3, SecondAssumption DEF LvglHandles
  <2>5. UNCHANGED <<WIFI_STATE, WIFI_IP, uptime>>
    BY <1>3 DEF LvglHandles, cells, homeVars
  <2>6. QED BY <2>1, <2>2, <2>3, <2>4, <2>5
<1>4. CASE Update
  <2>1. due' = FALSE /\ slow' = FALSE
    BY <1>4 DEF Update
  <2>2. uptime' \in 0 .. SecondWrap - 1
    BY <1>4 DEF Update, HomeUpdate
  <2>3. UNCHANGED <<tab, WIFI_STATE, WIFI_IP, TAPS, knob, switch, selected, now>>
    BY <1>4 DEF Update, cells, playInputs
  <2>4. QED BY <2>1, <2>2, <2>3
<1>5. CASE UNCHANGED viewVars
  BY <1>5 DEF viewVars, cells, tabsVars, playVars, playInputs, homeVars
<1>6. QED BY <1>1, <1>2, <1>3, <1>4, <1>5 DEF ViewNext

LEMMA ImuTabTypeStep ==
  ASSUME ImuTypeOK, ImuTabTypeOK, [ViewNext]_viewVars
  PROVE  ImuTabTypeOK'
<1> USE SamplesAssumption, MaxUnseenAssumption DEF ImuTabTypeOK
<1>1. CASE UNCHANGED imuTabVars
  BY <1>1 DEF imuTabVars, imuTab
<1>2. CASE Hub
  BY <1>2 DEF Hub, CountSample, imuTab
<1>3. CASE Update
  <2>1. unseen' = 0
    BY <1>3 DEF Update, ImuTabUpdate
  <2>2. CASE UpdateAbsent \/ UpdateNothingNew
    <3>1. /\ UNCHANGED <<last_seq, chart, readout>>
          /\ absent_noted' \in BOOLEAN
          /\ gyro_label' \in {"none", "absent", "sample"}
      BY <2>2 DEF UpdateAbsent, UpdateNothingNew, imuTab
    <3>2. QED BY <2>1, <3>1
  <2>3. ASSUME NEW active \in BOOLEAN, UpdateSample(active)
        PROVE  ImuTabTypeOK'
    <3>1. IMU_SEQ \in 0 .. SeqWrap - 1 /\ IMU_SAMPLE \in Samples
      BY DEF ImuTypeOK
    <3>2. chart' \in 0 .. SeqWrap - 1
      BY <2>3 DEF UpdateSample
    <3>3. /\ readout' \in Samples /\ gyro_label' \in {"none", "absent", "sample"}
          /\ last_seq' \in 0 .. SeqWrap - 1 /\ absent_noted' \in BOOLEAN
      BY <2>3, <3>1 DEF UpdateSample
    <3>4. QED BY <2>1, <3>2, <3>3
  <2>4. QED BY <1>3, <2>2, <2>3 DEF Update, ImuTabUpdate
<1>4. CASE World \/ (\E fires \in BOOLEAN : LvglHandles(fires)) \/ UNCHANGED viewVars
  BY <1>1, <1>4 DEF World, LvglHandles, viewVars, tabsVars
<1>5. QED BY <1>2, <1>3, <1>4 DEF ViewNext

(* Every cell, cache and widget keeps its range, the wrapping counters of  *)
(* taps, samples and seconds included.                                     *)
THEOREM ViewTypes == ViewSpec => []ViewTypeOK
<1> DEFINE Inv == HubInv /\ TabInv /\ UiTypes /\ ImuTabTypeOK
<1>1. ViewInit => Inv
  BY ViewInitially, HubInitially, UiTypesInitially
<1>2. Inv /\ [ViewNext]_viewVars => Inv'
  BY HubStep, ViewStepIsHubStep, UiTypesStep, ImuTabTypeStep DEF HubInv, ImuInv
<1>3. Inv => ViewTypeOK
  BY DEF HubInv, TypeOK, TouchInv, ImuInv, PmuInv, RtcInv, LightInv, TabInv, UiTypes, ViewTypeOK
<1>4. QED BY <1>1, <1>2, <1>3, PTL DEF ViewSpec

---------------------------------------------------------------------------
(* Liveness of the view.  tlapm does not reason about ENABLED, so each     *)
(* theorem has as its hypothesis that the guards named below enable their  *)
(* actions; it holds in every state that can be reached.                   *)

(* The bring-up ends and the ticker fires, the render loop runs.           *)
FairViewSpec ==
  /\ ViewSpec
  /\ WF_viewVars(Hub) /\ WF_viewVars(Update)
  /\ WF_viewVars(\E fires \in BOOLEAN : LvglHandles(fires))

(* No more than the guards of the three actions FairViewSpec is fair to: a *)
(* polling hub has an outcome for every tick, and LVGL and the updates     *)
(* take turns.                                                             *)
ViewCanStep ==
  /\ imu_phase = "polling" => ENABLED <<Hub>>_viewVars
  /\ due => ENABLED <<Update>>_viewVars
  /\ ~due => ENABLED <<\E fires \in BOOLEAN : LvglHandles(fires)>>_viewVars

(* IMU_EVERY and MAX_FAILURES of the code. *)
ImuCadence == ImuEvery = 7 /\ MaxFailures <= 5

Watched == tab = "IMU" /\ imu_phase = "polling" /\ imu.ok
Failed(n) == imu.failures = n
Phase(k) == tick % 7 = k
Latest == readout = IMU_SAMPLE /\ gyro_label = "sample"
ReadoutInv == HubInv /\ TabInv /\ PlotInv
WatchedStep == ReadoutInv /\ ReadoutInv' /\ Watched /\ Watched' /\ [ViewNext]_viewVars

LEMMA ReadoutInvAlways ==
  ASSUME OneUnseen
  PROVE  ViewSpec => []ReadoutInv
<1>1. ViewInit => ReadoutInv
  BY ViewInitially, HubInitially, PlotInitially DEF ReadoutInv
<1>2. ReadoutInv /\ [ViewNext]_viewVars => ReadoutInv'
  BY HubStep, ViewStepIsHubStep, PlotStep DEF ReadoutInv, HubInv
<1>3. QED BY <1>1, <1>2, PTL DEF ViewSpec

(* A tick on which the IMU is not due moves on to the next phase of its    *)
(* period; one on which it is due, the wrap of the counter included, takes *)
(* a sample or counts a failure.                                           *)
LEMMA WatchedTick ==
  ASSUME OneUnseen, ImuCadence, WatchedStep, Hub, ~(unseen' = 1),
         NEW n \in Nat, Failed(n), NEW k \in 0 .. 6, Phase(k)
  PROVE  Failed(n + 1)' \/ (Failed(n)' /\ Phase(k + 1)' /\ k < 6)
<1> USE DEF Watched, WatchedStep, ReadoutInv
<1>1. HubTick /\ CountSample
  BY DEF Hub, BringUp, ImuProbeFails, ImuResetSent, ImuConfigure
<1>2. tick \in Nat /\ TickWrap \in Nat /\ tick < TickWrap /\ tick' = IF tick + 1 = TickWrap THEN 0 ELSE tick + 1
  <2>1. tick \in 0 .. TickWrap - 1 /\ TickWrap \in Nat
    BY CadenceAssumption DEF HubInv
  <2>2. tick' = (tick + 1) % TickWrap
    BY <1>1 DEF HubTick, NextTick
  <2>3. QED BY <2>1, <2>2
<1>3. CASE ImuDue(tick')
  <2>1. ImuReadFails \/ \E s \in Samples : ImuReadSample(s)
    BY <1>1, <1>3 DEF HubTick, PollImu
  <2>2. ASSUME NEW s \in Samples, ImuReadSample(s) PROVE FALSE
    <3>1. IMU_SEQ' = (IMU_SEQ + 1) % SeqWrap /\ IMU_SEQ \in 0 .. SeqWrap - 1 
      BY <2>2 DEF ImuReadSample, PlotInv
    <3>2. IMU_SEQ' # IMU_SEQ
      <4>1. SeqWrap \in Nat /\ SeqWrap > 1
        BY SamplesAssumption, MaxUnseenAssumption DEF OneUnseen
      <4>2. IMU_SEQ' = IF IMU_SEQ + 1 = SeqWrap THEN 0 ELSE IMU_SEQ + 1
        BY <3>1, <4>1
      <4>3. QED BY <3>1, <4>1, <4>2
    <3>3. unseen' = unseen + 1 /\ unseen' <= 1 /\ unseen \in 0 .. 1
      BY <1>1, <3>2 DEF CountSample, OneUnseen, PlotInv
    <3>4. QED BY <3>3
  <2>3. Failed(n + 1)'
    BY <2>1, <2>2 DEF ImuReadFails, Check, Failed
  <2>4. QED BY <2>3
<1>4. CASE ~ImuDue(tick')
  <2>1. UNCHANGED imu
    BY <1>1, <1>4 DEF HubTick, PollImu, ImuNoRead
  <2>2. tick' % 7 # 0
    BY <1>4 DEF ImuDue, ImuCadence
  <2>3. tick' = tick + 1 /\ (tick + 1) % 7 = k + 1 /\ k < 6
    BY <1>2, <2>2 DEF Phase
  <2>4. QED BY <2>1, <2>3 DEF Failed, Phase
<1>5. QED BY <1>3, <1>4

(* The bus is the hub's alone. *)
LEMMA WatchedElsewhere ==
  ASSUME WatchedStep, ~Hub
  PROVE  UNCHANGED <<imu, tick>> 
BY DEF WatchedStep, ViewNext, World, WifiPublishes, LvglHandles, Update, viewVars, vars, imuVars


(* A sample not seen yet waits for the next update, which shows it.        *)
LEMMA UnseenIsShown ==
  ASSUME OneUnseen, WatchedStep, unseen = 1
  PROVE  /\ Update => Latest'
         /\ ~Update => unseen' = 1
<1> USE DEF WatchedStep, Watched, ReadoutInv, PlotInv, OneUnseen
<1>1. CASE Update
  <2>1. IMU_STATE = 1
    BY DEF HubInv, ImuInv, StateTracksHealth, StateOf
  <2>2. IMU_SEQ # last_seq
    <3>1. last_seq = chart /\ chart \in Nat /\ IMU_SEQ = IF chart + 1 = SeqWrap THEN 0 ELSE chart + 1
      BY <2>1
    <3>2. SeqWrap \in Nat /\ SeqWrap > 1
      BY SamplesAssumption, MaxUnseenAssumption
    <3>3. QED BY <3>1, <3>2
  <2>3. UpdateSample(tab = "IMU") /\ UNCHANGED IMU_SAMPLE
    BY <1>1, <2>1, <2>2
    DEF Update, ImuTabUpdate, UpdateAbsent, UpdateNothingNew, imuVars, imuPublished
  <2>4. QED BY <1>1, <2>3 DEF UpdateSample, Latest
<1>2. CASE ~Update /\ Hub
  <2>1. unseen' \in 0 .. 1 /\ (unseen' = unseen \/ unseen' = unseen + 1)
    BY <1>2 DEF Hub, CountSample
  <2>2. QED BY <1>2, <2>1
<1>3. CASE ~Update /\ ~Hub
  BY <1>3 DEF ViewNext, World, LvglHandles, viewVars, tabsVars, imuTabVars
<1>4. QED BY <1>1, <1>2, <1>3

(* On the visible IMU tab of a working device the readouts come back to    *)
(* the latest sample again and again: between two samples the tracker has  *)
(* room for four failures, and every new sample waits for the next update, *)
(* which finds it by its sequence number (imu.rs, update).                 *)
THEOREM ReadoutsKeepComing ==
  ASSUME OneUnseen, ImuCadence
  PROVE  FairViewSpec /\ []ViewCanStep => ReadoutIsLive
<1> DEFINE New == unseen = 1
           Moves(n, m, k, l) ==
             WatchedStep /\ Failed(n) /\ Phase(k) 
               => New' \/ Failed(m)' \/ (Failed(n)' /\ (Phase(k)' \/ Phase(l)'))
           Takes(n, k) == WatchedStep /\ <<Hub>>_viewVars => ~(Failed(n) /\ Phase(k) /\ Failed(n)' /\ Phase(k)' /\ ~New')
           Round(n, m) ==
             /\ Moves(n, m, 0, 1) /\ Moves(n, m, 1, 2) /\ Moves(n, m, 2, 3) /\ Moves(n, m, 3, 4)
             /\ Moves(n, m, 4, 5) /\ Moves(n, m, 5, 6) /\ Moves(n, m, 6, 7)
             /\ Takes(n, 0) /\ Takes(n, 1) /\ Takes(n, 2) /\ Takes(n, 3)
             /\ Takes(n, 4) /\ Takes(n, 5) /\ Takes(n, 6)
           Soon(n, m) ==
             FairViewSpec /\ []ViewCanStep /\ <>[]Watched => <>[](Failed(n) => <>(New \/ Failed(m)))
<1>1. ASSUME NEW n \in Nat, NEW k \in 0 .. 6
      PROVE  Moves(n, n + 1, k, k + 1) /\ Takes(n, k)
  <2>1. CASE Hub
    <3>1. WatchedStep /\ Failed(n) /\ Phase(k) /\ ~New'
            => Failed(n + 1)' \/ (Failed(n)' /\ Phase(k + 1)')
      BY <2>1, WatchedTick
    <3>2. QED BY <3>1 DEF Failed, Phase
  <2>2. CASE ~Hub
    BY <2>2, WatchedElsewhere DEF Failed, Phase
  <2>3. QED BY <2>1, <2>2
<1>2. ASSUME NEW n \in Nat
      PROVE  Round(n, n + 1)
  <2> HIDE DEF Moves, Takes
  <2>1. \A k \in 0 .. 6 : Moves(n, n + 1, k, k + 1) /\ Takes(n, k)
    BY <1>1
  <2>2. 0 + 1 = 1 /\ 1 + 1 = 2 /\ 2 + 1 = 3 /\ 3 + 1 = 4 /\ 4 + 1 = 5 /\ 5 + 1 = 6 /\ 6 + 1 = 7
    OBVIOUS
  <2>3. QED BY <2>1, <2>2
<1>3. Round(0, 1) /\ Round(1, 2) /\ Round(2, 3) /\ Round(3, 4) /\ Round(4, 5)
  <2> HIDE DEF Round
  <2>1. QED BY <1>2, 0 + 1 = 1, 1 + 1 = 2, 2 + 1 = 3, 3 + 1 = 4, 4 + 1 = 5
<1>4. ReadoutInv => /\ Phase(0) \/ Phase(1) \/ Phase(2) \/ Phase(3) \/ Phase(4) \/ Phase(5) \/ Phase(6)
                    /\ ~Phase(7)
  <2>1. ReadoutInv => tick \in Nat
    BY CadenceAssumption DEF ReadoutInv, HubInv
  <2>2. QED BY <2>1 DEF Phase
<1>5. ReadoutInv /\ Watched =>
        /\ Failed(0) \/ Failed(1) \/ Failed(2) \/ Failed(3) \/ Failed(4)
        /\ ~Failed(5)
  <2> SUFFICES ASSUME ReadoutInv, Watched
               PROVE  imu.failures \in Nat /\ imu.failures < 5
    BY DEF Failed
  <2>1. imu.failures \in 0 .. MaxFailures /\ imu.failures < MaxFailures
    BY DEF ReadoutInv, HubInv, ImuInv, ImuTypeOK, HealthState, WithinBudget, Watched
  <2>2. MaxFailures \in Nat /\ MaxFailures <= 5
    BY MaxFailuresAssumption DEF ImuCadence
  <2>3. QED BY <2>1, <2>2
<1>6. Watched => imu_phase = "polling"
  BY DEF Watched
<1>7. WatchedStep /\ New => New' \/ Latest'
  BY UnseenIsShown
<1>8. WatchedStep /\ New /\ <<Update>>_viewVars => Latest'
  BY UnseenIsShown
<1>9. <<\E fires \in BOOLEAN : LvglHandles(fires)>>_viewVars => due'
  BY DEF LvglHandles
<1>10. WatchedStep /\ New /\ due => due' \/ Latest'
  BY UnseenIsShown DEF WatchedStep, ViewNext, Hub, World, LvglHandles, ui, viewVars
<1> HIDE DEF New, Phase, Failed
<1>11. FairViewSpec => []ReadoutInv
  BY ReadoutInvAlways, PTL DEF FairViewSpec
<1>12. Soon(0, 1)
  BY <1>3, <1>4, <1>6, <1>11, PTL DEF FairViewSpec, ViewSpec, ViewCanStep, WatchedStep
<1>13. Soon(1, 2)
  BY <1>3, <1>4, <1>6, <1>11, PTL DEF FairViewSpec, ViewSpec, ViewCanStep, WatchedStep
<1>14. Soon(2, 3)
  BY <1>3, <1>4, <1>6, <1>11, PTL DEF FairViewSpec, ViewSpec, ViewCanStep, WatchedStep
<1>15. Soon(3, 4)
  BY <1>3, <1>4, <1>6, <1>11, PTL DEF FairViewSpec, ViewSpec, ViewCanStep, WatchedStep
<1>16. Soon(4, 5)
  BY <1>3, <1>4, <1>6, <1>11, PTL DEF FairViewSpec, ViewSpec, ViewCanStep, WatchedStep
<1>17. FairViewSpec /\ []ViewCanStep /\ <>[]Watched => []<>New
  BY <1>5, <1>11, <1>12, <1>13, <1>14, <1>15, <1>16, PTL
<1>18. FairViewSpec /\ []ViewCanStep /\ <>[]Watched => []<>Latest
  BY <1>7, <1>8, <1>9, <1>10, <1>11, <1>17, PTL DEF FairViewSpec, ViewSpec, ViewCanStep, WatchedStep
<1>19. QED BY <1>18, PTL DEF ReadoutIsLive, Watched, Latest

---------------------------------------------------------------------------
(* The figures of the Home and the System tab. *)

(* A trigger waits for the update that follows the LVGL pass it came in.   *)
TriggerInv == slow => due

LEMMA TriggerAlways == ViewSpec => [](ViewTypeOK /\ TriggerInv)
<1>1. ViewInit => TriggerInv
  BY DEF ViewInit, TriggerInv
<1>2. TriggerInv /\ [ViewNext]_viewVars => TriggerInv'
  BY DEF TriggerInv, ViewNext, Hub, World, LvglHandles, Update, ui, viewVars
<1>3. QED BY <1>1, <1>2, ViewTypes, PTL DEF ViewSpec

(* The trigger of second n is under way. *)
Fired(n) == slow /\ now = n

(* k more triggers bring the clock to second n. *)
Ahead(n, k) == now + k \in {n, n + SecondWrap}

(* Only an update takes it. *)
LEMMA TriggerStep ==
  ASSUME ViewTypeOK, TriggerInv, [ViewNext]_viewVars, NEW n \in 0 .. SecondWrap - 1
  PROVE  Fired(n) => Fired(n)' \/ Update
BY DEF Fired, TriggerInv, ViewNext, Hub, World, LvglHandles, ui, viewVars

(* The clock moves with a trigger, and only when none is under way. *)
LEMMA SecondsStep ==
  ASSUME ViewTypeOK, TriggerInv, [ViewNext]_viewVars,
         NEW n \in 0 .. SecondWrap - 1, NEW k \in Nat, Ahead(n, k)
  PROVE  \/ Ahead(n, k)' /\ (slow' => slow)
         \/ ~slow /\ slow' /\ (k > 0 => Ahead(n, k - 1)')
<1>1. CASE UNCHANGED now /\ (slow' => slow)
  BY <1>1 DEF Ahead
<1>2. CASE LvglHandles(TRUE)
  <2>1. ~slow /\ slow' /\ now' = (now + 1) % SecondWrap
    BY <1>2 DEF LvglHandles, TriggerInv
  <2>2. ASSUME k > 0
        PROVE  now' + (k - 1) \in {n, n + SecondWrap}
    <3>1. now \in Nat /\ SecondWrap \in Nat /\ now < SecondWrap
      BY SecondAssumption DEF ViewTypeOK
    <3>2. now' = IF now + 1 = SecondWrap THEN 0 ELSE now + 1
      BY <2>1, <3>1
    <3>3. QED BY <2>2, <3>1, <3>2 DEF Ahead
  <2>3. QED BY <2>1, <2>2 DEF Ahead
<1>3. CASE ~LvglHandles(TRUE)
  <2>1. UNCHANGED now /\ (slow' => slow)
    BY <1>3 DEF ViewNext, Hub, World, LvglHandles, Update, ui, viewVars
  <2>2. QED BY <1>1, <2>1
<1>4. QED BY <1>2, <1>3

(* A trigger taken while the Home tab or the System tab is visible is what *)
(* its figures say after the update that takes it, for every second.       *)
LEMMA FiguresFollow ==
  ASSUME ViewTypeOK, TriggerInv, NEW n \in 0 .. SecondWrap - 1, Fired(n), Update
  PROVE  /\ tab = "Home" => uptime' = n
         /\ tab = "System" => stats' = <<wifi_text(WIFI_STATE, WIFI_IP), n>>
BY DEF Fired, Update, HomeUpdate, SystemUpdate

(* mod.rs:168: the trigger is consumed once per cycle and fanned out, so   *)
(* while the timer keeps triggering the figures of whichever of the two    *)
(* tabs stays visible follow it, second by second (up to four seconds told *)
(* apart).                                                                 *)
THEOREM FiguresKeepUp ==
  ASSUME SecondWrap <= 4
  PROVE  FairViewSpec /\ []ViewCanStep => StatsAreLive
<1> DEFINE Step == ViewTypeOK /\ TriggerInv /\ [ViewNext]_viewVars
           Triggered == slow
           Waits == due
           OnHome == tab = "Home"
           OnSystem(s, a) == tab = "System" /\ cells = <<s, a>>
           Uptime(n) == uptime = n
           Row(s, a, n) == stats = <<wifi_text(s, a), n>>
           Moves(n, k, l) ==
             Step /\ Ahead(n, k) => \/ Ahead(n, k)' /\ (Triggered' => Triggered)
                                    \/ ~Triggered /\ Triggered' /\ Ahead(n, l)'
           Counts(n) ==
             /\ Moves(n, 1, 0) /\ Moves(n, 2, 1) /\ Moves(n, 3, 2)
             /\ ViewTypeOK => Ahead(n, 0) \/ Ahead(n, 1) \/ Ahead(n, 2) \/ Ahead(n, 3)
             /\ ViewTypeOK /\ Triggered /\ Ahead(n, 0) => Fired(n)
<1>1. ASSUME NEW n \in 0 .. SecondWrap - 1
      PROVE  Counts(n)
  <2>1. Moves(n, 1, 0) /\ Moves(n, 2, 1) /\ Moves(n, 3, 2)
    BY SecondsStep
  <2>2. ViewTypeOK => Ahead(n, 0) \/ Ahead(n, 1) \/ Ahead(n, 2) \/ Ahead(n, 3)
    BY SecondAssumption DEF ViewTypeOK, Ahead
  <2>3. ViewTypeOK /\ Ahead(n, 0) => now = n
    BY SecondAssumption DEF ViewTypeOK, Ahead
  <2>4. QED BY <2>1, <2>2, <2>3 DEF Fired
<1>2. Step /\ <<Update>>_viewVars => ~Triggered'
  BY DEF Update
<1>3. Triggered /\ TriggerInv => Waits
  BY DEF TriggerInv
<1>4. Waits => due
  OBVIOUS
<1>5. ASSUME NEW n \in 0 .. SecondWrap - 1
      PROVE  /\ Step /\ Fired(n) /\ OnHome => Fired(n)' \/ Uptime(n)'
             /\ \A s \in States, a \in MaybeAddress :
                  Step /\ Fired(n) /\ OnSystem(s, a) => Fired(n)' \/ Row(s, a, n)'
  <2>1. Step /\ Fired(n) => Fired(n)' \/ Update
    BY TriggerStep
  <2>2. Step /\ Fired(n) /\ OnHome /\ Update => Uptime(n)'
    BY FiguresFollow
  <2>3. ASSUME NEW s \in States, NEW a \in MaybeAddress, Step, Fired(n), OnSystem(s, a), Update
        PROVE  Row(s, a, n)'
    <3>1. WIFI_STATE = s /\ WIFI_IP = a
      BY <2>3 DEF cells
    <3>2. QED BY <2>3, <3>1, FiguresFollow
  <2>4. QED BY <2>1, <2>2, <2>3, Zenon
<1>6. \A n : Fired(n) => Triggered
  BY DEF Fired
<1> HIDE DEF Triggered, Waits, Ahead, Fired, OnHome, OnSystem, Uptime, Row
<1>7. FairViewSpec => [](ViewTypeOK /\ TriggerInv)
  BY TriggerAlways, PTL DEF FairViewSpec
<1>8. FairViewSpec /\ []ViewCanStep => []<>~Triggered
  BY <1>2, <1>3, <1>4, <1>7, PTL DEF FairViewSpec, ViewSpec, ViewCanStep
<1>9. ASSUME NEW n \in 0 .. SecondWrap - 1
      PROVE  FairViewSpec /\ []ViewCanStep => ([]<>Triggered => (<>[]OnHome => []<>Uptime(n)))
  <2>1. Fired(n) => Triggered
    BY <1>6
  <2>2. Counts(n)
    BY <1>1
  <2>3. Step /\ Fired(n) /\ OnHome => Fired(n)' \/ Uptime(n)'
    BY <1>5
  <2>4. QED BY <2>2, <2>3, <1>7, <1>8, <2>1, PTL DEF FairViewSpec, ViewSpec
<1>10. ASSUME NEW n \in 0 .. SecondWrap - 1, NEW s \in States, NEW a \in MaybeAddress
       PROVE  FairViewSpec /\ []ViewCanStep
                => ([]<>Triggered => (<>[]OnSystem(s, a) => []<>Row(s, a, n)))
  <2>1. Fired(n) => Triggered
    BY <1>6
  <2>2. Step /\ Fired(n) /\ OnSystem(s, a) => Fired(n)' \/ Row(s, a, n)'
    BY <1>5
  <2>3. Counts(n)
    BY <1>1
  <2>4. QED BY <2>3, <1>7, <1>8, <2>1, <2>2, PTL DEF FairViewSpec, ViewSpec
<1>11. QED
  BY <1>9, <1>10 DEF StatsAreLive, Triggered, OnHome, OnSystem, Uptime, Row
===========================================================================
