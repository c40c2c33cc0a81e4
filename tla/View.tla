------------------------------- MODULE View --------------------------------
(***************************************************************************)
(* DemoView and the sensor hub.  LVGL handles its timers and at most one   *)
(* gesture, then DemoView::update reads the visible tab and the 1 Hz       *)
(* trigger once and runs the updates of the four tabs; hub ticks, the      *)
(* network tasks and the world fall in between.  An update has no await,   *)
(* so it is one step.                                                      *)
(***************************************************************************)
EXTENDS SensorHub, HomeTab, ImuTab, PlayTab, SystemTab

CONSTANT SecondWrap    \* seconds of uptime told apart

ASSUME SecondAssumption == SecondWrap \in Nat \ {0}

VARIABLES tab,     \* the active tab (LVGL)
          due,     \* LVGL has run since the last update
          slow,    \* the 1 Hz timer has triggered since it was last asked
          now      \* Instant::now in seconds, modulo SecondWrap

cells == <<WIFI_STATE, WIFI_IP>>
tabsVars == <<homeVars, imuTabVars, playVars, stats>>
viewVars == <<vars, cells, tabsVars, tab, due, slow, now>>

Tabs == {"Home", "IMU", "Play", "System"}

ViewTypeOK ==
  /\ TypeOK /\ ImuTabTypeOK
  /\ tab \in Tabs /\ system_active = (tab = "System")
  /\ WIFI_STATE \in States /\ WIFI_IP \in MaybeAddress
  /\ TAPS \in 0 .. TapWrap - 1 /\ knob \in Knobs
  /\ switch \in BOOLEAN /\ selected \in 0 .. Options - 1
  /\ due \in BOOLEAN /\ slow \in BOOLEAN
  /\ now \in 0 .. SecondWrap - 1 /\ uptime \in 0 .. SecondWrap - 1

(* wifi::start has run: without credentials the cells stay as they are.    *)
ViewInit ==
  /\ Init
  /\ WIFI_STATE \in {"UNCONFIGURED", "CONNECTING"} /\ WIFI_IP = NoAddress
  /\ HomeCreate /\ ImuTabCreate /\ PlayCreate /\ SystemCreate
  /\ tab = "Home"
  /\ due = FALSE /\ slow = FALSE /\ now = 0

ui == <<homeVars, playVars, stats, tab, due, slow, now>>

Hub ==
  /\ BringUp \/ HubTick
  /\ CountSample
  /\ UNCHANGED <<cells, ui>>

WifiPublishes ==
  /\ WIFI_STATE # "UNCONFIGURED"
  /\ \/ WIFI_STATE' \in States \ {"UNCONFIGURED"} /\ UNCHANGED WIFI_IP
     \/ WIFI_IP' \in MaybeAddress /\ UNCHANGED WIFI_STATE
  /\ UNCHANGED vars

(* A finger, the clock, the SNTP client and the network tasks. *)
World ==
  /\ \/ (Finger \/ Clock) /\ UNCHANGED <<imuVars, pmuVars, tick, cells>>
     \/ WifiPublishes
  /\ UNCHANGED <<imuTabVars, ui>>

(* Mutant of SelectTab: the System tab is not told that it was left.       *)
SelectTabUnnoticed(t) ==
  /\ tab' = t
  /\ system_active' = (system_active \/ t = "System")
  /\ UNCHANGED <<slider, last_bl, BACKLIGHT_PCT, applied_backlight, duty, playInputs>>

SelectTab(t) ==
  /\ tab' = t
  /\ system_active' = (t = "System")
  /\ UNCHANGED <<slider, last_bl, BACKLIGHT_PCT, applied_backlight, duty, playInputs>>

(* What LVGL may make of the pointer: nothing, another tab, or a gesture   *)
(* on a widget of the visible one.                                         *)
Gesture ==
  \/ UNCHANGED <<tab, lightVars, playInputs>>
  \/ \E t \in Tabs \ {tab} : SelectTab(t)
  \/ (\E p \in Knob : Drag(p)) /\ UNCHANGED <<tab, playInputs>>
  \/ tab = "Play" /\ PlayGesture /\ UNCHANGED <<tab, lightVars>>

LvglHandles(fires) ==
  /\ ~due /\ due' = TRUE
  /\ IF fires THEN slow' = TRUE /\ now' = (now + 1) % SecondWrap
     ELSE UNCHANGED <<slow, now>>
  /\ Gesture
  /\ UNCHANGED <<touchVars, imuVars, pmuVars, rtcVars, tick, cells,
                 homeVars, imuTabVars, play, stats>>

(* Mutant of Update: each tab asks the timer for itself.                   *)
UpdateAsksTwice ==
  /\ due /\ due' = FALSE
  /\ slow' = FALSE
  /\ HomeUpdate(tab = "Home", slow, now)
  /\ ImuTabUpdate(tab = "IMU")
  /\ PlayUpdate(tab = "Play")
  /\ SystemUpdate(tab = "System", FALSE, now)
  /\ UNCHANGED <<touchVars, imuVars, pmuVars, rtcVars, tick, cells, playInputs, tab, now>>

(* The trigger is consumed once and fanned out. *)
Update ==
  /\ due /\ due' = FALSE
  /\ slow' = FALSE
  /\ HomeUpdate(tab = "Home", slow, now)
  /\ ImuTabUpdate(tab = "IMU")
  /\ PlayUpdate(tab = "Play")
  /\ SystemUpdate(tab = "System", slow, now)
  /\ UNCHANGED <<touchVars, imuVars, pmuVars, rtcVars, tick, cells, playInputs, tab, now>>

ViewNext == Hub \/ World \/ (\E fires \in BOOLEAN : LvglHandles(fires)) \/ Update

ViewSpec == ViewInit /\ [][ViewNext]_viewVars

---------------------------------------------------------------------------

(* The fields that are copies, what each should say and what it says. *)
Always == {"clock", "date", "wifi", "battery", "taps"}
PlayOnly == {"slider", "led", "roller", "coords"}

Source ==
  [clock |-> clock_text(RTC_HMS), date |-> RTC_DATE,
   wifi |-> wifi_text(WIFI_STATE, WIFI_IP), battery |-> battery_text(Bat),
   taps |-> TAPS, slider |-> knob, led |-> switch, roller |-> selected,
   coords |-> coords_text(TOUCH_XY), backlight |-> slider]

ShownFields ==
  [clock |-> home.clock.text, date |-> home.date.text,
   wifi |-> home.wifi.text, battery |-> home.battery.text,
   taps |-> play.taps.text, slider |-> play.slider.text, led |-> play.led.text,
   roller |-> play.roller.text, coords |-> play.coords.text, backlight |-> last_bl]

Visible ==
  Always \cup (IF tab = "Play" THEN PlayOnly ELSE {})
         \cup (IF tab = "System" THEN {"backlight"} ELSE {})

(* The view implements Mirror: the caches never keep a label from being    *)
(* brought up to date, whatever changed while its tab was hidden and       *)
(* however the caches and the labels started out.                          *)
Fields == INSTANCE Mirror WITH
            source <- Source, shown <- ShownFields, visible <- Visible

ImplementsMirror == Fields!Spec

(* On the visible tab of a working device the readouts keep coming back to *)
(* the latest sample, and the notice that there is no device, made while   *)
(* the bring-up was still under way, is withdrawn.                         *)
ReadoutIsLive ==
  <>[](tab = "IMU" /\ imu_phase = "polling" /\ imu.ok)
    => []<>(readout = IMU_SAMPLE /\ gyro_label = "sample")

(* mod.rs:168, the trigger consumed "exactly once per cycle" and fanned    *)
(* out: while the timer keeps triggering, whichever of the two tabs stays  *)
(* visible gets it, so its figures follow every second and the Wi-Fi cells.*)
StatsAreLive ==
  []<>slow =>
    \A n \in 0 .. SecondWrap - 1 :
      /\ <>[](tab = "Home") => []<>(uptime = n)
      /\ \A s \in States, a \in MaybeAddress :
           <>[](tab = "System" /\ cells = <<s, a>>) => []<>(stats = <<wifi_text(s, a), n>>)
===========================================================================
