------------------------------ MODULE HomeTab ------------------------------
(***************************************************************************)
(* The Home tab: clock, date, Wi-Fi and battery follow their cells on      *)
(* every update, visible or not; the uptime follows the 1 Hz tick while    *)
(* the tab is visible.                                                     *)
(***************************************************************************)
EXTENDS PmuPoll, RtcPoll, UiMod

CONSTANT DayLength    \* seconds in a day of the model

ASSUME DayAssumption == DayLength \in Nat \ {0}

VARIABLES home,      \* the four labels with their caches
          uptime     \* the uptime label and its cache, seconds

homeVars == <<home, uptime>>

(* The packed words RTC_HMS and RTC_DATE.  The valid bit alone says that   *)
(* the time is none; a day is counted from 1, a date of 0 is none.         *)
RTC_HMS == [valid |-> RTC_CLOCK.valid, at |-> RTC_CLOCK.at % DayLength]
RTC_DATE == IF RTC_CLOCK.read THEN 1 + RTC_CLOCK.at \div DayLength ELSE 0

Bat == <<BAT_MV, BAT_PERCENT, PMU_FLAGS>>

clock_text(hms) == IF hms.valid THEN <<hms.at>> ELSE <<>>

charge_state(flags) ==
  IF "CHARGING" \in flags THEN "charging"
  ELSE IF "CHARGE_DONE" \in flags THEN "charged"
  ELSE IF "VBUS" \in flags THEN "on USB" ELSE "on battery"

(* What arc, percentage and detail line say together. *)
battery_text(bat) ==
  LET mv == bat[1]  pct == bat[2]  flags == bat[3]
  IN IF "OK" \notin flags THEN <<"PMU unavailable">>
     ELSE IF pct = Unknown THEN <<"no battery", "VBUS" \in flags>>
     ELSE <<"charge", pct, mv, charge_state(flags)>>

HomeCreate ==
  /\ home = [clock   |-> Label([valid |-> FALSE, at |-> 0], <<>>),
             date    |-> Label(0, 0),
             wifi    |-> Label(<<"UNCONFIGURED", NoAddress>>, wifi_text(WIFI_STATE, NoAddress)),
             battery |-> Label(<<0, 0, {}>>, <<"PMU...">>)]
  /\ uptime = 0

(* Mutant of HomeUpdate: the labels are left alone while hidden, the       *)
(* caches are not.                                                         *)
HomeUpdateHidden(active, tick_1hz, secs) ==
  LET Seen(label, source, text) == Diff(label, source, IF active THEN text ELSE label.text)
  IN /\ home' = [clock   |-> Seen(home.clock, RTC_HMS, clock_text(RTC_HMS)),
                 date    |-> Seen(home.date, RTC_DATE, RTC_DATE),
                 wifi    |-> Seen(home.wifi, <<WIFI_STATE, WIFI_IP>>, wifi_text(WIFI_STATE, WIFI_IP)),
                 battery |-> Seen(home.battery, Bat, battery_text(Bat))]
     /\ uptime' = IF active /\ tick_1hz THEN secs ELSE uptime

(* A date that is not there leaves the label as it is. *)
HomeUpdate(active, tick_1hz, secs) ==
  /\ home' = [clock   |-> Diff(home.clock, RTC_HMS, clock_text(RTC_HMS)),
              date    |-> Diff(home.date, RTC_DATE,
                               IF RTC_DATE # 0 THEN RTC_DATE ELSE home.date.text),
              wifi    |-> Diff(home.wifi, <<WIFI_STATE, WIFI_IP>>, wifi_text(WIFI_STATE, WIFI_IP)),
              battery |-> Diff(home.battery, Bat, battery_text(Bat))]
  /\ uptime' = IF active /\ tick_1hz THEN secs ELSE uptime
===========================================================================
