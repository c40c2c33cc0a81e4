---------------------------- MODULE MCSensorHub ----------------------------
(***************************************************************************)
(* SensorHub for TLC.  The devices share nothing but the tick, so every    *)
(* behaviour puts some of them in focus: the rest stay quiet, which keeps  *)
(* the state space a sum of small products instead of one large product.   *)
(* A quiet device is not fitted, or, for the panel and the backlight, not  *)
(* touched; the hub still takes its whole tick.                            *)
(***************************************************************************)
EXTENDS SensorHub

CONSTANT Focuses     \* the sets of devices exercised together

VARIABLE focus

boardVars == <<vars, focus>>

(* Every status the charger may report. *)
AllStatuses == Status

FocusSets ==
  {{"touch"}, {"imu"}, {"pmu"}, {"rtc"}, {"light"}, {"touch", "imu"}}

BoardInit ==
  /\ focus \in Focuses
  /\ Init
  /\ pmu.ok => "pmu" \in focus
  /\ rtc.ok => "rtc" \in focus
  /\ "rtc" \notin focus => chip_time = 0 /\ chip_os

Quiet ==
  /\ "touch" \notin focus => UNCHANGED <<finger, touch>>
  /\ "rtc" \notin focus => UNCHANGED <<chip, RTC_SET_EPOCH>>
  /\ "light" \notin focus => UNCHANGED lightUi
  /\ UNCHANGED focus

(* step, with what is not in focus left alone. *)
InFocus(step) == Quiet /\ step /\ (imu_phase' = "settle" => "imu" \in focus)

(* The bring-up ends, the ticker fires every 15 ms, the UI loop runs. *)
BoardSpec ==
  /\ BoardInit /\ [][InFocus(Next)]_boardVars
  /\ WF_boardVars(InFocus(BringUp))
  /\ WF_boardVars(InFocus(HubTick))
  /\ WF_boardVars(InFocus(Environment /\ TabUpdate))
===========================================================================
