------------------------------ MODULE MCView -------------------------------
(***************************************************************************)
(* View for TLC.  Each behaviour has one group of sources in focus, which  *)
(* the rest of the system leaves alone: the other devices are not fitted,  *)
(* the other cells and widgets do not move, and the tabs are switched      *)
(* between the one concerned and another.  The hub takes its whole tick in *)
(* every one of them.                                                      *)
(***************************************************************************)
EXTENDS View

VARIABLE focus

MCVars == <<viewVars, focus>>

(* A charging battery, one on USB, and none. *)
ThreeStatuses ==
  {[vbus |-> TRUE, battery |-> b, charging |-> c, charge_done |-> FALSE] :
     b \in BOOLEAN, c \in BOOLEAN}

TabsOf ==
  [clock   |-> {"Home", "IMU"},
   battery |-> {"Home", "IMU"},
   imu     |-> {"Home", "IMU"},
   touch   |-> {"Home", "Play"},
   play    |-> {"Home", "Play"},
   light   |-> {"Home", "System"},
   slow    |-> {"Home", "Play", "System"}]

MCInit ==
  /\ focus \in DOMAIN TabsOf
  /\ ViewInit
  /\ pmu.ok <=> focus = "battery"
  /\ rtc.ok <=> focus = "clock"
  /\ focus # "clock" => chip_time = 0 /\ chip_os
  /\ focus # "slow" => WIFI_STATE = "UNCONFIGURED"

Quiet ==
  /\ focus # "clock" => UNCHANGED <<chip, RTC_SET_EPOCH>>
  /\ RTC_SET_EPOCH' \in {0, 1}
  /\ tab' \in TabsOf[focus]
  /\ focus # "imu" => imu_phase' # "settle"
  /\ focus # "touch" => UNCHANGED <<finger, touch>>
  /\ focus # "play" => UNCHANGED playInputs
  /\ focus # "light" => UNCHANGED slider
  /\ focus # "slow" => UNCHANGED slow \/ slow' = FALSE
  /\ UNCHANGED focus

InFocus(step) == step /\ Quiet

(* The bring-up ends, the ticker fires, the render loop runs.              *)
MCSpec ==
  /\ MCInit /\ [][InFocus(ViewNext)]_MCVars
  /\ WF_MCVars(InFocus(Hub))
  /\ WF_MCVars(InFocus(Update))
  /\ WF_MCVars(InFocus(\E fires \in BOOLEAN : LvglHandles(fires)))
===========================================================================
