----------------------------- MODULE TouchPoll ----------------------------
(***************************************************************************)
(* The touch part of the sensor hub: the FT6336 is read on every tick and  *)
(* what it reports is published twice, as the pointer state LVGL consumes  *)
(* (TOUCH_STATE) and as the packed sample of the coordinates label         *)
(* (TOUCH_XY).  The finger is the environment.                             *)
(***************************************************************************)
EXTENDS Health

CONSTANTS Points,     \* panel coordinates
          Origin,     \* (0, 0), what both cells hold before the first press
          NoFinger    \* nothing on the panel

ASSUME PointsAssumption == Origin \in Points /\ NoFinger \notin Points

VARIABLES finger,       \* what lies on the panel (external)
          touch,        \* the tracker of the device
          was_down,     \* the hub's edge state
          TOUCH_STATE,  \* pointer state read by LVGL
          TOUCH_XY      \* packed sample read by the Play tab

touchPublished == <<was_down, TOUCH_STATE, TOUCH_XY>>
touchVars == <<finger, touch, touchPublished>>

Pointer == [pressed : BOOLEAN, at : Points]

TouchTypeOK ==
  /\ finger \in Points \cup {NoFinger}
  /\ touch \in HealthState
  /\ was_down \in BOOLEAN
  /\ TOUCH_STATE \in Pointer
  /\ TOUCH_XY \in Pointer

Released == [pressed |-> FALSE, at |-> Origin]

(* The probe of the bring-up only logs; the tracker starts present.        *)
TouchInit ==
  /\ finger = NoFinger
  /\ touch = HealthNew(TRUE)
  /\ was_down = FALSE
  /\ TOUCH_STATE = Released
  /\ TOUCH_XY = Released

(* unpack(pack(x, y)) = (x, y) for 12-bit coordinates, so a packed sample  *)
(* is the point and the pressed bit.                                       *)
pack(p) == [pressed |-> TRUE, at |-> p]
release_xy == TOUCH_XY' = [TOUCH_XY EXCEPT !.pressed = FALSE]

FingerMoves ==
  /\ finger' \in (Points \cup {NoFinger}) \ {finger}
  /\ UNCHANGED <<touch, touchPublished>>

(* Mutant of TouchReadFails: an unusable read is taken for an empty panel.       *)
TouchReadFailsReleasing ==
  /\ touch.ok
  /\ touch' = Check(touch, FALSE)
  /\ TOUCH_STATE' = [TOUCH_STATE EXCEPT !.pressed = FALSE]
  /\ release_xy
  /\ was_down' = FALSE
  /\ UNCHANGED finger

(* Either of the two transactions of a read, the touch count and the point *)
(* data, is refused: nothing is published.                                 *)
TouchReadFails ==
  /\ touch.ok
  /\ touch' = Check(touch, FALSE)
  /\ UNCHANGED <<finger, touchPublished>>

(* The count was taken while a finger lay on the panel.  The point data    *)
(* are a second transaction, so the point may be one the finger reached,   *)
(* or left, in between.                                                    *)
TouchReadDown(p) ==
  /\ touch.ok /\ finger # NoFinger
  /\ touch' = Check(touch, TRUE)
  /\ TOUCH_STATE' = [pressed |-> TRUE, at |-> p]
  /\ TOUCH_XY' = pack(p)
  /\ was_down' = TRUE
  /\ UNCHANGED finger

(* Mutant of TouchReadUp: the edge is consumed without clearing TOUCH_XY.        *)
TouchReadUpKeepsXY ==
  /\ touch.ok /\ finger = NoFinger
  /\ touch' = Check(touch, TRUE)
  /\ TOUCH_STATE' = [TOUCH_STATE EXCEPT !.pressed = FALSE]
  /\ was_down' = FALSE
  /\ UNCHANGED <<finger, TOUCH_XY>>

TouchReadUp ==
  /\ touch.ok /\ finger = NoFinger
  /\ touch' = Check(touch, TRUE)
  /\ IF was_down
     THEN /\ TOUCH_STATE' = [TOUCH_STATE EXCEPT !.pressed = FALSE]
          /\ release_xy
          /\ was_down' = FALSE
     ELSE UNCHANGED touchPublished
  /\ UNCHANGED finger

TouchSkip == ~touch.ok /\ UNCHANGED touchVars

(* One hub tick, as far as touch goes. *)
PollTouch == TouchReadFails \/ (\E p \in Points : TouchReadDown(p)) \/ TouchReadUp \/ TouchSkip

TouchNext == FingerMoves \/ PollTouch

(* The ticker fires every 15 ms whatever the finger does. *)
TouchSpec == TouchInit /\ [][TouchNext]_touchVars /\ WF_touchVars(PollTouch)

---------------------------------------------------------------------------

(* The two published cells and the hub's edge state never disagree on      *)
(* whether the panel is pressed, nor on where, whatever mix of presses,    *)
(* drags, lifts and failed reads led here.                                 *)
TouchCoherent ==
  /\ TOUCH_STATE.pressed = was_down
  /\ TOUCH_XY = TOUCH_STATE

(* A failed read never ends a press: the panel is released only by a read  *)
(* that found no finger, so a bus glitch does not break a drag.            *)
ReleaseNeedsLift ==
  [][TOUCH_STATE.pressed /\ ~TOUCH_STATE'.pressed => finger = NoFinger]_touchVars

(* A finger lifted for good is seen to be lifted, unless the device was    *)
(* given up before that.                                                   *)
LiftIsSeen ==
  <>[](finger = NoFinger) => <>[](~TOUCH_STATE.pressed \/ ~touch.ok)
===========================================================================
