------------------------------ MODULE PlayTab ------------------------------
(***************************************************************************)
(* The Play tab: a tap counter fed by a click callback, and a slider, a    *)
(* switch, a roller and the touch sample that labels and an LED follow     *)
(* while the tab is visible.                                               *)
(***************************************************************************)
EXTENDS TouchPoll, UiMod

CONSTANTS TapWrap,    \* TAPS is a u32: it wraps at 2^32
          Knobs,      \* slider positions considered
          Options     \* number of roller options, 5 in the code

ASSUME PlayAssumption ==
  /\ TapWrap \in Nat \ {0} /\ Options \in Nat \ {0}
  /\ {0, 30} \subseteq Knobs /\ Knobs \subseteq 0 .. 100

VARIABLES TAPS,
          knob, switch, selected,    \* the widgets, moved by LVGL
          play                       \* labels and LED with their caches

playInputs == <<TAPS, knob, switch, selected>>
playVars == <<playInputs, play>>

(* "Touch: -" and "Touch: released" both say that nothing is pressed. *)
coords_text(xy) == IF xy.pressed THEN <<xy.at>> ELSE <<>>

(* The slider's cache starts at 0 while its knob and its label are at 30.  *)
PlayCreate ==
  /\ TAPS = 0 /\ knob = 30 /\ switch = FALSE /\ selected = 0
  /\ play = [taps   |-> Label(0, 0),
             slider |-> Label(0, 30),
             led    |-> Label(FALSE, FALSE),
             roller |-> Label(0, 0),
             coords |-> Label(Released, <<>>)]

on_button_clicked ==
  /\ TAPS' = (TAPS + 1) % TapWrap
  /\ UNCHANGED <<knob, switch, selected>>

(* One gesture on the visible tab. *)
PlayGesture ==
  \/ on_button_clicked
  \/ knob' \in Knobs /\ UNCHANGED <<TAPS, switch, selected>>
  \/ switch' = ~switch /\ UNCHANGED <<TAPS, knob, selected>>
  \/ selected' \in 0 .. Options - 1 /\ UNCHANGED <<TAPS, knob, switch>>

PlayUpdate(active) ==
  LET Seen(label, source, text) == IF active THEN Diff(label, source, text) ELSE label
  IN play' = [taps   |-> Diff(play.taps, TAPS, TAPS),
              slider |-> Seen(play.slider, knob, knob),
              led    |-> Seen(play.led, switch, switch),
              roller |-> Seen(play.roller, selected, selected),
              coords |-> Seen(play.coords, TOUCH_XY, coords_text(TOUCH_XY))]
===========================================================================
