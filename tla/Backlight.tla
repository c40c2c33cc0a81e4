----------------------------- MODULE Backlight ----------------------------
(***************************************************************************)
(* The one command path from the UI to the hub: the slider of the System   *)
(* tab is read by the tab's update while it is visible, goes through       *)
(* BACKLIGHT_PCT, and is applied to the PWM channel by the next hub tick.  *)
(* Three caches of the same number (last_bl, BACKLIGHT_PCT,                *)
(* applied_backlight) decide whether anything happens.                     *)
(***************************************************************************)
EXTENDS Naturals

CONSTANTS Percent,     \* slider positions and duties considered
          MinPct,      \* BACKLIGHT_MIN_PCT, 5
          SliderMin    \* lower end of the slider's range, 5

ASSUME BacklightAssumption ==
  /\ Percent \subseteq 0 .. 100
  /\ 100 \in Percent
  /\ MinPct \in Percent /\ SliderMin \in Percent
  /\ MinPct <= SliderMin

VARIABLES slider,             \* knob position, moved by LVGL (external)
          system_active,      \* the System tab is the visible one (external)
          last_bl,            \* SystemTab's cache of the knob
          BACKLIGHT_PCT,      \* the command cell
          applied_backlight,  \* the hub's cache of the cell
          duty                \* PWM duty of the channel

lightUi == <<slider, system_active, last_bl, BACKLIGHT_PCT>>
lightVars == <<lightUi, applied_backlight, duty>>

NotApplied == 255     \* u8::MAX forces an apply on the first tick

(* Mutant of Knob: the range is left at the widget's default, 0 .. 100.    *)
KnobFullRange == Percent

Knob == {p \in Percent : p >= SliderMin}

LightTypeOK ==
  /\ slider \in Knob
  /\ system_active \in BOOLEAN
  /\ last_bl \in Knob
  /\ BACKLIGHT_PCT \in Knob
  /\ applied_backlight \in Knob \cup {NotApplied}
  /\ duty \in Percent

LightInit ==
  /\ slider = 100          \* set_value(init_pct)
  /\ system_active = FALSE
  /\ last_bl = 100
  /\ BACKLIGHT_PCT = 100
  /\ applied_backlight = NotApplied
  /\ duty = 100            \* the channel's configured duty

(* A hidden slider cannot be dragged. *)
Drag(p) ==
  /\ system_active
  /\ slider' = p
  /\ UNCHANGED <<system_active, last_bl, BACKLIGHT_PCT, applied_backlight, duty>>

SwitchTab ==
  /\ system_active' = ~system_active
  /\ UNCHANGED <<slider, last_bl, BACKLIGHT_PCT, applied_backlight, duty>>

(* Mutant of TabUpdate: the change is noted while hidden and then lost.    *)
TabUpdateNotesHidden ==
  /\ last_bl' = slider
  /\ BACKLIGHT_PCT' = IF system_active THEN slider ELSE BACKLIGHT_PCT
  /\ UNCHANGED <<slider, system_active, applied_backlight, duty>>

(* SystemTab::update returns early while the tab is hidden. *)
TabUpdate ==
  /\ system_active
  /\ IF slider # last_bl
     THEN last_bl' = slider /\ BACKLIGHT_PCT' = slider
     ELSE UNCHANGED <<last_bl, BACKLIGHT_PCT>>
  /\ UNCHANGED <<slider, system_active, applied_backlight, duty>>

Clamped(p) == IF p < MinPct THEN MinPct ELSE IF p > 100 THEN 100 ELSE p

(* The hub's part of a tick.  set_duty refuses only duties above 100 and   *)
(* unconfigured channels, so it does not fail here.                        *)
Apply ==
  IF BACKLIGHT_PCT # applied_backlight
  THEN /\ applied_backlight' = BACKLIGHT_PCT
       /\ duty' = Clamped(BACKLIGHT_PCT)
  ELSE UNCHANGED <<applied_backlight, duty>>

ApplyTick == Apply /\ UNCHANGED lightUi

LightNext == (\E p \in Knob : Drag(p)) \/ SwitchTab \/ TabUpdate \/ ApplyTick

(* The UI loop and the hub ticker both keep running. *)
LightSpec == LightInit /\ [][LightNext]_lightVars /\ WF_lightVars(TabUpdate) /\ WF_lightVars(ApplyTick)

---------------------------------------------------------------------------

(* When no cache along the path differs from the next one, the panel has   *)
(* the brightness of the knob: a change is never dropped half-way, whatever*)
(* tab switches fell in between.                                           *)
SettledMeansApplied ==
  slider = last_bl /\ BACKLIGHT_PCT = applied_backlight => duty = slider

(* system.rs:48, "keeps the knob position honest": a knob left alone on    *)
(* the visible tab ends up as the duty of the panel.                       *)
KnobIsHonest ==
  \A p \in Knob :
    <>[](system_active /\ slider = p) => <>[](duty = p)
===========================================================================
