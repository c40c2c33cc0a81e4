--------------------------- MODULE Availability ---------------------------
(***************************************************************************)
(* What the sensor hub promises about its devices, independently of how    *)
(* they are polled: a device may be given up, it is then given up for good *)
(* and skipped, so what was last published for it stays; sensors.rs:10,    *)
(* "marked absent and skipped".  SensorHub implements this.                *)
(***************************************************************************)
CONSTANT Device

VARIABLES live,     \* the devices not given up
          shown     \* what is published for each device

vars == <<live, shown>>

Init ==
  /\ live \subseteq Device
  /\ DOMAIN shown = Device

(* Live devices publish anything, and some of them may be given up. *)
Poll ==
  /\ live' \subseteq live
  /\ DOMAIN shown' = Device
  /\ \A d \in Device \ live : shown'[d] = shown[d]

Spec == Init /\ [][Poll]_vars
===========================================================================
