----------------------------- MODULE SystemTab -----------------------------
(***************************************************************************)
(* The System tab: the backlight slider (module Backlight) and the stats   *)
(* table, rewritten on the 1 Hz tick while the tab is visible.  Of its     *)
(* rows the model keeps Wi-Fi, address and uptime; the heap rows are       *)
(* written in the same pass.                                               *)
(***************************************************************************)
EXTENDS Backlight, UiMod

VARIABLE stats    \* <<Wi-Fi text, uptime>>, <<>> while the cells hold "-"

SystemCreate == stats = <<>>

SystemUpdate(active, tick_1hz, secs) ==
  IF active
  THEN /\ TabUpdate
       /\ stats' = IF tick_1hz THEN <<wifi_text(WIFI_STATE, WIFI_IP), secs>> ELSE stats
  ELSE UNCHANGED <<lightVars, stats>>
===========================================================================
