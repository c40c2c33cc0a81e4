---------------------------- MODULE MCTimeSync ----------------------------
(***************************************************************************)
(* TimeSync for TLC.  Every behaviour has one of the two tasks in focus.   *)
(* With the client in focus no clock is fitted, so the hub only takes the  *)
(* commands, and the network does all it can.  With the clock in focus the *)
(* network loses and delays answers, but delivers none late or foreign.    *)
(***************************************************************************)
EXTENDS TimeSync

VARIABLE focus

MCVars == <<syncVars, focus>>

MCInit ==
  /\ focus \in {"client", "clock"}
  /\ SyncInit
  /\ focus = "client" => ~rtc.ok /\ chip_time = 0 /\ chip_os

InFocus(step) ==
  /\ step
  /\ UNCHANGED focus
  /\ focus = "client" => UNCHANGED chip
  /\ focus = "clock" =>
       /\ Cardinality(wire') <= 1 /\ Len(rx') <= 1
       /\ \A d \in wire' : d.fresh /\ d.ntp >= NtpToY2k

MCSpec ==
  /\ MCInit /\ [][InFocus(SyncNext)]_MCVars
  /\ WF_MCVars(InFocus(calm /\ ConfigChanges /\ UNCHANGED <<chip, rtc, RTC_CLOCK>>))
  /\ WF_MCVars(InFocus(calm /\ (\E d \in Datagrams : Arrives(d)) /\ UNCHANGED <<chip, rtc, RTC_CLOCK>>))
  /\ WF_MCVars(InFocus(calm /\ (\E d \in Datagrams : Delivered(d)) /\ UNCHANGED <<chip, rtc, RTC_CLOCK>>))
  /\ WF_MCVars(InFocus(ClientStep))
  /\ WF_MCVars(InFocus(HubTick(TRUE)))
===========================================================================
