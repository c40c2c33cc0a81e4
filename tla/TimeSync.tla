------------------------------ MODULE TimeSync -----------------------------
(***************************************************************************)
(* Time of day end to end: the SNTP client posts set commands, the sensor  *)
(* hub consumes them and writes the clock, the clock is read back for the  *)
(* UI.  The two tasks share RTC_SET_EPOCH and nothing else; neither hears  *)
(* whether the other succeeded.                                            *)
(***************************************************************************)
EXTENDS RtcPoll, Sntp

clientVars == <<sntp_at, config_up, calm, owed, wire, rx, stale>>
syncVars == <<rtcVars, clientVars>>

SyncInit == RtcInit /\ SntpInit

Net == Network /\ UNCHANGED <<chip, rtc, RTC_CLOCK>>

ClientStep == sntp_task /\ UNCHANGED <<chip, rtc, RTC_CLOCK>>

(* The device, which keeps its oscillator running in calm times. *)
Device ==
  /\ ChipSecond \/ (~calm /\ OscillatorStops)
  /\ UNCHANGED clientVars

(* A hub tick; no bus operation is refused in calm times. *)
HubTick(due) ==
  /\ \E readable, settable, rereadable \in BOOLEAN :
       /\ calm => readable /\ settable /\ rereadable
       /\ HubRtc(due, readable, settable, rereadable)
  /\ UNCHANGED clientVars

SyncNext == Net \/ ClientStep \/ Device \/ \E due \in BOOLEAN : HubTick(due)

SyncSpec ==
  /\ SyncInit /\ [][SyncNext]_syncVars
  /\ NetworkFairness
  /\ WF_syncVars(ClientStep)
  /\ WF_syncVars(HubTick(TRUE))

---------------------------------------------------------------------------

(* Once the network and the bus stay calm the clock becomes valid and      *)
(* stays so, unless the device had been given up: a command lost to a      *)
(* refused write is made good by a later sync.                             *)
ClockBecomesValid == <>[]calm => <>[](RTC_CLOCK.valid \/ ~rtc.ok)
===========================================================================
