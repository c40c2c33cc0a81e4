------------------------------ MODULE RtcPoll -----------------------------
(***************************************************************************)
(* The PCF85063 as the sensor hub handles it: the clock is read about once *)
(* a second and published, and a set command left in RTC_SET_EPOCH by the  *)
(* SNTP client is consumed on the next tick, written to the device, and    *)
(* re-read.  The device itself is the environment: it counts seconds, and  *)
(* its oscillator may stop, which raises the OS flag of the seconds        *)
(* register.  Moments stand for seconds since 2000-01-01; the conversion   *)
(* to a civil date is CivilDate's subject.                                 *)
(***************************************************************************)
EXTENDS Health, SetCommand

CONSTANT TornWrites   \* may a refused set burst leave some bytes written?

ASSUME RtcAssumption == TornWrites \in BOOLEAN

VARIABLES chip_time,      \* the device's counters (external)
          chip_os,        \* the device's oscillator-stop flag (external)
          chip_good,      \* ghost: the counters descend from a whole set
          rtc,            \* the tracker
          RTC_CLOCK       \* RTC_DATE and RTC_HMS: the last reading published

chip == <<chip_time, chip_os, chip_good>>
rtcVars == <<chip, rtc, RTC_CLOCK, RTC_SET_EPOCH>>

Readings == [read : BOOLEAN, valid : BOOLEAN, at : Moments, good : BOOLEAN]

Unread == [read |-> FALSE, valid |-> FALSE, at |-> 0, good |-> FALSE]

(* The date is published either way; the time of day carries the valid bit *)
(* only if the OS flag was clear.  good is the ghost of the reading.       *)
Reading(t, os, good) ==
  [read |-> TRUE, valid |-> ~os, at |-> t, good |-> good]

RtcTypeOK ==
  /\ chip_time \in Moments
  /\ chip_os \in BOOLEAN
  /\ chip_good \in BOOLEAN
  /\ rtc \in HealthState
  /\ RTC_CLOCK \in Readings
  /\ RTC_SET_EPOCH \in Moments

(* The device keeps counting on its backup cell, so a clear flag at boot   *)
(* means a good time.                                                      *)
RtcInit ==
  /\ chip_time \in Moments
  /\ chip_os \in BOOLEAN
  /\ chip_good = ~chip_os
  /\ rtc \in {HealthNew(ok) : ok \in BOOLEAN}    \* the control1 probe
  /\ RTC_CLOCK = Unread
  /\ RTC_SET_EPOCH = 0

(* The device rolls over after a hundred years. *)
ChipSecond ==
  /\ chip_time' = (chip_time + 1) % (MaxEpoch + 1)
  /\ UNCHANGED <<chip_os, chip_good, rtc, RTC_CLOCK, RTC_SET_EPOCH>>

OscillatorStops ==
  /\ chip_time' \in Moments
  /\ chip_os' = TRUE
  /\ chip_good' = FALSE
  /\ UNCHANGED <<rtc, RTC_CLOCK, RTC_SET_EPOCH>>

(* SNTP stores a timestamp; one that is still pending is overwritten. *)
PostEpoch(e) ==
  /\ RTC_SET_EPOCH' = e
  /\ UNCHANGED <<chip, rtc, RTC_CLOCK>>

(* Mutant of RefusedBurst: seconds and the rest are two transactions, and  *)
(* the error was the second one's.                                         *)
RefusedBurstSplit ==
  /\ chip_time' \in Moments
  /\ chip_os' = FALSE
  /\ chip_good' = FALSE

(* A set burst that was refused: nothing was written, or, if TornWrites,   *)
(* the bytes acknowledged before the error were.  The seconds, with the OS *)
(* bit clear, are the first of them.                                       *)
RefusedBurst ==
  \/ UNCHANGED chip
  \/ /\ TornWrites
     /\ chip_time' \in Moments
     /\ chip_os' = FALSE
     /\ chip_good' = FALSE

WholeBurst(e) ==
  /\ chip_time' = e
  /\ chip_os' = FALSE
  /\ chip_good' = TRUE

(* Mutant of HubRtc: the pending command is taken before the poll, and the *)
(* tracker's verdict on the poll is not looked at again.                   *)
HubRtcHoisted(due, readable, settable, rereadable) ==
  LET polled  == due /\ rtc.ok
      setting == RTC_SET_EPOCH # 0 /\ rtc.ok
      written == setting /\ settable
      h1 == IF polled THEN Check(rtc, readable) ELSE rtc
      h2 == IF setting THEN Check(h1, settable) ELSE h1
      h3 == IF written THEN Check(h2, rereadable) ELSE h2
  IN /\ rtc' = h3
     /\ IF written THEN WholeBurst(RTC_SET_EPOCH)
        ELSE IF setting THEN RefusedBurst ELSE UNCHANGED chip
     /\ RTC_CLOCK' = IF written /\ rereadable
                     THEN Reading(RTC_SET_EPOCH, FALSE, TRUE)
                     ELSE IF polled /\ readable
                          THEN Reading(chip_time, chip_os, chip_good) ELSE RTC_CLOCK
     /\ RTC_SET_EPOCH' = 0

(* Mutant of HubRtc: the set comes first and the poll publishes what it    *)
(* read before it.                                                         *)
HubRtcPollLast(due, readable, settable, rereadable) ==
  LET setting == RTC_SET_EPOCH # 0 /\ rtc.ok
      written == setting /\ settable
      h1 == IF setting THEN Check(rtc, settable) ELSE rtc
      h2 == IF written THEN Check(h1, rereadable) ELSE h1
      polled  == due /\ h2.ok
  IN /\ rtc' = IF polled THEN Check(h2, readable) ELSE h2
     /\ IF written THEN WholeBurst(RTC_SET_EPOCH)
        ELSE IF setting THEN RefusedBurst ELSE UNCHANGED chip
     /\ RTC_CLOCK' = IF polled /\ readable
                     THEN Reading(chip_time, chip_os, chip_good)
                     ELSE IF written /\ rereadable
                          THEN Reading(RTC_SET_EPOCH, FALSE, TRUE)
                          ELSE RTC_CLOCK
     /\ RTC_SET_EPOCH' = 0

(* One hub tick, as far as the clock goes: the poll if it is due, then the *)
(* set command if one is pending, then the re-read of a set that worked.   *)
(* The three flags say which of the bus operations the device would answer.*)
HubRtc(due, readable, settable, rereadable) ==
  LET polled  == due /\ rtc.ok
      h1 == IF polled THEN Check(rtc, readable) ELSE rtc
      setting == RTC_SET_EPOCH # 0 /\ h1.ok
      written == setting /\ settable
      h2 == IF setting THEN Check(h1, settable) ELSE h1
      h3 == IF written THEN Check(h2, rereadable) ELSE h2
  IN /\ rtc' = h3
     /\ IF written THEN WholeBurst(RTC_SET_EPOCH)
        ELSE IF setting THEN RefusedBurst ELSE UNCHANGED chip
     /\ RTC_CLOCK' = IF written /\ rereadable
                     THEN Reading(RTC_SET_EPOCH, FALSE, TRUE)
                     ELSE IF polled /\ readable
                          THEN Reading(chip_time, chip_os, chip_good) ELSE RTC_CLOCK
     /\ RTC_SET_EPOCH' = 0

RtcTick(due) ==
  \E readable, settable, rereadable \in BOOLEAN :
    HubRtc(due, readable, settable, rereadable)

RtcNext ==
  \/ ChipSecond
  \/ OscillatorStops
  \/ \E e \in Commands : PostEpoch(e)
  \/ \E due \in BOOLEAN : RtcTick(due)

RtcSpec == RtcInit /\ [][RtcNext]_rtcVars

---------------------------------------------------------------------------

(* A time of day shown as valid was read from a clock whose counters come  *)
(* from a whole set command, kept up by the backup cell ever since.        *)
TrustedTime == RTC_CLOCK.valid => RTC_CLOCK.good

(* If the tracker is clean after a set command was consumed, the command   *)
(* reached the device and is what the UI shows, even when the one-second   *)
(* poll fell on the same tick.                                             *)
CleanSetIsShown ==
  [][RTC_SET_EPOCH # 0 /\ RTC_SET_EPOCH' = 0 /\ rtc'.ok /\ rtc'.failures = 0
       => /\ chip_time' = RTC_SET_EPOCH /\ ~chip_os'
          /\ RTC_CLOCK' = Reading(RTC_SET_EPOCH, FALSE, TRUE)]_rtcVars
===========================================================================
