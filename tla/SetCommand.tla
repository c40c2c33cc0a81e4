----------------------------- MODULE SetCommand ----------------------------
(***************************************************************************)
(* The cell through which the SNTP client tells the sensor hub to set the  *)
(* clock: a moment in seconds since 2000, or 0 for no command.             *)
(***************************************************************************)
EXTENDS Naturals

CONSTANT MaxEpoch    \* the largest moment, u32::MAX in the code

ASSUME EpochAssumption == MaxEpoch \in Nat \ {0}

VARIABLE RTC_SET_EPOCH

Moments == 0 .. MaxEpoch
Commands == 1 .. MaxEpoch
===========================================================================
