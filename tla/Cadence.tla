------------------------------ MODULE Cadence ------------------------------
(***************************************************************************)
(* Which device is due on which tick of the sensor hub.  The tick is a     *)
(* u32 that wraps; 2^32 is a multiple of neither period, so the cadence    *)
(* slips at the wrap.                                                      *)
(***************************************************************************)
EXTENDS Naturals

CONSTANTS ImuEvery,    \* IMU_EVERY
          SlowEvery,   \* SLOW_EVERY
          RtcPhase,    \* RTC_PHASE
          TickWrap     \* 2^32 in the code

ASSUME CadenceAssumption ==
  /\ ImuEvery \in Nat \ {0}
  /\ SlowEvery \in Nat \ {0}
  /\ RtcPhase \in 1 .. SlowEvery - 1
  /\ TickWrap \in Nat /\ TickWrap > SlowEvery

(* Mutant of NextTick: saturating instead of wrapping.                     *)
NextTickSaturating(t) == IF t = TickWrap - 1 THEN t ELSE t + 1

NextTick(t) == (t + 1) % TickWrap

ImuDue(t) == t % ImuEvery = 0
PmuDue(t) == t % SlowEvery = 0
(* Mutant of RtcDue: the phase is forgotten.                               *)
RtcDueUnstaggered(t) == t % SlowEvery = 0

RtcDue(t) == t % SlowEvery = RtcPhase
===========================================================================
