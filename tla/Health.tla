------------------------------ MODULE Health ------------------------------
(***************************************************************************)
(* The consecutive-failure tracker of the sensor hub (struct Health in     *)
(* sensors.rs).  The hub keeps one per I2C device.  Every result of a bus  *)
(* operation made on behalf of a poll is folded into the tracker; the      *)
(* MaxFailures-th failure without a success in between marks the device    *)
(* absent, and nothing ever marks it present again.                        *)
(***************************************************************************)
EXTENDS Naturals

CONSTANT MaxFailures    \* MAX_FAILURES, 5 in the code

(* One PMU poll folds up to two failures in after its first success, and   *)
(* the tracker must survive that for the bound below: see PmuPoll.         *)
ASSUME MaxFailuresAssumption == MaxFailures \in Nat /\ MaxFailures > 2

HealthState == [ok : BOOLEAN, failures : 0 .. MaxFailures]

HealthNew(ok) == [ok |-> ok, failures |-> 0]

(* Mutants of Check: the limit is off by one; the limit is never acted on;  *)
(* a success does not forgive the failures before it.                      *)
CheckOneTooMany(h, success) ==
  IF success
  THEN [h EXCEPT !.failures = 0]
  ELSE [ok       |-> IF h.failures >= MaxFailures THEN FALSE ELSE h.ok,
        failures |-> h.failures + 1]

CheckNeverGivesUp(h, success) ==
  [h EXCEPT !.failures = IF success THEN 0 ELSE (@ + 1) % MaxFailures]

CheckNeverForgives(h, success) ==
  IF success
  THEN h
  ELSE [ok       |-> IF h.failures + 1 >= MaxFailures THEN FALSE ELSE h.ok,
        failures |-> h.failures + 1]

Check(h, success) ==
  IF success
  THEN [ok |-> h.ok, failures |-> 0]
  ELSE [ok       |-> IF h.failures + 1 >= MaxFailures THEN FALSE ELSE h.ok,
        failures |-> h.failures + 1]

(* A device that is still polled has failures to spare, so the u8 counter  *)
(* of the code never passes MaxFailures.                                   *)
WithinBudget(h) == h.ok => h.failures < MaxFailures
===========================================================================
