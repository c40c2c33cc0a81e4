---------------------------- MODULE HealthFacts ----------------------------
(***************************************************************************)
(* Facts about the failure tracker that the proofs about the devices use.  *)
(***************************************************************************)
EXTENDS Health, TLAPS

(* A fresh tracker is well formed and has its whole budget. *)
LEMMA NewTracker ==
  ASSUME NEW ok \in BOOLEAN
  PROVE  HealthNew(ok) \in HealthState /\ WithinBudget(HealthNew(ok))
BY MaxFailuresAssumption DEF HealthNew, HealthState, WithinBudget

(* Folding one result into the tracker of a device that is still polled    *)
(* keeps it well formed and within its budget.                             *)
LEMMA CheckOnce ==
  ASSUME NEW h \in HealthState, NEW success \in BOOLEAN, h.ok, WithinBudget(h)
  PROVE  Check(h, success) \in HealthState /\ WithinBudget(Check(h, success))
<1>1. h.failures \in Nat /\ h.failures < MaxFailures
  BY DEF HealthState, WithinBudget
<1>2. CASE success
  BY <1>1, <1>2, MaxFailuresAssumption DEF Check, HealthState, WithinBudget
<1>3. CASE ~success /\ h.failures + 1 >= MaxFailures
  BY <1>1, <1>3, MaxFailuresAssumption DEF Check, HealthState, WithinBudget
<1>4. CASE ~success /\ ~(h.failures + 1 >= MaxFailures)
  BY <1>1, <1>4, MaxFailuresAssumption DEF Check, HealthState, WithinBudget
<1>5. QED BY <1>2, <1>3, <1>4

(* One result, when two failures are still to spare. *)
LEMMA CheckWithSlack ==
  ASSUME NEW h \in HealthState, NEW success \in BOOLEAN,
         h.ok, h.failures + 1 < MaxFailures
  PROVE  /\ Check(h, success) \in HealthState
         /\ Check(h, success).ok
         /\ Check(h, success).failures <= h.failures + 1
         /\ success => Check(h, success).failures = 0
<1>1. CASE success
  BY <1>1, MaxFailuresAssumption DEF Check, HealthState
<1>2. CASE ~success
  BY <1>2, MaxFailuresAssumption DEF Check, HealthState
<1>3. QED BY <1>1, <1>2

(* A success followed by at most two failures costs no device its place:   *)
(* what the three bus operations of a PMU poll rely on.                    *)
LEMMA CheckAfterSuccess ==
  ASSUME NEW h \in HealthState, h.ok, WithinBudget(h),
         NEW a \in BOOLEAN, NEW b \in BOOLEAN
  PROVE  /\ Check(Check(Check(h, TRUE), a), b) \in HealthState
         /\ Check(Check(Check(h, TRUE), a), b).ok
         /\ WithinBudget(Check(Check(Check(h, TRUE), a), b))
<1> DEFINE h1 == Check(h, TRUE)
           h2 == Check(h1, a)
           h3 == Check(h2, b)
<1>1. h1 \in HealthState /\ h1.ok /\ h1.failures = 0
  BY MaxFailuresAssumption DEF Check, HealthState
<1> HIDE DEF h1
<1>2. h2 \in HealthState /\ h2.ok /\ h2.failures <= 1
  BY <1>1, CheckWithSlack, MaxFailuresAssumption
<1> HIDE DEF h2
<1>3. h2.failures \in Nat /\ h2.failures + 1 < MaxFailures
  BY <1>2, MaxFailuresAssumption DEF HealthState
<1>4. h3 \in HealthState /\ h3.ok /\ h3.failures <= h2.failures + 1
  BY <1>2, <1>3, CheckWithSlack
<1> HIDE DEF h3
<1>5. WithinBudget(h3)
  BY <1>3, <1>4, MaxFailuresAssumption DEF WithinBudget, HealthState
<1>6. QED BY <1>4, <1>5 DEF h1, h2, h3
===========================================================================
