--------------------------- MODULE ArithmeticProofs ------------------------
(***************************************************************************)
(* Theorems about the hub's cadence, for every period, phase and width of  *)
(* the tick counter, about the scaling of IMU counts, for every range of   *)
(* counts, about the calendar, for every moment of the century, and about  *)
(* the count of failed polls, for every failure limit.                     *)
(***************************************************************************)
EXTENDS CadenceWalk, ImuScale, CivilDate, PmuStreak, HealthFacts, TLAPS

---------------------------------------------------------------------------
(* Cadence *)

LEMMA ProductIsNat == \A m, n \in Nat : m * n \in Nat
OBVIOUS

LEMMA ProductGrows ==
  ASSUME NEW w \in Nat, NEW m \in Nat, NEW n \in Nat, m <= n
  PROVE  m * w <= n * w
OBVIOUS

LEMMA DivMod ==
  ASSUME NEW k \in Nat, NEW w \in Nat \ {0}
  PROVE  /\ k % w \in 0 .. w - 1
         /\ k \div w \in Nat
         /\ k = (k \div w) * w + (k % w)
OBVIOUS

LEMMA QuotientKeeps ==
  ASSUME NEW w \in Nat \ {0}, NEW q \in Nat, NEW d \in Nat,
         NEW r \in 0 .. w - 1, NEW m \in 0 .. w - 1,
         d * w + m = q * w + r
  PROVE  ~(d < q)
<1>1. SUFFICES ASSUME d + 1 <= q PROVE FALSE
  OBVIOUS
<1>2. (d + 1) * w <= q * w
  BY <1>1, ProductGrows
<1>3. (d + 1) * w = d * w + w
  OBVIOUS
<1>4. d * w \in Nat /\ q * w \in Nat
  BY ProductIsNat
<1>5. QED BY <1>2, <1>3, <1>4

(* The remainder counts up to the divisor and starts over. *)
LEMMA ModStep ==
  ASSUME NEW t \in Nat, NEW w \in Nat \ {0}
  PROVE  /\ t % w \in 0 .. w - 1
         /\ (t % w) + 1 < w => (t + 1) % w = (t % w) + 1
         /\ (t % w) + 1 = w => (t + 1) % w = 0
<1> DEFINE q == t \div w
           r == t % w
           d == (t + 1) \div w
           m == (t + 1) % w
<1>1. r \in 0 .. w - 1 /\ q \in Nat /\ t = q * w + r
  BY DivMod
<1>2. m \in 0 .. w - 1 /\ d \in Nat /\ t + 1 = d * w + m
  <2>1. t + 1 \in Nat
    OBVIOUS
  <2>2. QED BY <2>1, DivMod, Zenon
<1> HIDE DEF q, r, d, m
<1>3. q * w \in Nat /\ d * w \in Nat
  BY <1>1, <1>2, ProductIsNat
<1>4. ASSUME r + 1 < w PROVE m = r + 1
  <2>1. d * w + m = q * w + (r + 1) /\ r + 1 \in 0 .. w - 1
    BY <1>1, <1>2, <1>3, <1>4
  <2>2. ~(d < q)
    BY <1>1, <1>2, <2>1, QuotientKeeps, Zenon
  <2>3. q * w + (r + 1) = d * w + m
    BY <2>1
  <2>4. ~(q < d)
    BY <1>1, <1>2, <2>1, <2>3, QuotientKeeps, Zenon
  <2>5. d = q
    BY <1>1, <1>2, <2>2, <2>4
  <2>6. QED BY <1>1, <1>2, <1>3, <2>1, <2>5
<1>5. ASSUME r + 1 = w PROVE m = 0
  <2>1. (q + 1) * w = q * w + w
    BY <1>1
  <2>2. (q + 1) * w \in Nat
    BY <1>1, ProductIsNat
  <2>3. d * w + m = (q + 1) * w + 0 /\ 0 \in 0 .. w - 1 /\ q + 1 \in Nat
    BY <1>1, <1>2, <1>3, <1>5, <2>1
  <2>4. ~(d < q + 1)
    BY <1>2, <2>3, QuotientKeeps, Zenon
  <2>5. (q + 1) * w + 0 = d * w + m
    BY <2>3
  <2>6. ~(q + 1 < d)
    BY <1>2, <2>3, <2>5, QuotientKeeps, Zenon
  <2>7. d = q + 1
    BY <1>1, <1>2, <2>4, <2>6
  <2>8. QED BY <1>2, <1>3, <2>2, <2>3, <2>7
<1>6. QED BY <1>1, <1>4, <1>5 DEF r, m

LEMMA SmallMod ==
  ASSUME NEW w \in Nat \ {0}, NEW t \in 0 .. w - 1
  PROVE  t % w = t
OBVIOUS

(* How long each device has been waiting, as a function of the tick.  In   *)
(* the period that begins with a wrap the clock waits on top of what it    *)
(* had waited when the counter wrapped, at most a period in all.           *)
WaitsByTick ==
  LET r == tick % SlowEvery
  IN /\ since["imu"] = tick % ImuEvery
     /\ since["pmu"] = r
     /\ since["rtc"] \in Nat
     /\ r >= RtcPhase => since["rtc"] = r - RtcPhase
     /\ r < RtcPhase =>
          \/ tick < RtcPhase /\ since["rtc"] <= SlowEvery + tick
          \/ since["rtc"] = r + SlowEvery - RtcPhase

CadenceInv ==
  /\ tick \in 0 .. TickWrap - 1
  /\ since = [d \in Slow |-> since[d]]
  /\ WaitsByTick

LEMMA CadenceStarts == CadenceInit => CadenceInv
<1> SUFFICES ASSUME CadenceInit PROVE CadenceInv
  OBVIOUS
<1>1. tick = 0 /\ 0 % ImuEvery = 0 /\ 0 % SlowEvery = 0
  BY CadenceAssumption DEF CadenceInit
<1>2. since = [d \in Slow |-> 0]
  BY DEF CadenceInit
<1>3. since["imu"] = 0 /\ since["pmu"] = 0 /\ since["rtc"] = 0
  BY <1>2 DEF Slow
<1>4. since = [d \in Slow |-> since[d]]
  BY <1>2
<1>5. WaitsByTick
  BY <1>1, <1>3, CadenceAssumption DEF WaitsByTick
<1>6. QED BY <1>1, <1>4, <1>5, CadenceAssumption DEF CadenceInv

(* What a tick does to each wait. *)
LEMMA WaitsStep ==
  ASSUME Tick, CadenceInv
  PROVE  /\ ImuDue(tick') => since'["imu"] = 0
         /\ ~ImuDue(tick') => since'["imu"] = since["imu"] + 1
         /\ PmuDue(tick') => since'["pmu"] = 0
         /\ ~PmuDue(tick') => since'["pmu"] = since["pmu"] + 1
         /\ RtcDue(tick') => since'["rtc"] = 0
         /\ ~RtcDue(tick') => since'["rtc"] = since["rtc"] + 1
         /\ since' = [d \in Slow |-> since'[d]]
<1>1. since' = [d \in Slow |-> IF Due(d, tick') THEN 0 ELSE since[d] + 1]
  BY DEF Tick
<1>2. /\ Due("imu", tick') = ImuDue(tick')
      /\ Due("pmu", tick') = PmuDue(tick')
      /\ Due("rtc", tick') = RtcDue(tick')
  BY DEF Due
<1>3. "imu" \in Slow /\ "pmu" \in Slow /\ "rtc" \in Slow
  BY DEF Slow
<1>4. since' = [d \in Slow |-> since'[d]]
  BY <1>1
<1>5. QED BY <1>1, <1>2, <1>3, <1>4

LEMMA CadenceGoesOn == CadenceInv /\ [Tick]_cadenceVars => CadenceInv'
<1>1. ASSUME CadenceInv, UNCHANGED cadenceVars PROVE CadenceInv'
  BY <1>1 DEF CadenceInv, WaitsByTick, cadenceVars
<1>2. ASSUME CadenceInv, Tick PROVE CadenceInv'
  <2> DEFINE r == tick % SlowEvery
  <2>1. /\ tick \in Nat /\ TickWrap \in Nat /\ tick < TickWrap /\ SlowEvery < TickWrap
        /\ SlowEvery \in Nat \ {0} /\ ImuEvery \in Nat \ {0} /\ RtcPhase \in 1 .. SlowEvery - 1
        /\ since["imu"] = tick % ImuEvery
        /\ since["pmu"] = r
        /\ since["rtc"] \in Nat
        /\ r >= RtcPhase => since["rtc"] = r - RtcPhase
        /\ r < RtcPhase =>
             \/ tick < RtcPhase /\ since["rtc"] <= SlowEvery + tick
             \/ since["rtc"] = r + SlowEvery - RtcPhase
    BY <1>2, CadenceAssumption DEF CadenceInv, WaitsByTick
  <2>2. /\ tick % SlowEvery \in 0 .. SlowEvery - 1
        /\ (tick % SlowEvery) + 1 < SlowEvery => (tick + 1) % SlowEvery = (tick % SlowEvery) + 1
        /\ (tick % SlowEvery) + 1 = SlowEvery => (tick + 1) % SlowEvery = 0
        /\ tick % ImuEvery \in 0 .. ImuEvery - 1
        /\ (tick % ImuEvery) + 1 < ImuEvery => (tick + 1) % ImuEvery = (tick % ImuEvery) + 1
        /\ (tick % ImuEvery) + 1 = ImuEvery => (tick + 1) % ImuEvery = 0
    BY <2>1, ModStep, Zenon
  <2>3. tick < SlowEvery => r = tick
    <3>1. tick < SlowEvery => tick \in 0 .. SlowEvery - 1
      BY <2>1
    <3>2. QED BY <2>1, <3>1, SmallMod, Zenon
  <2>4. /\ tick + 1 < TickWrap => tick' = tick + 1
        /\ tick + 1 = TickWrap => tick' = 0
    BY <1>2, <2>1 DEF Tick, NextTick
  <2>5. /\ ImuDue(tick') <=> tick' % ImuEvery = 0
        /\ PmuDue(tick') <=> tick' % SlowEvery = 0
        /\ RtcDue(tick') <=> tick' % SlowEvery = RtcPhase
    BY DEF ImuDue, PmuDue, RtcDue
  <2>6. 0 % SlowEvery = 0 /\ 0 % ImuEvery = 0
    BY <2>1
  <2>7. /\ ImuDue(tick') => since'["imu"] = 0
        /\ ~ImuDue(tick') => since'["imu"] = since["imu"] + 1
        /\ PmuDue(tick') => since'["pmu"] = 0
        /\ ~PmuDue(tick') => since'["pmu"] = since["pmu"] + 1
        /\ RtcDue(tick') => since'["rtc"] = 0
        /\ ~RtcDue(tick') => since'["rtc"] = since["rtc"] + 1
        /\ since' = [d \in Slow |-> since'[d]]
    BY <1>2, WaitsStep, Zenon
  <2> DEFINE i == tick % ImuEvery
             s1 == since'["imu"]  s2 == since'["pmu"]  s3 == since'["rtc"]
             w3 == since["rtc"]
  <2>8. CASE tick + 1 < TickWrap
    <3> DEFINE r2 == (tick + 1) % SlowEvery
               i2 == (tick + 1) % ImuEvery
    <3>1. tick' = tick + 1
      BY <2>4, <2>8
    <3>2. s1 = i2
      BY <2>1, <2>2, <2>5, <2>7, <3>1
    <3>3. s2 = r2
      BY <2>1, <2>2, <2>5, <2>7, <3>1
    <3>4. /\ r2 = RtcPhase => s3 = 0
          /\ r2 # RtcPhase => s3 = w3 + 1
      BY <2>5, <2>7, <3>1
    <3>5. /\ s3 \in Nat
          /\ r2 >= RtcPhase => s3 = r2 - RtcPhase
          /\ r2 < RtcPhase =>
               \/ tick + 1 < RtcPhase /\ s3 <= SlowEvery + (tick + 1)
               \/ s3 = r2 + SlowEvery - RtcPhase
      <4> HIDE DEF s3, w3
      <4>1. /\ w3 \in Nat
            /\ r >= RtcPhase => w3 = r - RtcPhase
            /\ r < RtcPhase =>
                 \/ tick < RtcPhase /\ w3 <= SlowEvery + tick
                 \/ w3 = r + SlowEvery - RtcPhase
        BY <2>1 DEF w3
      <4>2. /\ r \in 0 .. SlowEvery - 1
            /\ r + 1 < SlowEvery => r2 = r + 1
            /\ r + 1 = SlowEvery => r2 = 0
        BY <2>2
      <4> HIDE DEF r, r2
      <4>3. CASE r + 1 = SlowEvery
        BY <2>1, <3>4, <4>1, <4>2, <4>3
      <4>4. CASE r + 1 < SlowEvery /\ r < RtcPhase /\ tick < RtcPhase
        BY <2>1, <2>3, <3>4, <4>1, <4>2, <4>4
      <4>5. CASE r + 1 < SlowEvery /\ r < RtcPhase /\ ~(tick < RtcPhase)
        BY <2>1, <3>4, <4>1, <4>2, <4>5
      <4>6. CASE r + 1 < SlowEvery /\ r >= RtcPhase
        BY <2>1, <3>4, <4>1, <4>2, <4>6
      <4>7. QED BY <2>1, <4>2, <4>3, <4>4, <4>5, <4>6
    <3>6. QED BY <2>1, <2>7, <2>8, <3>1, <3>2, <3>3, <3>5 DEF CadenceInv, WaitsByTick
  <2>9. CASE tick + 1 = TickWrap
    <3>1. tick' = 0 /\ tick >= SlowEvery
      BY <2>1, <2>4, <2>9
    <3>2. s1 = 0 /\ s2 = 0 /\ s3 = w3 + 1
      BY <2>1, <2>5, <2>6, <2>7, <3>1
    <3>3. w3 < SlowEvery
      BY <2>1, <2>2, <3>1
    <3>4. QED BY <2>1, <2>6, <2>7, <3>1, <3>2, <3>3 DEF CadenceInv, WaitsByTick
  <2>10. QED BY <2>1, <2>8, <2>9
<1>3. QED BY <1>1, <1>2

(* For every cadence and wherever the tick counter wraps: IMU and PMU are  *)
(* never late, and the clock is so only right after a wrap and by no more  *)
(* than its phase.                                                         *)
THEOREM WaitsStayBounded == CadenceSpec => []WaitsAreBounded
<1>1. CadenceInv => WaitsAreBounded
  <2> SUFFICES ASSUME CadenceInv PROVE WaitsAreBounded
    OBVIOUS
  <2>1. /\ tick % SlowEvery \in 0 .. SlowEvery - 1
        /\ tick % ImuEvery \in 0 .. ImuEvery - 1
    BY CadenceAssumption DEF CadenceInv
  <2>2. QED BY <2>1, CadenceAssumption DEF CadenceInv, WaitsByTick, WaitsAreBounded
<1>2. QED BY <1>1, CadenceStarts, CadenceGoesOn, PTL DEF CadenceSpec

(* The counter wraps before the clock's turn, or at it: 2^32 leaves 33,    *)
(* RTC_PHASE itself, when divided by SLOW_EVERY.  One tick more, and the   *)
(* PMU's poll of tick 0 would follow the clock's at once.                  *)
WrapBeforePhase == TickWrap % SlowEvery <= RtcPhase

(* Where the clock stands when the counter wraps. *)
LEMMA WaitAtWrap ==
  ASSUME WrapBeforePhase, CadenceInv, tick + 1 = TickWrap
  PROVE  since["rtc"] + 1 >= SlowEvery - RtcPhase
<1> DEFINE r == tick % SlowEvery
           w == since["rtc"]
<1>1. /\ tick \in Nat /\ TickWrap \in Nat /\ SlowEvery < TickWrap
      /\ SlowEvery \in Nat \ {0} /\ RtcPhase \in 1 .. SlowEvery - 1
      /\ w \in Nat
      /\ r >= RtcPhase => w = r - RtcPhase
      /\ r < RtcPhase =>
           \/ tick < RtcPhase /\ w <= SlowEvery + tick
           \/ w = r + SlowEvery - RtcPhase
  BY CadenceAssumption DEF CadenceInv, WaitsByTick
<1>2. /\ r \in 0 .. SlowEvery - 1
      /\ r + 1 < SlowEvery => TickWrap % SlowEvery = r + 1
      /\ r + 1 = SlowEvery => TickWrap % SlowEvery = 0
  <2>1. /\ tick % SlowEvery \in 0 .. SlowEvery - 1
        /\ (tick % SlowEvery) + 1 < SlowEvery => (tick + 1) % SlowEvery = (tick % SlowEvery) + 1
        /\ (tick % SlowEvery) + 1 = SlowEvery => (tick + 1) % SlowEvery = 0
    BY <1>1, ModStep, Zenon
  <2>2. QED BY <2>1, Zenon
<1>3. ~(tick < RtcPhase)
  BY <1>1
<1>4. TickWrap % SlowEvery <= RtcPhase
  BY DEF WrapBeforePhase
<1> HIDE DEF r, w
<1>5. ASSUME r + 1 < SlowEvery PROVE w + 1 >= SlowEvery - RtcPhase
  BY <1>1, <1>2, <1>3, <1>4, <1>5
<1>6. ASSUME r + 1 = SlowEvery PROVE w + 1 >= SlowEvery - RtcPhase
  BY <1>1, <1>2, <1>6
<1>7. w + 1 >= SlowEvery - RtcPhase
  BY <1>1, <1>2, <1>5, <1>6
<1>8. QED BY <1>7 DEF w

(* The two slow polls keep their distance in both directions, the start    *)
(* and the wrap included.                                                  *)
THEOREM SlowPollsAreStaggered ==
  ASSUME WrapBeforePhase
  PROVE  CadenceSpec => Staggered
<1> DEFINE Apart == /\ RtcDue(tick') => since'["pmu"] >= RtcPhase
                    /\ PmuDue(tick') => since'["rtc"] >= SlowEvery - RtcPhase
<1>1. CadenceInv /\ CadenceInv' /\ [Tick]_cadenceVars => [Apart]_cadenceVars
  <2> SUFFICES ASSUME CadenceInv, CadenceInv', Tick PROVE Apart
    BY DEF cadenceVars
  <2> DEFINE r == tick % SlowEvery
             r2 == tick' % SlowEvery
             w == since["rtc"]
             w2 == since'["rtc"]
  <2>1. /\ tick \in Nat /\ TickWrap \in Nat /\ tick < TickWrap /\ SlowEvery < TickWrap
        /\ SlowEvery \in Nat \ {0} /\ RtcPhase \in 1 .. SlowEvery - 1
        /\ w \in Nat
        /\ r >= RtcPhase => w = r - RtcPhase
        /\ r < RtcPhase =>
             \/ tick < RtcPhase /\ w <= SlowEvery + tick
             \/ w = r + SlowEvery - RtcPhase
    BY CadenceAssumption DEF CadenceInv, WaitsByTick
  <2>2. since'["pmu"] = r2
    BY DEF CadenceInv, WaitsByTick
  <2>3. RtcDue(tick') => since'["pmu"] >= RtcPhase
    BY <2>1, <2>2 DEF RtcDue
  <2>4. /\ RtcDue(tick') => w2 = 0
        /\ ~RtcDue(tick') => w2 = w + 1
    BY WaitsStep
  <2>5. ASSUME PmuDue(tick') PROVE w2 >= SlowEvery - RtcPhase
    <3>1. r2 = 0 /\ w2 = w + 1
      BY <2>1, <2>4, <2>5 DEF PmuDue, RtcDue
    <3>2. CASE tick + 1 = TickWrap
      BY <2>1, <3>1, <3>2, WaitAtWrap
    <3>3. CASE tick + 1 < TickWrap
      <4>1. tick' = tick + 1
        BY <2>1, <3>3 DEF Tick, NextTick
      <4>2. /\ r \in 0 .. SlowEvery - 1
            /\ r + 1 < SlowEvery => r2 = r + 1
        <5>1. /\ tick % SlowEvery \in 0 .. SlowEvery - 1
              /\ (tick % SlowEvery) + 1 < SlowEvery => (tick + 1) % SlowEvery = (tick % SlowEvery) + 1
          BY <2>1, ModStep, Zenon
        <5>2. QED BY <4>1, <5>1, Zenon
      <4> HIDE DEF r, r2, w, w2
      <4>3. r + 1 = SlowEvery
        BY <2>1, <3>1, <4>2
      <4>4. QED BY <2>1, <3>1, <4>2, <4>3
    <3>4. QED BY <2>1, <3>2, <3>3
  <2>6. QED BY <2>3, <2>5
<1>2. QED BY <1>1, CadenceStarts, CadenceGoesOn, PTL DEF CadenceSpec, Staggered

---------------------------------------------------------------------------
(* Scaling *)

ScaleInv ==
  /\ raw \in Low .. High
  /\ mg = accel_mg(raw)
  /\ mdps = gyro_mdps(raw)
  /\ dx = bubble_dx(mg) /\ dy = bubble_dy(mg)

LEMMA LowBelowHigh == Low \in Int /\ High \in Int /\ Low <= High
BY ScaleAssumption

LEMMA ScaleHolds == ScaleInit => ScaleInv
BY LowBelowHigh DEF ScaleInit, ScaleInv

LEMMA ScaleGoesOn == ScaleInv /\ [Sweep]_scaleVars => ScaleInv'
<1>1. ASSUME ScaleInv, Sweep PROVE ScaleInv'
  <2>1. raw' \in Low .. High
    <3>1. raw \in Low .. High /\ raw < High /\ raw' = raw + 1
      BY <1>1, Zenon DEF ScaleInv, Sweep
    <3>2. QED BY <3>1, LowBelowHigh
  <2>2. mg' = accel_mg(raw') /\ mdps' = gyro_mdps(raw') /\ dx' = bubble_dx(mg') /\ dy' = bubble_dy(mg')
    BY <1>1 DEF Sweep
  <2>3. QED BY <2>1, <2>2 DEF ScaleInv
<1>2. ASSUME ScaleInv, UNCHANGED scaleVars PROVE ScaleInv'
  BY <1>2 DEF ScaleInv, scaleVars
<1>3. QED BY <1>1, <1>2

(* Division towards zero keeps the order, for the scale of the driver and  *)
(* for that of the bubble.                                                 *)
LEMMA AccelMonotone ==
  ASSUME NEW r \in Int
  PROVE  accel_mg(r) \in Int /\ accel_mg(r) <= accel_mg(r + 1)
BY DEF accel_mg, Quot

LEMMA DeflectedMonotone ==
  ASSUME NEW a \in Int, NEW b \in Int, a <= b
  PROVE  Deflected(a) <= Deflected(b)
<1> DEFINE p == Quot(a * 54, 1000)
           q == Quot(b * 54, 1000)
<1>1. p \in Int /\ q \in Int /\ p <= q
  BY DEF Quot
<1> HIDE DEF p, q
<1>2. /\ Deflected(a) = IF p > 54 THEN 54 ELSE IF p < -54 THEN -54 ELSE p
      /\ Deflected(b) = IF q > 54 THEN 54 ELSE IF q < -54 THEN -54 ELSE q
  BY DEF Deflected, Travel, p, q
<1>3. QED BY <1>1, <1>2

LEMMA DeflectedEnds ==
  ASSUME NEW a \in Int
  PROVE  /\ Deflected(a) \in -54 .. 54
         /\ Deflected(a) = 54 <=> a >= 1000
         /\ Deflected(a) = -54 <=> a <= -1000
BY DEF Deflected, Travel, Quot

(* The same of the two axes. *)
LEMMA BubbleMoves ==
  ASSUME NEW a \in Int, NEW b \in Int, a <= b
  PROVE  bubble_dx(b) <= bubble_dx(a) /\ bubble_dy(a) <= bubble_dy(b)
<1>1. -a \in Int /\ -b \in Int /\ -b <= -a
  OBVIOUS
<1>2. QED BY <1>1, DeflectedMonotone, Zenon DEF bubble_dx, bubble_dy

LEMMA BubbleEnds ==
  ASSUME NEW a \in Int
  PROVE  /\ bubble_dx(a) \in -54 .. 54
         /\ (bubble_dx(a) = -54 <=> a >= 1000) /\ (bubble_dx(a) = 54 <=> a <= -1000)
         /\ bubble_dy(a) \in -54 .. 54
         /\ (bubble_dy(a) = 54 <=> a >= 1000) /\ (bubble_dy(a) = -54 <=> a <= -1000)
<1> DEFINE b == -a
<1>1. b \in Int /\ (b >= 1000 <=> a <= -1000) /\ (b <= -1000 <=> a >= 1000)
  OBVIOUS
<1> HIDE DEF b
<1>2. /\ Deflected(b) \in -54 .. 54
      /\ Deflected(b) = 54 <=> a <= -1000
      /\ Deflected(b) = -54 <=> a >= 1000
  BY <1>1, DeflectedEnds
<1>3. bubble_dx(a) = Deflected(b) /\ bubble_dy(a) = Deflected(a)
  BY DEF bubble_dx, bubble_dy, b
<1>4. QED BY <1>2, <1>3, DeflectedEnds

(* On both axes the bubble is fully deflected exactly from 1 g on, to the  *)
(* side that belongs to the sign, and never beyond.                        *)
THEOREM FullDeflectionIsOneG == ScaleSpec => []DeflectionIsHonest
<1>1. ScaleInv => DeflectionIsHonest
  <2> SUFFICES ASSUME ScaleInv PROVE DeflectionIsHonest
    OBVIOUS
  <2>1. mg \in Int /\ dx = bubble_dx(mg) /\ dy = bubble_dy(mg)
    BY AccelMonotone DEF ScaleInv
  <2>2. QED BY <2>1, BubbleEnds DEF DeflectionIsHonest, Travel
<1>2. QED BY <1>1, ScaleHolds, ScaleGoesOn, PTL DEF ScaleSpec

(* Rates whose product stays inside an i32 are converted exactly.          *)
THEOREM SlowTurnsAreKept == ScaleSpec => []SlowTurnsAreExact
<1>1. ScaleInv => SlowTurnsAreExact
  <2> SUFFICES ASSUME ScaleInv, raw \in -4194 .. 4194 PROVE mdps = Quot(raw * 125, 8)
    BY DEF SlowTurnsAreExact
  <2>1. Wrap20(raw * 125) = raw * 125
    BY DEF Wrap20
  <2>2. QED BY <2>1 DEF ScaleInv, gyro_mdps
<1>2. QED BY <1>1, ScaleHolds, ScaleGoesOn, PTL DEF ScaleSpec

(* A larger count never reads as a smaller acceleration nor moves the      *)
(* bubble the wrong way, which is another on either axis.                  *)
THEOREM TiltKeepsOrder == ScaleSpec => TiltIsMonotone
<1>1. ScaleInv /\ ScaleInv' /\ [Sweep]_scaleVars
        => [mg' >= mg /\ dx' <= dx /\ dy' >= dy]_scaleVars
  <2> SUFFICES ASSUME ScaleInv, ScaleInv', Sweep PROVE mg' >= mg /\ dx' <= dx /\ dy' >= dy
    BY DEF scaleVars
  <2>1. raw \in Low .. High /\ raw' = raw + 1
    BY Zenon DEF ScaleInv, Sweep
  <2>2. /\ mg = accel_mg(raw) /\ mg' = accel_mg(raw')
        /\ dx = bubble_dx(mg) /\ dx' = bubble_dx(mg')
        /\ dy = bubble_dy(mg) /\ dy' = bubble_dy(mg')
    BY Zenon DEF ScaleInv, Sweep
  <2>3. raw \in Int
    BY <2>1, LowBelowHigh
  <2>4. raw + 1 \in Int
    BY <2>3
  <2>5. mg \in Int /\ mg' \in Int /\ mg <= mg'
    BY <2>1, <2>2, <2>3, <2>4, AccelMonotone, Zenon
  <2>6. dx' <= dx /\ dy <= dy'
    BY <2>2, <2>5, BubbleMoves, Zenon
  <2>7. /\ dx \in -54 .. 54 /\ dx' \in -54 .. 54
        /\ dy \in -54 .. 54 /\ dy' \in -54 .. 54
    BY <2>2, <2>5, BubbleEnds, Zenon
  <2>8. QED BY <2>5, <2>6, <2>7
<1>2. QED BY <1>1, ScaleHolds, ScaleGoesOn, PTL DEF ScaleSpec, TiltIsMonotone

---------------------------------------------------------------------------
(* The calendar.  Days are counted by the year that begins in March, as    *)
(* the conversion does it; a date and the date after it are shown to be    *)
(* the conversion of a day and of the day after.  (Bounds are written      *)
(* n \in Nat, n <= b: the provers enumerate an interval of numerals.)       *)

(* A date by its year counted from March, beginning with March 1999, and   *)
(* the day of that year.                                                   *)
IsDay(d, y, n) ==
  /\ y \in Nat /\ y <= 100 /\ n \in Nat /\ n <= 365
  /\ n = 365 => y % 4 = 0
  /\ d + 306 = 365 * y + (y + 3) \div 4 + n

MarchDate(y, n) ==
  LET mp == (5 * n + 2) \div 153
  IN [year  |-> 1999 + y + (IF mp < 10 THEN 0 ELSE 1),
      month |-> IF mp < 10 THEN mp + 3 ELSE mp - 9,
      day   |-> n - (153 * mp + 2) \div 5 + 1]

(* The sixty days before March 2000 close the era before. *)
LEMMA FirstWinter ==
  ASSUME NEW d \in Nat, d <= 59
  PROVE  IsDay(d, 0, d + 306) /\ date_from_day(d) = MarchDate(0, d + 306)
<1> DEFINE z == d + 730425
           era == z \div 146097
           doe == z - era * 146097
           yoe == (doe - doe \div 1460 + doe \div 36524 - doe \div 146096) \div 365
           doy == doe - (365 * yoe + yoe \div 4 - yoe \div 100)
<1>1. era = 4 /\ doe = d + 146037
  OBVIOUS
<1>2. doe \div 1460 = 100 /\ (doe \div 36524) - (doe \div 146096) = 3
  BY <1>1
<1>3. yoe = 399
  BY <1>1, <1>2
<1>4. doy = d + 306
  BY <1>1, <1>3
<1>5. date_from_day(d) = MarchDate(0, d + 306)
  BY <1>1, <1>3, <1>4 DEF date_from_day, MarchDate
<1>6. QED BY <1>5 DEF IsDay

(* The year of a day counted from March 2000, in a run of plain leap years. *)
LEMMA YearOf ==
  ASSUME NEW e \in Nat, e <= 36464
  PROVE  LET y == (e - e \div 1460) \div 365
             n == e - (365 * y + y \div 4)
         IN y \in Nat /\ y <= 99 /\ n \in Nat /\ n <= 365 /\ (n = 365 => y % 4 = 3)
<1> DEFINE a == e \div 1460
           b == e % 1460
           y == (e - a) \div 365
           c == (e - a) % 365
           q == y \div 4
           r == y % 4
<1>1. a \in 0 .. 24 /\ b \in Nat /\ b <= 1459 /\ e = 1460 * a + b
  <2>1. \A k \in Nat : /\ k % 1460 \in Nat /\ k % 1460 <= 1459 /\ k \div 1460 \in Nat
                        /\ k = 1460 * (k \div 1460) + (k % 1460)
    OBVIOUS
  <2>2. b \in Nat /\ b <= 1459 /\ a \in Nat /\ e = 1460 * a + b
    <3>1. e \in Nat
      OBVIOUS
    <3> HIDE DEF y, c, q, r
    <3>2. QED BY <2>1, <3>1
  <2>3. QED BY <2>2
<1>2. y \in Nat /\ c \in Nat /\ c <= 364 /\ e - a = 365 * y + c
  BY <1>1
<1>3. q \in Nat /\ r \in 0 .. 3 /\ y = 4 * q + r
  BY <1>2
<1> HIDE DEF a, b, y, c, q, r
<1>4. 1460 * a + b - a = 1460 * q + 365 * r + c
  BY <1>1, <1>2, <1>3
<1>5. q = a \/ q = a - 1
  <2>1. a \in Int /\ b \in Int /\ q \in Int /\ r \in Int /\ c \in Int
    BY <1>1, <1>2, <1>3
  <2>2. 0 <= 365 * r + c /\ 365 * r + c <= 1459 /\ -24 <= b - a /\ b - a <= 1459
    BY <1>1, <1>2, <1>3
  <2> DEFINE u == 365 * r + c
             v == b - a
  <2>3. u \in Int /\ v \in Int /\ 1460 * a + v = 1460 * q + u
    BY <1>4, <2>1
  <2> HIDE DEF u, v
  <2>4. 0 <= u /\ u <= 1459 /\ -24 <= v /\ v <= 1459
    BY <2>2 DEF u, v
  <2>5. QED BY <2>1, <2>3, <2>4
<1>6. y \in Nat /\ y <= 99
  BY <1>1, <1>2, <1>3
<1>7. e - (365 * y + q) = a + c - q
  <2>1. e \in Int /\ a \in Int /\ y \in Int /\ c \in Int /\ q \in Int
    BY <1>1, <1>2, <1>3
  <2>2. QED BY <1>2, <2>1
<1>8. a + c - q \in Nat /\ a + c - q <= 365 /\ (a + c - q = 365 => r = 3)
  BY <1>1, <1>2, <1>3, <1>4, <1>5
<1>9. QED BY <1>6, <1>7, <1>8 DEF y, a, q, r

(* The conversion numbers every day of the century by its year and its day. *)
LEMMA DateOf ==
  ASSUME NEW d \in Nat, d <= 36524
  PROVE  \E y, n : IsDay(d, y, n) /\ date_from_day(d) = MarchDate(y, n)
<1>1. CASE d <= 59
  <2>1. QED BY <1>1, FirstWinter
<1>2. CASE 60 <= d
  <2> DEFINE z == d + 730425
             era == z \div 146097
             doe == z - era * 146097
             yoe == (doe - doe \div 1460 + doe \div 36524 - doe \div 146096) \div 365
             doy == doe - (365 * yoe + yoe \div 4 - yoe \div 100)
  <2>1. era = 5 /\ doe = d - 60 /\ doe \in Nat /\ doe <= 36464
    BY <1>2
  <2>2. doe \div 36524 = 0 /\ doe \div 146096 = 0
    BY <2>1
  <2>3. yoe = (doe - doe \div 1460) \div 365
    BY <2>1, <2>2
  <2> DEFINE e == d - 60
             y == (e - e \div 1460) \div 365
             n == e - (365 * y + y \div 4)
  <2>4. y \in Nat /\ y <= 99 /\ n \in Nat /\ n <= 365 /\ (n = 365 => y % 4 = 3)
    <3>1. e \in Nat /\ e <= 36464
      BY <1>2
    <3>2. QED BY <3>1, YearOf
  <2>5. yoe = y
    BY <2>1, <2>3
  <2> HIDE DEF y
  <2>6. y \div 100 = 0
    BY <2>4
  <2>7. doy = n
    BY <2>1, <2>4, <2>5, <2>6
  <2>8. IsDay(d, y + 1, n)
    <3> HIDE DEF n
    <3>1. (y + 4) \div 4 = y \div 4 + 1 /\ (y % 4 = 3 => (y + 1) % 4 = 0)
      BY <2>4
    <3>2. d + 306 = 365 * (y + 1) + (y + 1 + 3) \div 4 + n
      BY <2>4, <3>1 DEF n
    <3>3. QED BY <2>4, <3>1, <3>2 DEF IsDay
  <2>9. date_from_day(d) = MarchDate(y + 1, n)
    <3>1. date_from_day(d) =
            LET mp == (5 * doy + 2) \div 153
                early == mp < 10
            IN [year  |-> era * 400 + yoe + (IF early THEN 0 ELSE 1),
                month |-> IF early THEN mp + 3 ELSE mp - 9,
                day   |-> doy - (153 * mp + 2) \div 5 + 1]
      BY DEF date_from_day
    <3>2. era * 400 + yoe = 1999 + (y + 1)
      BY <2>1, <2>4, <2>5
    <3> HIDE DEF era, doy, yoe, n
    <3>3. QED BY <3>1, <3>2, <2>7 DEF MarchDate
  <2>10. QED BY <2>8, <2>9
<1>3. QED BY <1>1, <1>2

(* The day after: the next of its year, or the first of the year after. *)
LEMMA DayAfter ==
  ASSUME NEW d \in Nat, NEW y \in Nat, y <= 100, NEW n \in Nat, n <= 365,
         NEW y2 \in Nat, y2 <= 100, NEW n2 \in Nat, n2 <= 365,
         IsDay(d, y, n), IsDay(d + 1, y2, n2)
  PROVE  \/ y2 = y /\ n2 = n + 1 /\ (n = 364 => y % 4 = 0)
         \/ /\ y2 = y + 1 /\ n2 = 0
            /\ n \in {364, 365} /\ (n = 365 <=> y % 4 = 0)
<1> DEFINE p == (y + 3) \div 4
           p2 == (y2 + 3) \div 4
<1>1. 365 * y2 + p2 + n2 = 365 * y + p + n + 1
  BY DEF IsDay
<1>2. p \in 0 .. 25 /\ p2 \in 0 .. 25
  OBVIOUS
<1>3. CASE y2 = y
  BY <1>1, <1>2, <1>3 DEF IsDay
<1>4. CASE y2 > y
  <2>1. p2 >= p
    BY <1>4
  <2>2. y2 = y + 1
    BY <1>1, <1>2, <1>4, <2>1
  <2>3. /\ y % 4 = 0 => p2 = p + 1
        /\ y % 4 # 0 => p2 = p
    BY <2>2
  <2>4. QED BY <1>1, <1>2, <2>2, <2>3 DEF IsDay
<1>5. CASE y2 < y
  <2>1. p2 <= p
    BY <1>5
  <2>2. y = y2 + 1
    BY <1>1, <1>2, <1>5, <2>1
  <2>3. /\ y2 % 4 = 0 => p = p2 + 1
        /\ y2 % 4 # 0 => p = p2
    BY <2>2
  <2>4. QED BY <1>1, <1>2, <2>2, <2>3 DEF IsDay
<1>6. QED BY <1>3, <1>4, <1>5

(* The day of the year, from March, on which a month begins. *)
First(mp) == (153 * mp + 2) \div 5

LEMMA Firsts ==
  /\ First(0) = 0 /\ First(1) = 31 /\ First(2) = 61 /\ First(3) = 92
  /\ First(4) = 122 /\ First(5) = 153 /\ First(6) = 184 /\ First(7) = 214
  /\ First(8) = 245 /\ First(9) = 275 /\ First(10) = 306 /\ First(11) = 337
BY DEF First

(* The month of a day of the year is the last that has begun. *)
LEMMA MonthOf ==
  ASSUME NEW n \in Nat, n <= 365
  PROVE  LET mp == (5 * n + 2) \div 153
         IN /\ mp \in 0 .. 11 /\ First(mp) <= n
            /\ mp < 11 => n < First(mp + 1)
<1> DEFINE mp == (5 * n + 2) \div 153
<1>1. mp \in 0 .. 11 /\ 153 * mp <= 5 * n + 2 /\ 5 * n + 2 < 153 * mp + 153
  OBVIOUS
<1> HIDE DEF mp
<1>2. /\ First(mp) \in Int
      /\ 5 * First(mp) <= 153 * mp + 2
      /\ 153 * mp + 2 < 5 * First(mp) + 5
  BY <1>1 DEF First
<1>3. /\ First(mp + 1) \in Int
      /\ 5 * First(mp + 1) <= 153 * mp + 155
      /\ 153 * mp + 155 < 5 * First(mp + 1) + 5
  BY <1>1 DEF First
<1>4. First(mp) <= n /\ (mp < 11 => n < First(mp + 1))
  BY <1>1, <1>2, <1>3, Firsts
<1>5. QED BY <1>1, <1>4 DEF mp

(* The Gregorian rules of a century without exceptions. *)
LastOf(date) ==
  IF date.month = 2 THEN IF date.year % 4 = 0 THEN 29 ELSE 28
  ELSE IF date.month \in {4, 6, 9, 11} THEN 30 ELSE 31

Tomorrow(date) ==
  IF date.day # LastOf(date)
  THEN [year |-> date.year, month |-> date.month, day |-> date.day + 1]
  ELSE IF date.month # 12
  THEN [year |-> date.year, month |-> date.month + 1, day |-> 1]
  ELSE [year |-> date.year + 1, month |-> 1, day |-> 1]

Dates == [year : {y \in Nat : 2000 <= y /\ y <= 2099}, month : 1 .. 12, day : 1 .. 31]

(* A month is as long as the distance of its first day to the next. *)
LEMMA MonthLength ==
  ASSUME NEW y \in Nat, y <= 100, NEW n \in Nat, n <= 365,
         NEW mp \in 0 .. 10, mp = (5 * n + 2) \div 153
  PROVE  LastOf(MarchDate(y, n)) = First(mp + 1) - First(mp)
<1>1. MarchDate(y, n).month = (IF mp < 10 THEN mp + 3 ELSE mp - 9)
  BY DEF MarchDate
<1> DEFINE month == MarchDate(y, n).month
<1>2. /\ month = 3 <=> mp = 0 
      /\ month = 4 <=> mp = 1
      /\ month = 6 <=> mp = 3
      /\ month = 9 <=> mp = 6
      /\ month = 11 <=> mp = 8
      /\ month # 2
  BY <1>1
<1> HIDE DEF month
<1>3. LastOf(MarchDate(y, n)) = IF mp \in {1, 3, 6, 8} THEN 30 ELSE 31
  BY <1>2 DEF LastOf, month
<1>4. QED BY <1>3, Firsts

(* One day on, within a year counted from March. *)
LEMMA WithinYear ==
  ASSUME NEW y \in Nat, y <= 100, NEW n \in Nat, n <= 364, n = 364 => y % 4 = 0
  PROVE  MarchDate(y, n + 1) = Tomorrow(MarchDate(y, n))
<1> DEFINE mp == (5 * n + 2) \div 153
           np == (5 * (n + 1) + 2) \div 153
<1>1. /\ mp \in 0 .. 11 /\ First(mp) <= n
      /\ mp < 11 => n < First(mp + 1)
  BY MonthOf
<1>2. /\ np \in 0 .. 11 /\ First(np) <= n + 1
      /\ np < 11 => n + 1 < First(np + 1)
  <2>1. n + 1 \in Nat /\ n + 1 <= 365
    OBVIOUS
  <2>2. QED BY <2>1, MonthOf
<1>3. np \in {mp, mp + 1}
  OBVIOUS
<1>4. MarchDate(y, n) = [year  |-> 1999 + y + (IF mp < 10 THEN 0 ELSE 1),
                         month |-> IF mp < 10 THEN mp + 3 ELSE mp - 9,
                         day   |-> n - First(mp) + 1]
  BY DEF MarchDate, First
<1>5. MarchDate(y, n + 1) = [year  |-> 1999 + y + (IF np < 10 THEN 0 ELSE 1),
                             month |-> IF np < 10 THEN np + 3 ELSE np - 9,
                             day   |-> n + 1 - First(np) + 1]
  BY DEF MarchDate, First
<1>6. mp < 11 => LastOf(MarchDate(y, n)) = First(mp + 1) - First(mp)
  BY <1>1, MonthLength
<1>7. mp = 11 => LastOf(MarchDate(y, n)) = IF y % 4 = 0 THEN 29 ELSE 28
  <2>1. (2000 + y) % 4 = y % 4
    OBVIOUS
  <2>2. QED BY <1>4, <2>1 DEF LastOf
<1> HIDE DEF mp, np
<1>8. First(mp) \in Int /\ First(np) \in Int /\ First(mp + 1) \in Int
  BY <1>1, <1>2 DEF First
<1>9. CASE np = mp
  <2>1. MarchDate(y, n).day # LastOf(MarchDate(y, n))
    <3>1. CASE mp < 11
      BY <1>2, <1>4, <1>6, <1>8, <1>9, <3>1
    <3>2. CASE mp = 11
      BY <1>4, <1>7, <3>2, Firsts
    <3>3. QED BY <1>1, <3>1, <3>2
  <2>2. QED BY <1>4, <1>5, <1>8, <1>9, <2>1 DEF Tomorrow
<1>10. CASE np = mp + 1
  <2>1. mp < 11 /\ First(np) = n + 1
    BY <1>1, <1>2, <1>8, <1>10
  <2>2. MarchDate(y, n).day = LastOf(MarchDate(y, n))
    BY <1>4, <1>6, <1>8, <1>10, <2>1
  <2>3. QED BY <1>1, <1>4, <1>5, <1>8, <1>10, <2>1, <2>2 DEF Tomorrow
<1>11. QED BY <1>3, <1>9, <1>10

(* One day on, from the end of February. *)
LEMMA LastOfYear ==
  ASSUME NEW y \in Nat, y <= 99, NEW n \in {364, 365}, n = 365 <=> y % 4 = 0
  PROVE  MarchDate(y + 1, 0) = Tomorrow(MarchDate(y, n))
<1>1. MarchDate(y + 1, 0) = [year |-> 2000 + y, month |-> 3, day |-> 1]
  BY DEF MarchDate
<1>2. MarchDate(y, n) = [year |-> 2000 + y, month |-> 2, day |-> n - 336]
  BY DEF MarchDate
<1>3. (2000 + y) % 4 = y % 4
  OBVIOUS
<1>4. QED BY <1>1, <1>2, <1>3 DEF Tomorrow, LastOf

(* The dates of the century's days are dates the device can hold. *)
LEMMA DateInCentury ==
  ASSUME NEW d \in Nat, d <= 36524,
         NEW y \in Nat, y <= 100, NEW n \in Nat, n <= 365, IsDay(d, y, n)
  PROVE  MarchDate(y, n) \in Dates
<1> DEFINE p == (y + 3) \div 4
           mp == (5 * n + 2) \div 153
<1>a. d + 306 = 365 * y + p + n
  BY DEF IsDay
<1>b. p \in Int /\ (y = 0 => p = 0) /\ (y = 100 => p = 25)
  OBVIOUS
<1>1. /\ mp \in 0 .. 11 /\ First(mp) <= n
      /\ mp < 11 => n < First(mp + 1)
  BY MonthOf
<1>c. (n >= 306 => mp >= 10) /\ (n <= 305 => mp < 10)
  OBVIOUS
<1> HIDE DEF p, mp
<1>2. y = 0 => mp >= 10
  <2>1. ASSUME y = 0 PROVE n >= 306
    <3>1. p = 0 /\ 365 * y = 0
      BY <1>b, <2>1
    <3>2. n = d + 306
      BY <1>a, <3>1
    <3>3. d >= 0 /\ d \in Int
      OBVIOUS
    <3>4. QED BY <3>2, <3>3
  <2>2. QED BY <1>c, <2>1
<1>3. y = 100 => mp < 10
  <2>1. ASSUME y = 100 PROVE n <= 305
    <3>1. p = 25 /\ 365 * y = 36500
      BY <1>b, <2>1
    <3>2. d + 306 = 36500 + 25 + n
      BY <1>a, <3>1
    <3>3. d <= 36524 /\ d \in Int
      OBVIOUS
    <3>4. QED BY <3>2, <3>3
  <2>2. QED BY <1>c, <2>1
<1>4. MarchDate(y, n) = [year  |-> 1999 + y + (IF mp < 10 THEN 0 ELSE 1),
                         month |-> IF mp < 10 THEN mp + 3 ELSE mp - 9,
                         day   |-> n - First(mp) + 1]
  BY DEF MarchDate, First, mp
<1>5. n - First(mp) + 1 \in 1 .. 31
  <2>1. First(mp) \in Int
    BY <1>1 DEF First
  <2>2. mp < 11 => First(mp + 1) - First(mp) <= 31
    BY <1>1, Firsts
  <2>3. mp = 11 => n - First(mp) <= 28
    BY Firsts
  <2>4. First(mp + 1) \in Int
    BY <1>1 DEF First
  <2>5. QED BY <1>1, <2>1, <2>2, <2>3, <2>4
<1>6. QED BY <1>1, <1>2, <1>3, <1>4, <1>5 DEF Dates

(* BCD: a two-digit number, the same for the device's registers. *)
LEMMA BcdInverse ==
  ASSUME NEW n \in Nat, n <= 99
  PROVE  /\ bin_to_bcd(n) \in Nat /\ bin_to_bcd(n) <= 153
         /\ bcd_to_bin(bin_to_bcd(n)) = n
         /\ n <= 79 => bin_to_bcd(n) % 128 = bin_to_bcd(n)
         /\ n <= 39 => bin_to_bcd(n) % 64 = bin_to_bcd(n)
         /\ n <= 19 => bin_to_bcd(n) % 32 = bin_to_bcd(n)
<1> DEFINE t == n \div 10
           u == n % 10
           b == t * 16 + u
<1>1. t \in 0 .. 9 /\ u \in 0 .. 9 /\ n = 10 * t + u
  OBVIOUS
<1>2. bin_to_bcd(n) = b
  BY DEF bin_to_bcd
<1> HIDE DEF t, u
<1>3. b \div 16 = t /\ b % 16 = u
  BY <1>1
<1>4. bcd_to_bin(b) = n
  BY <1>1, <1>3 DEF bcd_to_bin
<1>5. b \in Nat /\ b <= 153
  BY <1>1
<1>6. /\ n <= 79 => b <= 121
      /\ n <= 39 => b <= 57
      /\ n <= 19 => b <= 25
  BY <1>1
<1> HIDE DEF b
<1>7. QED BY <1>2, <1>4, <1>5, <1>6

(* Counting on in BCD. *)
LEMMA BcdCounts ==
  ASSUME NEW n \in Nat, n <= 98
  PROVE  BcdNext(bin_to_bcd(n)) = bin_to_bcd(n + 1)
<1> DEFINE t == n \div 10
           u == n % 10
           b == t * 16 + u
<1>1. t \in 0 .. 9 /\ u \in 0 .. 9 /\ n = 10 * t + u
  OBVIOUS
<1>2. bin_to_bcd(n) = b /\ b % 16 = u
  BY <1>1 DEF bin_to_bcd
<1>3. CASE u = 9
  <2>1. (n + 1) \div 10 = t + 1 /\ (n + 1) % 10 = 0
    BY <1>3
  <2>2. QED BY <1>1, <1>2, <1>3, <2>1 DEF bin_to_bcd, BcdNext
<1>4. CASE u # 9
  <2>1. (n + 1) \div 10 = t /\ (n + 1) % 10 = u + 1
    BY <1>4
  <2>2. QED BY <1>1, <1>2, <1>4, <2>1 DEF bin_to_bcd, BcdNext
<1>5. QED BY <1>3, <1>4

(* BCD codes of different numbers differ. *)
LEMMA BcdDistinct ==
  ASSUME NEW m \in Nat, m <= 99, NEW n \in Nat, n <= 99, bin_to_bcd(m) = bin_to_bcd(n)
  PROVE  m = n
BY BcdInverse

(* The codes the device compares with. *)
LEMMA BcdOf ==
  /\ bin_to_bcd(0) = 0 /\ bin_to_bcd(1) = 1 /\ bin_to_bcd(2) = 2
  /\ bin_to_bcd(4) = 4 /\ bin_to_bcd(6) = 6 /\ bin_to_bcd(9) = 9
  /\ bin_to_bcd(11) = 17 /\ bin_to_bcd(12) = 18 /\ bin_to_bcd(23) = 35
  /\ bin_to_bcd(28) = 40 /\ bin_to_bcd(29) = 41 /\ bin_to_bcd(30) = 48
  /\ bin_to_bcd(31) = 49 /\ bin_to_bcd(59) = 89 /\ bin_to_bcd(99) = 153
BY DEF bin_to_bcd

(* The device's six registers. *)
Regs(s, m, h, d, mo, y) ==
  [second |-> s, minute |-> m, hour |-> h, day |-> d, month |-> mo, year |-> y]

(* The carries, one register at a time. *)
LEMMA Carries ==
  ASSUME NEW s, NEW m, NEW h, NEW d, NEW mo, NEW y
  PROVE  /\ DeviceSecond(Regs(s, m, h, d, mo, y))
              = IF s = 89 THEN CarryMinute(Regs(0, m, h, d, mo, y))
                ELSE Regs(BcdNext(s), m, h, d, mo, y)
         /\ CarryMinute(Regs(s, m, h, d, mo, y))
              = IF m = 89 THEN CarryHour(Regs(s, 0, h, d, mo, y))
                ELSE Regs(s, BcdNext(m), h, d, mo, y)
         /\ CarryHour(Regs(s, m, h, d, mo, y))
              = IF h = 35 THEN CarryDay(Regs(s, m, 0, d, mo, y))
                ELSE Regs(s, m, BcdNext(h), d, mo, y)
         /\ CarryDay(Regs(s, m, h, d, mo, y))
              = IF d = MonthLast(Regs(s, m, h, d, mo, y))
                THEN CarryMonth(Regs(s, m, h, 1, mo, y))
                ELSE Regs(s, m, h, BcdNext(d), mo, y)
         /\ CarryMonth(Regs(s, m, h, d, mo, y))
              = IF mo = 18 THEN CarryYear(Regs(s, m, h, d, 1, y))
                ELSE Regs(s, m, h, d, BcdNext(mo), y)
         /\ CarryYear(Regs(s, m, h, d, mo, y))
              = Regs(s, m, h, d, mo, IF y = 153 THEN 0 ELSE BcdNext(y))
         /\ MonthLast(Regs(s, m, h, d, mo, y))
              = IF mo = 2
                THEN IF bcd_to_bin(y) % 4 = 0 THEN 41 ELSE 40
                ELSE IF mo \in {4, 6, 9, 17} THEN 48 ELSE 49
<1> DEFINE r == Regs(s, m, h, d, mo, y)
<1>1. r.second = s /\ r.minute = m /\ r.hour = h /\ r.day = d /\ r.month = mo /\ r.year = y
  BY DEF Regs
<1>2. \A v : /\ [r EXCEPT !.second = v] = Regs(v, m, h, d, mo, y)
             /\ [r EXCEPT !.minute = v] = Regs(s, v, h, d, mo, y)
             /\ [r EXCEPT !.hour = v] = Regs(s, m, v, d, mo, y)
             /\ [r EXCEPT !.day = v] = Regs(s, m, h, v, mo, y)
             /\ [r EXCEPT !.month = v] = Regs(s, m, h, d, v, y)
             /\ [r EXCEPT !.year = v] = Regs(s, m, h, d, mo, v)
  BY DEF Regs
<1> HIDE DEF r
<1>3. DeviceSecond(r) = IF s = 89 THEN CarryMinute(Regs(0, m, h, d, mo, y))
                        ELSE Regs(BcdNext(s), m, h, d, mo, y)
  BY <1>1, <1>2, Zenon DEF DeviceSecond
<1>4. CarryMinute(r) = IF m = 89 THEN CarryHour(Regs(s, 0, h, d, mo, y))
                       ELSE Regs(s, BcdNext(m), h, d, mo, y)
  BY <1>1, <1>2, Zenon DEF CarryMinute
<1>5. CarryHour(r) = IF h = 35 THEN CarryDay(Regs(s, m, 0, d, mo, y))
                     ELSE Regs(s, m, BcdNext(h), d, mo, y)
  BY <1>1, <1>2, Zenon DEF CarryHour
<1>6. CarryDay(r) = IF d = MonthLast(r) THEN CarryMonth(Regs(s, m, h, 1, mo, y))
                    ELSE Regs(s, m, h, BcdNext(d), mo, y)
  BY <1>1, <1>2, Zenon DEF CarryDay
<1>7. CarryMonth(r) = IF mo = 18 THEN CarryYear(Regs(s, m, h, d, 1, y))
                      ELSE Regs(s, m, h, d, BcdNext(mo), y)
  BY <1>1, <1>2, Zenon DEF CarryMonth
<1>8. CarryYear(r) = Regs(s, m, h, d, mo, IF y = 153 THEN 0 ELSE BcdNext(y))
  BY <1>1, <1>2, Zenon DEF CarryYear
<1>9. MonthLast(r) = IF mo = 2
                     THEN IF bcd_to_bin(y) % 4 = 0 THEN 41 ELSE 40
                     ELSE IF mo \in {4, 6, 9, 17} THEN 48 ELSE 49
  BY <1>1, Zenon DEF MonthLast
<1>10. QED BY <1>3, <1>4, <1>5, <1>6, <1>7, <1>8, <1>9, Zenon DEF r

(* The hub's date and time, within the century the device counts. *)
Below(k) == {n \in Nat : n < k}

Times == [hour : Below(24), minute : Below(60), second : Below(60)]
Moments == [date : Dates, time : Times]

(* What is set is what is read. *)
LEMMA ReadSet ==
  ASSUME NEW dt \in Moments
  PROVE  read(set(dt)) = dt
<1> DEFINE y == dt.date.year % 100
           r == set(dt)
<1>1. /\ dt.date \in Dates /\ dt.time \in Times
      /\ dt = [date |-> dt.date, time |-> dt.time]
  BY DEF Moments
<1>2. /\ dt.date.year \in Nat /\ 2000 <= dt.date.year /\ dt.date.year <= 2099
      /\ dt.date.month \in 1 .. 12 /\ dt.date.day \in 1 .. 31
      /\ dt.date = [year |-> dt.date.year, month |-> dt.date.month, day |-> dt.date.day]
  BY <1>1 DEF Dates
<1>3. /\ dt.time.hour \in Nat /\ dt.time.hour <= 23
      /\ dt.time.minute \in Nat /\ dt.time.minute <= 59
      /\ dt.time.second \in Nat /\ dt.time.second <= 59
      /\ dt.time = [hour |-> dt.time.hour, minute |-> dt.time.minute, second |-> dt.time.second]
  BY <1>1 DEF Times, Below
<1>4. y \in Nat /\ y <= 99 /\ dt.date.year = 2000 + y
  BY <1>2
<1>5. 2000 + bcd_to_bin(r.year) = dt.date.year
  BY <1>4, BcdInverse DEF set
<1>6. bcd_to_bin(r.month % 32) = dt.date.month
  BY <1>2, BcdInverse DEF set
<1>7. bcd_to_bin(r.day % 64) = dt.date.day
  BY <1>2, BcdInverse DEF set
<1>8. bcd_to_bin(r.hour % 64) = dt.time.hour
  BY <1>3, BcdInverse DEF set
<1>9. bcd_to_bin(r.minute % 128) = dt.time.minute /\ bcd_to_bin(r.second % 128) = dt.time.second
  BY <1>3, BcdInverse DEF set
<1> HIDE DEF r, y
<1>10. read(r).date = dt.date
  BY <1>2, <1>5, <1>6, <1>7 DEF read
<1>11. read(r).time = dt.time
  BY <1>3, <1>8, <1>9 DEF read
<1>12. read(r) = [date |-> read(r).date, time |-> read(r).time]
  BY DEF read
<1>13. QED BY <1>1, <1>10, <1>11, <1>12 DEF r

(* Registers that hold a date and a time. *)
Holding(date, h, m, x) ==
  Regs(bin_to_bcd(x), bin_to_bcd(m), bin_to_bcd(h),
       bin_to_bcd(date.day), bin_to_bcd(date.month), bin_to_bcd(date.year % 100))

LEMMA SetHolds ==
  ASSUME NEW date, NEW time
  PROVE  set([date |-> date, time |-> time])
           = Holding(date, time.hour, time.minute, time.second)
BY DEF set, Holding, Regs

(* The device's carry out of the hours is the next day. *)
LEMMA DeviceTomorrow ==
  ASSUME NEW date \in Dates, Tomorrow(date) \in Dates, NEW h, NEW m, NEW x
  PROVE  CarryDay(Holding(date, h, m, x)) = Holding(Tomorrow(date), h, m, x)
<1> DEFINE y == date.year % 100
           B(n) == bin_to_bcd(n)
           last == LastOf(date)
<1>1. /\ date.year \in Nat /\ 2000 <= date.year /\ date.year <= 2099
      /\ date.month \in 1 .. 12 /\ date.day \in 1 .. 31
  BY DEF Dates
<1>2. y \in Nat /\ y <= 99 /\ date.year = 2000 + y /\ y % 4 = date.year % 4
  BY <1>1
<1>3. /\ B(date.month) = 2 <=> date.month = 2
      /\ B(date.month) = 18 <=> date.month = 12
      /\ B(date.month) \in {4, 6, 9, 17} <=> date.month \in {4, 6, 9, 11}
  BY <1>1, BcdOf, BcdDistinct
<1>4. bcd_to_bin(B(y)) = y
  BY <1>2, BcdInverse
<1>5. MonthLast(Holding(date, h, m, x))
        = IF B(date.month) = 2
          THEN IF bcd_to_bin(B(y)) % 4 = 0 THEN 41 ELSE 40
          ELSE IF B(date.month) \in {4, 6, 9, 17} THEN 48 ELSE 49
  BY Carries DEF Holding
<1>6. MonthLast(Holding(date, h, m, x)) = B(last)
  BY <1>2, <1>3, <1>4, <1>5, BcdOf DEF LastOf
<1>7. last \in 28 .. 31
  BY DEF LastOf
<1> HIDE DEF y, B, last
<1>8. B(date.day) = B(last) <=> date.day = last
  <2>1. date.day \in Nat /\ date.day <= 99 /\ last \in Nat /\ last <= 99
    BY <1>1, <1>7
  <2>2. QED BY <2>1, BcdDistinct DEF B
<1>9. CarryDay(Holding(date, h, m, x))
        = IF B(date.day) = B(last)
          THEN CarryMonth(Regs(B(x), B(m), B(h), 1, B(date.month), B(y)))
          ELSE Regs(B(x), B(m), B(h), BcdNext(B(date.day)), B(date.month), B(y))
  BY <1>6, Carries DEF Holding, B, y
<1>10. CarryMonth(Regs(B(x), B(m), B(h), 1, B(date.month), B(y)))
        = IF B(date.month) = 18
          THEN CarryYear(Regs(B(x), B(m), B(h), 1, 1, B(y)))
          ELSE Regs(B(x), B(m), B(h), 1, BcdNext(B(date.month)), B(y))
  BY Carries
<1>11. CarryYear(Regs(B(x), B(m), B(h), 1, 1, B(y)))
        = Regs(B(x), B(m), B(h), 1, 1, IF B(y) = 153 THEN 0 ELSE BcdNext(B(y)))
  BY Carries
<1>12. B(1) = 1
  BY BcdOf DEF B
<1>13. CASE date.day # last
  <2>1. Tomorrow(date) = [year |-> date.year, month |-> date.month, day |-> date.day + 1]
    BY <1>13 DEF Tomorrow, last
  <2>2. Holding(Tomorrow(date), h, m, x)
          = Regs(B(x), B(m), B(h), B(date.day + 1), B(date.month), B(y))
    BY <2>1 DEF Holding, B, y
  <2>3. BcdNext(B(date.day)) = B(date.day + 1)
    BY <1>1, BcdCounts DEF B
  <2>4. QED BY <1>8, <1>9, <1>13, <2>2, <2>3, Zenon
<1>14. CASE date.day = last /\ date.month # 12
  <2>1. Tomorrow(date) = [year |-> date.year, month |-> date.month + 1, day |-> 1]
    BY <1>14 DEF Tomorrow, last
  <2>2. Holding(Tomorrow(date), h, m, x)
          = Regs(B(x), B(m), B(h), B(1), B(date.month + 1), B(y))
    BY <2>1 DEF Holding, B, y
  <2>3. BcdNext(B(date.month)) = B(date.month + 1)
    BY <1>1, BcdCounts DEF B
  <2>4. QED BY <1>3, <1>8, <1>9, <1>10, <1>12, <1>14, <2>2, <2>3, Zenon
<1>15. CASE date.day = last /\ date.month = 12
  <2>1. Tomorrow(date) = [year |-> date.year + 1, month |-> 1, day |-> 1]
    BY <1>15 DEF Tomorrow, last
  <2>2. date.year + 1 \in Nat /\ 2000 <= date.year + 1 /\ date.year + 1 <= 2099
    BY <2>1 DEF Dates
  <2>3. y \in Nat /\ y <= 98 /\ (date.year + 1) % 100 = y + 1
    BY <1>1, <1>2, <2>2
  <2>4. Holding(Tomorrow(date), h, m, x) = Regs(B(x), B(m), B(h), B(1), B(1), B(y + 1))
    BY <2>1, <2>3 DEF Holding, B
  <2>5. B(y) # 153
    BY <2>3, BcdOf, BcdDistinct DEF B
  <2>6. BcdNext(B(y)) = B(y + 1)
    BY <2>3, BcdCounts DEF B
  <2>7. QED BY <1>3, <1>8, <1>9, <1>10, <1>11, <1>12, <1>15, <2>4, <2>5, <2>6, Zenon
<1>16. QED BY <1>13, <1>14, <1>15

Clock(s) == [hour |-> s \div 3600, minute |-> (s \div 60) % 60, second |-> s % 60]

(* The parts of a second of the day, and the second from its parts. *)
LEMMA ClockParts ==
  ASSUME NEW s \in Nat, s <= 86399
  PROVE  /\ s \div 3600 \in Nat /\ s \div 3600 <= 23
         /\ (s \div 60) % 60 \in Nat /\ (s \div 60) % 60 <= 59
         /\ s % 60 \in Nat /\ s % 60 <= 59
         /\ s = 3600 * (s \div 3600) + 60 * ((s \div 60) % 60) + (s % 60)
<1> DEFINE a == s \div 60
<1>1. /\ a \in Nat /\ a <= 1439 /\ s % 60 \in Nat /\ s % 60 <= 59
      /\ s = 60 * a + (s % 60)
  OBVIOUS
<1>2. s \div 3600 = a \div 60
  OBVIOUS
<1> HIDE DEF a
<1>3. /\ a \div 60 \in Nat /\ a \div 60 <= 23 /\ a % 60 \in Nat /\ a % 60 <= 59
      /\ a = 60 * (a \div 60) + (a % 60)
  BY <1>1
<1>4. QED BY <1>1, <1>2, <1>3 DEF a

(* The parts of a second of the day determine one another. *)
LEMMA PartsOf ==
  ASSUME NEW h \in Nat, h <= 23, NEW m \in Nat, m <= 59, NEW x \in Nat, x <= 59, NEW s,
         s = 3600 * h + 60 * m + x
  PROVE  Clock(s) = [hour |-> h, minute |-> m, second |-> x]
<1>1. s \div 3600 = h
  OBVIOUS
<1>2. s \div 60 = 60 * h + m /\ s % 60 = x
  OBVIOUS
<1>3. (60 * h + m) % 60 = m
  OBVIOUS
<1>4. QED BY <1>1, <1>2, <1>3 DEF Clock

(* One second of the device, on registers that hold a date and a time. *)
LEMMA SecondTicks ==
  ASSUME NEW date, NEW h, NEW m, NEW x \in Nat, x <= 58
  PROVE  DeviceSecond(Holding(date, h, m, x)) = Holding(date, h, m, x + 1)
<1>1. bin_to_bcd(x) # 89
  BY BcdOf, BcdDistinct
<1>2. BcdNext(bin_to_bcd(x)) = bin_to_bcd(x + 1)
  BY BcdCounts
<1>3. QED BY <1>1, <1>2, Carries DEF Holding

LEMMA MinuteTicks ==
  ASSUME NEW date, NEW h, NEW m \in Nat, m <= 58
  PROVE  DeviceSecond(Holding(date, h, m, 59)) = Holding(date, h, m + 1, 0)
<1>1. bin_to_bcd(59) = 89 /\ bin_to_bcd(0) = 0
  BY BcdOf
<1>2. bin_to_bcd(m) # 89
  BY BcdOf, BcdDistinct
<1>3. BcdNext(bin_to_bcd(m)) = bin_to_bcd(m + 1)
  BY BcdCounts
<1>4. QED BY <1>1, <1>2, <1>3, Carries DEF Holding

LEMMA HourTicks ==
  ASSUME NEW date, NEW h \in Nat, h <= 22
  PROVE  DeviceSecond(Holding(date, h, 59, 59)) = Holding(date, h + 1, 0, 0)
<1>1. bin_to_bcd(59) = 89 /\ bin_to_bcd(0) = 0
  BY BcdOf
<1>2. bin_to_bcd(h) # 35
  BY BcdOf, BcdDistinct
<1>3. BcdNext(bin_to_bcd(h)) = bin_to_bcd(h + 1)
  BY BcdCounts
<1>4. QED BY <1>1, <1>2, <1>3, Carries DEF Holding

LEMMA DayTicks ==
  ASSUME NEW date
  PROVE  DeviceSecond(Holding(date, 23, 59, 59)) = CarryDay(Holding(date, 0, 0, 0))
<1>1. bin_to_bcd(23) = 35 /\ bin_to_bcd(59) = 89 /\ bin_to_bcd(0) = 0
  BY BcdOf
<1>2. QED BY <1>1, Carries DEF Holding

(* The registers after a set at a second of the day. *)
LEMMA ClockHolds ==
  ASSUME NEW date, NEW h \in Nat, h <= 23, NEW m \in Nat, m <= 59, NEW x \in Nat, x <= 59,
         NEW s, s = 3600 * h + 60 * m + x
  PROVE  set([date |-> date, time |-> Clock(s)]) = Holding(date, h, m, x)
<1>1. Clock(s) = [hour |-> h, minute |-> m, second |-> x]
  BY PartsOf
<1>2. QED BY <1>1, SetHolds

(* A second later the device holds the conversion of a second later. *)
LEMMA DeviceTicks ==
  ASSUME NEW date \in Dates, NEW s \in Nat, s <= 86399,
         s = 86399 => Tomorrow(date) \in Dates
  PROVE  DeviceSecond(set([date |-> date, time |-> Clock(s)]))
           = set([date |-> IF s = 86399 THEN Tomorrow(date) ELSE date,
                  time |-> Clock((s + 1) % 86400)])
<1> DEFINE h == s \div 3600
           m == (s \div 60) % 60
           x == s % 60
<1>1. /\ h \in Nat /\ h <= 23 /\ m \in Nat /\ m <= 59 /\ x \in Nat /\ x <= 59
      /\ s = 3600 * h + 60 * m + x
  BY ClockParts
<1> HIDE DEF h, m, x
<1>2. set([date |-> date, time |-> Clock(s)]) = Holding(date, h, m, x)
  BY <1>1, ClockHolds
<1>3. s # 86399 => (s + 1) % 86400 = s + 1
  OBVIOUS
<1>4. CASE x # 59
  <2>1. /\ x <= 58 /\ x + 1 \in Nat /\ x + 1 <= 59
        /\ s # 86399 /\ s + 1 = 3600 * h + 60 * m + (x + 1)
    BY <1>1, <1>4
  <2>2. set([date |-> date, time |-> Clock(s + 1)]) = Holding(date, h, m, x + 1)
    BY <1>1, <2>1, ClockHolds
  <2>3. QED BY <1>1, <1>2, <1>3, <2>1, <2>2, SecondTicks
<1>5. CASE x = 59 /\ m # 59
  <2>1. /\ m <= 58 /\ m + 1 \in Nat /\ m + 1 <= 59
        /\ s # 86399 /\ s + 1 = 3600 * h + 60 * (m + 1) + 0
    BY <1>1, <1>5
  <2>2. set([date |-> date, time |-> Clock(s + 1)]) = Holding(date, h, m + 1, 0)
    BY <1>1, <2>1, ClockHolds
  <2>3. QED BY <1>1, <1>2, <1>3, <1>5, <2>1, <2>2, MinuteTicks
<1>6. CASE x = 59 /\ m = 59 /\ h # 23
  <2>1. /\ h <= 22 /\ h + 1 \in Nat /\ h + 1 <= 23
        /\ s # 86399 /\ s + 1 = 3600 * (h + 1) + 60 * 0 + 0
    BY <1>1, <1>6
  <2>2. set([date |-> date, time |-> Clock(s + 1)]) = Holding(date, h + 1, 0, 0)
    BY <1>1, <2>1, ClockHolds
  <2>3. QED BY <1>1, <1>2, <1>3, <1>6, <2>1, <2>2, HourTicks
<1>7. CASE x = 59 /\ m = 59 /\ h = 23
  <2>1. s = 86399 /\ (s + 1) % 86400 = 0
    BY <1>1, <1>7
  <2>2. 0 = 3600 * 0 + 60 * 0 + 0
    OBVIOUS
  <2>3. set([date |-> Tomorrow(date), time |-> Clock(0)]) = Holding(Tomorrow(date), 0, 0, 0)
    BY <2>2, ClockHolds
  <2>4. CarryDay(Holding(date, 0, 0, 0)) = Holding(Tomorrow(date), 0, 0, 0)
    BY <2>1, DeviceTomorrow
  <2>5. QED BY <1>2, <1>7, <2>1, <2>3, <2>4, DayTicks
<1>8. QED BY <1>4, <1>5, <1>6, <1>7

(* The conversion gives every day of the century a date of its own month,  *)
(* and the day after the date that follows.                                *)
LEMMA DateFollows ==
  ASSUME NEW d \in Nat, d <= 36524
  PROVE  /\ date_from_day(d) \in Dates
         /\ d < 36524 => date_from_day(d + 1) = Tomorrow(date_from_day(d))
<1>1. PICK y, n : IsDay(d, y, n) /\ date_from_day(d) = MarchDate(y, n)
  BY DateOf
<1>a. y \in Nat /\ y <= 100 /\ n \in Nat /\ n <= 365
  BY <1>1 DEF IsDay
<1>2. date_from_day(d) \in Dates
  BY <1>1, <1>a, DateInCentury
<1>3. ASSUME d < 36524 PROVE date_from_day(d + 1) = Tomorrow(date_from_day(d))
  <2>1. d + 1 \in Nat /\ d + 1 <= 36524
    BY <1>3
  <2>2. PICK y2, n2 : IsDay(d + 1, y2, n2) /\ date_from_day(d + 1) = MarchDate(y2, n2)
    BY <2>1, DateOf
  <2>a. y2 \in Nat /\ y2 <= 100 /\ n2 \in Nat /\ n2 <= 365
    BY <2>2 DEF IsDay
  <2>3. CASE y2 = y /\ n2 = n + 1 /\ (n = 364 => y % 4 = 0)
    <3>1. n <= 364
      BY <1>a, <2>a, <2>3
    <3>2. QED BY <1>1, <1>a, <2>2, <2>3, <3>1, WithinYear
  <2>4. CASE y2 = y + 1 /\ n2 = 0 /\ n \in {364, 365} /\ (n = 365 <=> y % 4 = 0)
    <3>1. y <= 99
      BY <1>a, <2>a, <2>4
    <3>2. QED BY <1>1, <1>a, <2>2, <2>4, <3>1, LastOfYear
  <2>5. QED BY <1>1, <1>a, <2>2, <2>a, <2>3, <2>4, DayAfter
<1>4. QED BY <1>2, <1>3

(* The device is never a second late on the conversion, and it crosses at  *)
(* most one midnight after the last day a set command may name.            *)
CalendarInv ==
  /\ day \in Nat /\ sec \in Nat /\ sec <= 86399 /\ ran \in 0 .. Run
  /\ day <= MaxDay \/ (day = MaxDay + 1 /\ sec < ran)
  /\ regs = set(datetime_from_epoch(day, sec))

LEMMA EpochParts ==
  ASSUME NEW d, NEW s
  PROVE  datetime_from_epoch(d, s) = [date |-> date_from_day(d), time |-> Clock(s)]
BY DEF datetime_from_epoch, Clock

LEMMA CalendarInit == CivilInit => CalendarInv
BY CivilAssumption DEF CivilInit, CalendarInv

LEMMA CalendarStep ==
  ASSUME MaxDay <= 36523, CalendarInv, [DeviceCounts]_civilVars
  PROVE  CalendarInv'
<1>1. CASE UNCHANGED civilVars
  BY <1>1 DEF CalendarInv, civilVars
<1>2. CASE DeviceCounts
  <2>1. day \in Nat /\ sec \in Nat /\ sec <= 86399 /\ ran \in 0 .. Run /\ ran < Run
        /\ (day <= MaxDay \/ (day = MaxDay + 1 /\ sec < ran))
        /\ MaxDay \in Nat /\ Run \in Nat /\ Run <= 86400
    BY <1>2, CivilAssumption DEF CalendarInv, DeviceCounts
  <2>2. /\ ran' = ran + 1 /\ sec' = (sec + 1) % 86400
        /\ day' = IF sec = 86399 THEN day + 1 ELSE day
    BY <1>2 DEF DeviceCounts
  <2>3. sec' = IF sec = 86399 THEN 0 ELSE sec + 1
    BY <2>1, <2>2
  <2>4. /\ day' \in Nat /\ sec' \in Nat /\ sec' <= 86399 /\ ran' \in 0 .. Run
        /\ day' <= MaxDay \/ (day' = MaxDay + 1 /\ sec' < ran')
    BY <2>1, <2>2, <2>3
  <2>5. day \in Nat /\ day <= 36524 /\ (sec = 86399 => day < 36524)
    BY <2>1
  <2>6. regs' = set(datetime_from_epoch(day', sec'))
    <3> DEFINE date == date_from_day(day)
    <3>1. date \in Dates
      BY <2>5, DateFollows
    <3>2. date_from_day(day') = IF sec = 86399 THEN Tomorrow(date) ELSE date
      BY <2>2, <2>5, DateFollows
    <3>3. sec = 86399 => Tomorrow(date) \in Dates
      <4>1. sec = 86399 => (day + 1 \in Nat /\ day + 1 <= 36524)
        BY <2>5
      <4>2. QED BY <2>5, <4>1, DateFollows
    <3>4. regs' = DeviceSecond(set([date |-> date, time |-> Clock(sec)]))
      BY <1>2, EpochParts DEF DeviceCounts, CalendarInv
    <3> HIDE DEF date
    <3>5. DeviceSecond(set([date |-> date, time |-> Clock(sec)]))
            = set([date |-> IF sec = 86399 THEN Tomorrow(date) ELSE date,
                   time |-> Clock((sec + 1) % 86400)])
      BY <2>1, <3>1, <3>3, DeviceTicks
    <3>6. QED BY <2>2, <3>2, <3>4, <3>5, EpochParts
  <2>7. QED BY <2>4, <2>6 DEF CalendarInv
<1>3. QED BY <1>1, <1>2

LEMMA ReadsBack ==
  ASSUME MaxDay <= 36523, CalendarInv
  PROVE  ClockKeepsCalendar
<1>1. day \in Nat /\ day <= 36524 /\ sec \in Nat /\ sec <= 86399
  BY CivilAssumption DEF CalendarInv
<1>2. date_from_day(day) \in Dates
  BY <1>1, DateFollows
<1>3. Clock(sec) \in Times
  BY <1>1, ClockParts DEF Clock, Times, Below
<1>4. datetime_from_epoch(day, sec) \in Moments
  BY <1>2, <1>3, EpochParts DEF Moments
<1>5. QED BY <1>4, ReadSet DEF CalendarInv, ClockKeepsCalendar

(* datetime_from_epoch, set and read, and the counting of the device:      *)
(* whatever moment of 2000 to 2099 is set, the next day's worth of reads   *)
(* shows that moment moved on by the seconds that passed.                  *)
THEOREM CalendarKept ==
  ASSUME MaxDay <= 36523
  PROVE  CivilSpec => []ClockKeepsCalendar
<1>1. CalendarInv /\ [DeviceCounts]_civilVars => CalendarInv'
  BY CalendarStep
<1>2. CalendarInv => ClockKeepsCalendar
  BY ReadsBack
<1>3. QED BY CalendarInit, <1>1, <1>2, PTL DEF CivilSpec
---------------------------------------------------------------------------
(* Failed polls *)

(* No tracker has counted more failures than polls failed, but for one:    *)
(* the poll that counts two starts from none.                              *)
StreakInv ==
  /\ pmu \in HealthState /\ WithinBudget(pmu)
  /\ failed_polls \in 0 .. MaxFailures
  /\ pmu.ok => pmu.failures <= failed_polls + 1

(* The failures two results add to a tracker that starts from none. *)
LEMMA TwoResults ==
  ASSUME NEW h \in HealthState, h.ok, WithinBudget(h),
         NEW a \in BOOLEAN, NEW b \in BOOLEAN
  PROVE  LET h3 == Check(Check(Check(h, TRUE), a), b)
         IN h3.failures <= 2 /\ (a /\ b => h3.failures = 0)
<1> DEFINE h1 == Check(h, TRUE)
           h2 == Check(h1, a)
           h3 == Check(h2, b)
<1>1. h1 \in HealthState /\ h1.ok /\ h1.failures = 0
  BY MaxFailuresAssumption DEF Check, HealthState
<1> HIDE DEF h1
<1>2. h2 \in HealthState /\ h2.ok /\ h2.failures <= 1
  BY <1>1, CheckWithSlack, MaxFailuresAssumption
<1> HIDE DEF h2
<1>3. h2.failures \in Nat /\ h2.failures + 1 < MaxFailures
  BY <1>2, MaxFailuresAssumption DEF HealthState
<1>4. h3 \in HealthState /\ h3.failures <= h2.failures + 1 /\ (b => h3.failures = 0)
  BY <1>2, <1>3, CheckWithSlack
<1> HIDE DEF h3
<1>5. h3.failures <= 2 /\ (b => h3.failures = 0)
  BY <1>2, <1>3, <1>4 DEF HealthState
<1>6. QED BY <1>5 DEF h1, h2, h3

LEMMA StreakStarts == StreakInit => StreakInv
<1> SUFFICES ASSUME StreakInit PROVE StreakInv
  OBVIOUS
<1>1. PICK ok \in BOOLEAN : pmu = HealthNew(ok)
  BY DEF StreakInit, PmuInit
<1>2. pmu \in HealthState /\ WithinBudget(pmu) /\ pmu.failures = 0
  BY <1>1, NewTracker DEF HealthNew
<1>3. QED BY <1>2, MaxFailuresAssumption DEF StreakInit, StreakInv

(* What a poll does to the count. *)
LEMMA StreakStep ==
  ASSUME StreakInv, StreakNext
  PROVE  StreakInv' /\ (~pmu'.ok => failed_polls' >= MaxFailures - 1)
<1> USE MaxFailuresAssumption
<1>1. CASE PmuStatusFails /\ PollFailed
  <2>1. pmu' = Check(pmu, FALSE) /\ pmu.ok
    BY <1>1 DEF PmuStatusFails
  <2>2. pmu' \in HealthState /\ WithinBudget(pmu')
    BY <2>1, CheckOnce DEF StreakInv
  <2>3. /\ pmu.failures \in Nat /\ pmu.failures < MaxFailures
        /\ pmu'.failures = pmu.failures + 1
        /\ ~pmu'.ok <=> pmu.failures + 1 >= MaxFailures
    BY <2>1 DEF StreakInv, HealthState, WithinBudget, Check
  <2>4. /\ failed_polls \in 0 .. MaxFailures /\ pmu.failures <= failed_polls + 1
        /\ failed_polls' = IF failed_polls < MaxFailures THEN failed_polls + 1 ELSE failed_polls
    BY <1>1, <2>1 DEF StreakInv, PollFailed
  <2>5. failed_polls' \in 0 .. MaxFailures /\ pmu.failures <= failed_polls'
    BY <2>3, <2>4
  <2>6. ~pmu'.ok => failed_polls' >= MaxFailures - 1
    BY <2>3, <2>5
  <2>7. QED BY <2>2, <2>3, <2>5, <2>6 DEF StreakInv
<1>2. ASSUME NEW st \in Statuses, PmuNoBattery(st), PollWorked
      PROVE  StreakInv' /\ pmu'.ok
  <2>1. pmu' = Check(pmu, TRUE) /\ pmu.ok /\ failed_polls' = 0
    BY <1>2 DEF PmuNoBattery, PollWorked
  <2>2. pmu' \in HealthState /\ WithinBudget(pmu')
    BY <2>1, CheckOnce DEF StreakInv
  <2>3. pmu'.ok /\ pmu'.failures = 0
    BY <2>1 DEF Check
  <2>4. failed_polls' = 0 /\ pmu'.failures = 0
    BY <2>1, <2>3
  <2>5. failed_polls' \in 0 .. MaxFailures /\ pmu'.failures <= failed_polls' + 1
    BY <2>4
  <2>6. QED BY <2>2, <2>3, <2>5 DEF StreakInv
<1>3. ASSUME NEW st \in Statuses, NEW mv_ok \in BOOLEAN, NEW pct_ok \in BOOLEAN,
             NEW mv \in MilliVolts, NEW pct \in Gauge,
             PmuBattery(st, mv_ok, mv, pct_ok, pct),
             IF mv_ok /\ pct_ok THEN PollWorked ELSE PollFailed
      PROVE  StreakInv' /\ pmu'.ok
  <2>1. pmu' = Check(Check(Check(pmu, TRUE), mv_ok), pct_ok) /\ pmu.ok
    BY <1>3 DEF PmuBattery
  <2>2. pmu' \in HealthState /\ pmu'.ok /\ WithinBudget(pmu')
    BY <2>1, CheckAfterSuccess DEF StreakInv
  <2>3. pmu'.failures <= 2 /\ (mv_ok /\ pct_ok => pmu'.failures = 0)
    BY <2>1, TwoResults DEF StreakInv
  <2>4. /\ failed_polls' \in 0 .. MaxFailures
        /\ failed_polls' >= 1 \/ (mv_ok /\ pct_ok /\ failed_polls' = 0)
    BY <1>3 DEF StreakInv, PollFailed, PollWorked
  <2>5. pmu'.failures \in Nat
    BY <2>2 DEF HealthState
  <2>6. pmu'.failures <= failed_polls' + 1
    BY <2>3, <2>4, <2>5
  <2>7. QED BY <2>2, <2>4, <2>6 DEF StreakInv
<1>4. QED BY <1>1, <1>2, <1>3 DEF StreakNext

(* The limit is reached at most one failed poll early, for every limit     *)
(* above two and every battery: what is left of sensors.rs:11.             *)
THEOREM GivenUpOnePollEarlyAtMost == StreakSpec => AbsentOnePollEarlyAtMost
<1>1. StreakInv /\ [StreakNext]_streakVars => StreakInv'
  <2>1. StreakInv /\ UNCHANGED streakVars => StreakInv'
    BY DEF StreakInv, WithinBudget, streakVars, pmuVars
  <2>2. QED BY <2>1, StreakStep
<1>2. StreakInv /\ [StreakNext]_streakVars
        => [pmu.ok /\ ~pmu'.ok => failed_polls' >= MaxFailures - 1]_streakVars
  BY StreakStep
<1>3. QED BY <1>1, <1>2, StreakStarts, PTL DEF StreakSpec, AbsentOnePollEarlyAtMost

===========================================================================
