------------------------------ MODULE ImuScale -----------------------------
(***************************************************************************)
(* The conversions a raw IMU count goes through: to milli-g and to         *)
(* milli-degrees per second in the driver, and to the position of the      *)
(* bubble in the IMU tab, along either axis.  The driver multiplies in i32 before it divides; *)
(* raw * 512000 leaves that range, and the release build, the one the      *)
(* repository's README flashes, wraps (a debug build would panic).         *)
(***************************************************************************)
EXTENDS Integers

CONSTANT Low, High     \* the counts considered, -2^15 .. 2^15 - 1 in the device

ASSUME ScaleAssumption == Low \in -32768 .. -1 /\ High \in 1 .. 32767

VARIABLES raw,         \* count on one axis of each sensor (external)
          mg, mdps,    \* IMU_ACCEL_MG and IMU_GYRO_MDPS of that axis
          dx, dy       \* the bubble's offset if the axis is the first, the second

scaleVars == <<raw, mg, mdps, dx, dy>>

(* Integer division of the code: towards zero. *)
Quot(n, d) == IF n >= 0 THEN n \div d ELSE -((-n) \div d)

(* n as a two's complement number of 20 bits. *)
Wrap20(n) == ((n + 524288) % 1048576) - 524288

accel_mg(r) == Quot(r * 4000, 32768)

(* Mutant of gyro_mdps: the scale of a +-1024 dps range.                   *)
gyro_mdpsTwice(r) == Quot(Wrap20(r * 250), 16)

(* 512000 = 4096 * 125, so the i32 product wraps as r * 125 wraps in the   *)
(* 20 bits above the 12 that are zero; 32768 = 4096 * 8.                   *)
gyro_mdps(r) == Quot(Wrap20(r * 125), 8)

Travel == 54           \* BUBBLE_TRAVEL

(* Mutant of Deflected: the clamp is left out.                             *)
DeflectedUnclamped(a) == Quot(a * Travel, 1000)

Deflected(a) ==
  LET px == Quot(a * Travel, 1000)
  IN IF px > Travel THEN Travel ELSE IF px < -Travel THEN -Travel ELSE px

(* Mutant of bubble_dx: as along the second axis.                          *)
bubble_dxPlain(a) == Deflected(a)

(* Along the screen's x the bubble goes against the acceleration of the    *)
(* sensor's first axis, along its y (which points down) with the second.   *)
bubble_dx(a) == Deflected(-a)
bubble_dy(a) == Deflected(a)

ScaleInit ==
  /\ raw = Low
  /\ mg = accel_mg(raw)
  /\ mdps = gyro_mdps(raw)
  /\ dx = bubble_dx(mg)
  /\ dy = bubble_dy(mg)

(* The count sweeps its range; each count is read, converted and shown. *)
Sweep ==
  /\ raw < High
  /\ raw' = raw + 1
  /\ mg' = accel_mg(raw')
  /\ mdps' = gyro_mdps(raw')
  /\ dx' = bubble_dx(mg')
  /\ dy' = bubble_dy(mg')

ScaleSpec == ScaleInit /\ [][Sweep]_scaleVars

---------------------------------------------------------------------------

(* Full deflection at 1 g, neither earlier nor later and never beyond      *)
(* (imu.rs:25), on both axes and however hard the board is shaken.         *)
DeflectionIsHonest ==
  /\ dx \in -Travel .. Travel /\ dy \in -Travel .. Travel
  /\ (dx = -Travel <=> mg >= 1000) /\ (dx = Travel <=> mg <= -1000)
  /\ (dy = Travel <=> mg >= 1000) /\ (dy = -Travel <=> mg <= -1000)

(* A larger count never reads as a smaller acceleration, and never moves   *)
(* the bubble the wrong way: a first axis that reads more moves it to the  *)
(* left or not at all, a second axis down or not at all (imu.rs:186-189).  *)
TiltIsMonotone == [][mg' >= mg /\ dx' <= dx /\ dy' >= dy]_scaleVars

(* Slow turns are converted exactly: the product stays inside an i32 up to *)
(* about 65 degrees per second.                                            *)
SlowTurnsAreExact == raw \in -4194 .. 4194 => mdps = Quot(raw * 125, 8)

(* qmi8658.rs:53, the count in milli-degrees per second "at +-512 dps".    *)
GyroIsScaled == mdps = Quot(raw * 125, 8)
===========================================================================
