------------------------------ MODULE ImuPoll -----------------------------
(***************************************************************************)
(* The QMI8658 as the sensor hub handles it: a two-part bring-up with an   *)
(* await between the reset and the configuration, then a burst read every  *)
(* IMU_EVERY-th tick.  A sample is published as the accelerometer and the  *)
(* gyro cells, then the sequence counter moves on; the hub runs this       *)
(* without an await, so a sample is published as a whole.                  *)
(***************************************************************************)
EXTENDS Health

CONSTANTS Samples,   \* converted samples (the conversion itself: ImuScale)
          Zero,      \* what the cells hold before the first sample
          SeqWrap    \* IMU_SEQ is a u32: it wraps at 2^32

ASSUME SamplesAssumption == Zero \in Samples /\ SeqWrap \in Nat \ {0}

VARIABLES imu_phase,   \* where sensor_hub_task is with this device
          imu,         \* the tracker
          IMU_STATE,   \* 1 = usable, 0 = absent
          IMU_SEQ,     \* wrapping sample counter
          IMU_SAMPLE   \* IMU_ACCEL_MG and IMU_GYRO_MDPS

imuPublished == <<IMU_SEQ, IMU_SAMPLE>>
imuVars == <<imu_phase, imu, IMU_STATE, imuPublished>>

ImuTypeOK ==
  /\ imu_phase \in {"probe", "settle", "polling"}
  /\ imu \in HealthState
  /\ IMU_STATE \in {0, 1}
  /\ IMU_SEQ \in 0 .. SeqWrap - 1
  /\ IMU_SAMPLE \in Samples

ImuInit ==
  /\ imu_phase = "probe"
  /\ imu = HealthNew(FALSE)
  /\ IMU_STATE = 0
  /\ IMU_SEQ = 0
  /\ IMU_SAMPLE = Zero

StateOf(h) == IF h.ok THEN 1 ELSE 0

(* init_imu returned: the tracker starts with its verdict. *)
ImuBroughtUp(ok) ==
  /\ imu_phase' = "polling"
  /\ imu' = HealthNew(ok)
  /\ IMU_STATE' = StateOf(imu')
  /\ UNCHANGED imuPublished

(* No answer, an unexpected WHO_AM_I, or a refused reset command: the      *)
(* bring-up ends without ever awaiting.                                    *)
ImuProbeFails == imu_phase = "probe" /\ ImuBroughtUp(FALSE)

(* The reset was sent; the task sleeps while the device settles. *)
ImuResetSent ==
  /\ imu_phase = "probe"
  /\ imu_phase' = "settle"
  /\ UNCHANGED <<imu, IMU_STATE, imuPublished>>

(* The four configuration writes; any one refused fails the bring-up. *)
ImuConfigure(ok) == imu_phase = "settle" /\ ImuBroughtUp(ok)

(* Mutant of ImuReadFails: the availability cell is left to the next poll.     *)
ImuReadFailsSilently ==
  /\ imu_phase = "polling" /\ imu.ok
  /\ imu' = Check(imu, FALSE)
  /\ UNCHANGED <<imu_phase, IMU_STATE, imuPublished>>

ImuReadFails ==
  /\ imu_phase = "polling" /\ imu.ok
  /\ imu' = Check(imu, FALSE)
  /\ IMU_STATE' = IF imu'.ok THEN IMU_STATE ELSE 0
  /\ UNCHANGED <<imu_phase, imuPublished>>

ImuReadSample(s) ==
  /\ imu_phase = "polling" /\ imu.ok
  /\ imu' = Check(imu, TRUE)
  /\ IMU_SAMPLE' = s
  /\ IMU_SEQ' = (IMU_SEQ + 1) % SeqWrap
  /\ UNCHANGED <<imu_phase, IMU_STATE>>

(* A tick that does not read: not due, or the device is absent.  The hub   *)
(* keeps storing 0 while the device is absent.                             *)
ImuNoRead ==
  /\ imu_phase = "polling"
  /\ IMU_STATE' = IF imu.ok THEN IMU_STATE ELSE 0
  /\ UNCHANGED <<imu_phase, imu, imuPublished>>

ImuBringUp == ImuProbeFails \/ ImuResetSent \/ \E ok \in BOOLEAN : ImuConfigure(ok)

(* One hub tick, as far as the IMU goes. *)
PollImu(due) ==
  \/ due /\ (ImuReadFails \/ \E s \in Samples : ImuReadSample(s))
  \/ ~(due /\ imu.ok) /\ ImuNoRead

ImuNext == ImuBringUp \/ \E due \in BOOLEAN : PollImu(due)

ImuSpec == ImuInit /\ [][ImuNext]_imuVars

---------------------------------------------------------------------------

(* IMU_STATE says what the tracker says from the end of the bring-up on,   *)
(* and nothing is announced before it: the UI never takes an absent or an  *)
(* unconfigured device for a live one.                                     *)
StateTracksHealth ==
  IF imu_phase = "polling" THEN IMU_STATE = StateOf(imu) ELSE IMU_STATE = 0
===========================================================================
