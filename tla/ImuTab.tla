------------------------------- MODULE ImuTab ------------------------------
(***************************************************************************)
(* The IMU tab as a reader of what the hub publishes: every update of the  *)
(* UI compares the sample counter with the one it saw last, feeds the      *)
(* chart, and rewrites the readouts if the tab is the visible one.         *)
(***************************************************************************)
EXTENDS ImuPoll

CONSTANT MaxUnseen    \* samples the hub publishes between two UI updates

ASSUME MaxUnseenAssumption == MaxUnseen \in Nat \ {0} /\ MaxUnseen < SeqWrap

VARIABLES last_seq,
          absent_noted,
          chart,         \* points fed to the chart so far, modulo SeqWrap
          readout,       \* the sample in the labels and the bubble
          gyro_label,    \* the gyro line: "none", "absent" or "sample"
          unseen         \* ghost: samples published since the last update

imuTab == <<last_seq, absent_noted, chart, readout, gyro_label>>
imuTabVars == <<imuTab, unseen>>

ImuTabTypeOK ==
  /\ absent_noted \in BOOLEAN
  /\ last_seq \in 0 .. SeqWrap - 1 /\ chart \in 0 .. SeqWrap - 1
  /\ readout \in Samples
  /\ gyro_label \in {"none", "absent", "sample"}
  /\ unseen \in 0 .. MaxUnseen

ImuTabCreate ==
  /\ last_seq = 0 /\ absent_noted = FALSE
  /\ chart = 0 /\ readout = Zero /\ gyro_label = "none"
  /\ unseen = 0

(* Part of every hub step: the samples it publishes are counted. *)
CountSample ==
  /\ unseen' = IF IMU_SEQ' # IMU_SEQ THEN unseen + 1 ELSE unseen
  /\ unseen' <= MaxUnseen
  /\ UNCHANGED imuTab

(* The device is absent: said once. *)
UpdateAbsent ==
  /\ IMU_STATE = 0
  /\ IF absent_noted THEN UNCHANGED <<absent_noted, gyro_label>>
     ELSE absent_noted' = TRUE /\ gyro_label' = "absent"
  /\ UNCHANGED <<last_seq, chart, readout>>

UpdateNothingNew ==
  /\ IMU_STATE # 0 /\ IMU_SEQ = last_seq
  /\ UNCHANGED imuTab

(* Mutants of UpdateSample: the counter is noted only when the labels are  *)
(* rewritten; the chart is fed only while it is visible.                   *)
UpdateSampleNotedLate(active) ==
  /\ IMU_STATE # 0 /\ IMU_SEQ # last_seq
  /\ chart' = (chart + 1) % SeqWrap
  /\ IF active
     THEN last_seq' = IMU_SEQ /\ readout' = IMU_SAMPLE /\ gyro_label' = "sample"
     ELSE UNCHANGED <<last_seq, readout, gyro_label>>
  /\ UNCHANGED absent_noted

UpdateSampleOnlyChart(active) ==
  /\ IMU_STATE # 0 /\ IMU_SEQ # last_seq
  /\ last_seq' = IMU_SEQ
  /\ chart' = (chart + 1) % SeqWrap
  /\ UNCHANGED <<absent_noted, readout, gyro_label>>

UpdateSample(active) ==
  /\ IMU_STATE # 0 /\ IMU_SEQ # last_seq
  /\ last_seq' = IMU_SEQ
  /\ chart' = (chart + 1) % SeqWrap
  /\ IF active
     THEN readout' = IMU_SAMPLE /\ gyro_label' = "sample"
     ELSE UNCHANGED <<readout, gyro_label>>
  /\ UNCHANGED absent_noted

ImuTabUpdate(active) ==
  /\ UpdateAbsent \/ UpdateNothingNew \/ UpdateSample(active)
  /\ unseen' = 0

---------------------------------------------------------------------------

(* imu.rs:167, "history is continuous when the user switches back": every  *)
(* sample becomes one point of the chart, equal ones included and          *)
(* whichever tab is visible.  While the device is there the chart lags     *)
(* what was published by what the next update will see, no more.           *)
EverySampleIsPlotted ==
  IMU_STATE = 1 => (chart + unseen) % SeqWrap = IMU_SEQ
===========================================================================
