SPECIFICATION MCSpec
CONSTANTS
  MaxFailures = 3
  Points = {origin, p1}
  Origin = origin
  NoFinger = none
  Samples = {zero, s1}
  Zero = zero
  SeqWrap = 3
  MaxUnseen = 1
  Statuses <- ThreeStatuses
  MilliVolts = {4000}
  Gauge = {0, 50}
  Unknown = 255
  MaxEpoch = 2
  DayLength = 2
  TornWrites = FALSE
  Percent = {0, 5, 50, 100}
  MinPct = 5
  SliderMin = 5
  ImuEvery = 1
  SlowEvery = 2
  RtcPhase = 1
  TickWrap = 3
  Fitted = {"imu", "pmu", "rtc"}
  Addresses = {a1}
  NoAddress = none
  TapWrap = 3
  Knobs = {0, 30, 100}
  Options = 3
  SecondWrap = 2
INVARIANTS ViewTypeOK EverySampleIsPlotted
PROPERTIES ImplementsMirror ReadoutIsLive StatsAreLive
