SPECIFICATION SweepSpec
CONSTANTS
  ImuEvery = 7
  SlowEvery = 67
  RtcPhase = 33
  TickWrap = 837
  MaxDay = 36523
  LastSecs = {35997, 71997, 86397}
  Run = 4
  Low <- i16Min
  High = 32767
  MaxFailures = 5
  Statuses <- TwoStatuses
  MilliVolts = {4000}
  Gauge = {80}
  Unknown = 255
INVARIANTS WaitsAreBounded ClockKeepsCalendar DeflectionIsHonest SlowTurnsAreExact
PROPERTIES Staggered TiltIsMonotone AbsentOnePollEarlyAtMost
CHECK_DEADLOCK FALSE
