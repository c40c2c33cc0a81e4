SPECIFICATION BoardSpec
CONSTANTS
  MaxFailures = 5
  Points = {origin, p1, p2}
  Origin = origin
  NoFinger = none
  Samples = {zero, s1}
  Zero = zero
  SeqWrap = 3
  Statuses <- AllStatuses
  MilliVolts = {4000}
  Gauge = {0, 127}
  Unknown = 255
  MaxEpoch = 2
  TornWrites = FALSE
  Percent = {0, 5, 50, 100}
  MinPct = 5
  SliderMin = 5
  ImuEvery = 1
  SlowEvery = 2
  RtcPhase = 1
  TickWrap = 5
  Fitted = {"imu", "pmu", "rtc"}
  Focuses <- FocusSets
INVARIANTS
  TypeOK TrackersWithinBudget TouchCoherent StateTracksHealth
  NoBatterySentinels TrustedTime SettledMeansApplied
PROPERTIES
  ReleaseNeedsLift ImplementsAvailability
  LiftIsSeen KnobIsHonest
