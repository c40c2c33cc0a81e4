SPECIFICATION StreakSpec
CONSTANTS
  MaxFailures = 5
  Statuses <- TwoStatuses
  MilliVolts = {4000}
  Gauge = {80}
  Unknown = 255
PROPERTY AbsentAfterFailedPolls
CHECK_DEADLOCK FALSE
