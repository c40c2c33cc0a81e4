SPECIFICATION ScaleSpec
CONSTANTS
  Low <- i16Min
  High = 32767
INVARIANT GyroIsScaled
CHECK_DEADLOCK FALSE
