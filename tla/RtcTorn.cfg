SPECIFICATION RtcSpec
CONSTANTS
  MaxFailures = 5
  MaxEpoch = 3
  TornWrites = TRUE
INVARIANT TrustedTime
