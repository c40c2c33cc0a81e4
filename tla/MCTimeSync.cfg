SPECIFICATION MCSpec
CONSTANTS
  MaxFailures = 3
  MaxEpoch = 2
  TornWrites = TRUE
  MaxUtc = 3
  TzSeconds = 0
  NtpToY2k = 1
  NtpWrap = 5
  Refusals = {"unexpected host"}
  MaxWire = 2
  RxSlots = 2
INVARIANT SntpTypeOK
PROPERTIES
  SuccessQueuesCommand KeepsSyncing StaleTimeIsReplaced
  ClockBecomesValid CleanSetIsShown
