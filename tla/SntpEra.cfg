SPECIFICATION SntpSpec
CONSTANTS
  MaxUtc = 5
  MaxEpoch = 4
  TzSeconds = 0
  NtpToY2k = 3
  NtpWrap = 8
  Refusals = {}
  MaxWire = 1
  RxSlots = 2
PROPERTY KeepsSyncing
