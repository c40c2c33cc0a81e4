SPECIFICATION WifiSpec
CONSTANTS
  Addresses = {a1, a2}
  NoAddress = none
INVARIANT AddressTracksLease
