SPECIFICATION WifiSpec
CONSTANTS
  Addresses = {a1, a2}
  NoAddress = none
INVARIANTS WifiTypeOK LeaseIsPublished
PROPERTIES KeepsAssociating LossIsShown LeaseIsShown
