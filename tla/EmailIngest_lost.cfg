SPECIFICATION Spec
CONSTANTS
  r1 = r1
  Refs = {r1}
  NoRef = NoRef
  MaxMails = 3
  MaxFaults = 0
  Contents <- Bookings
INVARIANTS NothingDropped
