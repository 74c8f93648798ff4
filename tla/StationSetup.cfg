SPECIFICATION FairSpec
CONSTANTS
  Machines = {pc1, pc2}
  Stations = {1, 2}
  Names = {bar}
  Printers = {usb, lpt}
  MaxKeys = 2
  MaxInstalls = 2
  MaxFaults = 1
  Unreadable = Unreadable
  None = None
INVARIANTS TypeOK RunsWithItsPairing
PROPERTIES InstallsDontUnpairOthers EventuallyGreen
CHECK_DEADLOCK FALSE
