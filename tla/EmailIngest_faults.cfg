SPECIFICATION FairSpec
CONSTANTS
  r1 = r1
  Refs = {r1}
  NoRef = NoRef
  MaxMails = 3
  MaxFaults = 1
  Contents <- EveryKind
INVARIANTS IngestInv NothingDroppedUnlessSlipped CancelOnce
PROPERTIES  KeepsIntake
