SPECIFICATION Spec
CONSTANTS
  single = single
  r1 = r1
  r2 = r2
  h1 = h1
  h2 = h2
  Res = {r1, r2}
  RoomNumbers = {101, 102}
  Categories = {single}
  Days = {1, 2, 3}
  WeekLength = 2
  Built = {101}
  LastDay = 2
  MaxLines = 2
  Plans <- OneOrTwo
  Stays <- TwoStays
  Handlers = {h1, h2}
  MaxRequests = 2
  None = None
  FirstRows <- CancelledOrNone
PROPERTIES SheetPrintsAssignedRoom
CHECK_DEADLOCK FALSE
