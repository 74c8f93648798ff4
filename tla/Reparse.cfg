SPECIFICATION Spec
CONSTANTS
  h1 = h1
  h2 = h2
  p1 = p1
  p2 = p2
  e1 = e1
  e2 = e2
  html = html
  fromOta = fromOta
  oldRef = oldRef
  Entries = {e1, e2}
  Res = {1, 2}
  Profiles = {p1, p2}
  Mails <- ThreeMails
  Fields <- ThreeFields
  Subjects = {fromOta}
  Formats = {html}
  Refs = {oldRef}
  Handlers = {h1, h2}
  MaxRequests = 2
  MaxEdits = 1
  MaxStaff = 2
  Profile0 <- Ready
  Patches <- TwoPatches
  None = None
SYMMETRY Symmetry
INVARIANTS TypeOK ResolvedWithItsReservation LinkLeadsSomewhere BookedOnceUnlessAgain DryRunHolds
PROPERTIES IgnoredStaysUnbooked
CHECK_DEADLOCK FALSE
