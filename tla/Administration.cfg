SPECIFICATION Spec
CONSTANTS
  p1 = p1
  p2 = p2
  s1 = s1
  s2 = s2
  wrong = wrong
  h1 = h1
  h2 = h2
  Pins = {p1, p2}
  Secrets = {s1, s2, wrong}
  Threshold = 2
  Values = {0, 1}
  Handlers = {h1, h2}
  MaxRequests = 3
  FirstPins <- TwoUsers
  None = None
SYMMETRY HandlerSymmetry
INVARIANTS TypeOK AdminLeft LocksAtThreshold
PROPERTIES LocksStick SettingsTakenBackOnlyByOldForm
CHECK_DEADLOCK FALSE
