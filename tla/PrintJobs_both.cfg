SPECIFICATION Spec
CONSTANTS
  usb1 = usb1
  usb2 = usb2
  lan1 = lan1
  j1 = j1
  UsbStations = {usb1, usb2}
  LanStations = {lan1}
  StationOf <- UsbAndLan
  Jobs = {j1, j2}
  Handlers = {h1, h2}
  MaxOrders = 2
  NoHandler = NoHandler
  NoStation = NoStation
  NoJob = NoJob
SYMMETRY HandlerSymmetry
INVARIANTS PrintedMeansPaper AttemptsWithinOrders OwnStationOnly
PROPERTIES KeepsPromise
