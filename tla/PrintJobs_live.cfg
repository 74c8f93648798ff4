SPECIFICATION FairSpec
CONSTANTS
  usb1 = usb1
  usb2 = usb2
  lan1 = lan1
  j1 = j1
  UsbStations = {usb1}
  LanStations = {}
  StationOf <- AllUsb
  Jobs = {j1}
  Handlers = {h1, h2, h3}
  MaxOrders = 2
  NoHandler = NoHandler
  NoStation = NoStation
  NoJob = NoJob
PROPERTIES QueuedGetsOutcome StrandedByFault
