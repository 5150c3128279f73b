SPECIFICATION Spec
CONSTANTS
  Devices <- MCDevices
  OneShot <- MCOneShot
  Waits <- MCWaits
  First <- MCFirst
  Raises <- MCRaises
  Bits = {0, 2, 3, 5}
  Costs = {1}
  HaltTime = 1
  PushTime = 2
  Ops <- AllOps
  StackOver = {}
PROPERTIES DispatchSetsPC
