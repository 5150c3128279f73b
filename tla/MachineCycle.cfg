SPECIFICATION FairSpec
CONSTANTS
  Devices <- MCDevices
  OneShot <- MCOneShot
  Waits <- MCWaits
  First <- MCFirst
  Raises <- MCRaises
  Bits = {0, 2, 3}
  Costs = {1, 3}
  HaltTime = 1
  PushTime = 2
  Ops <- AllOps
  StackOver = {"IE"}
INVARIANTS TypeOK NoTimeTravel
PROPERTIES NoLostRequest HaltWakes Served
