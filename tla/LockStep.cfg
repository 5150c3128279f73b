SPECIFICATION Spec
CONSTANTS
  Devices <- MCDevices
  OneShot <- MCOneShot
  Waits <- MCWaits
  First <- MCFirst
  Raises <- MCRaises
  Bits = {0, 2, 3, 5}
  Costs = {1, 3}
  HaltTime = 1
  PushTime = 2
  Ops = {"plain", "ei", "di", "storeIF", "storeIE"}
  StackOver = {"IE", "IF"}
INVARIANTS LateByOneInstruction
PROPERTIES ImplementsLockStep
