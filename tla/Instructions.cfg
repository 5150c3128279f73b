SPECIFICATION Spec
CONSTANTS
  Ram <- MCRam
  Device <- MCDevice
  Imm <- MCImm
  Starts <- MCStarts
INVARIANTS TypeOK ArithmeticIsExact DecimalIsExact FailureHasACause TimeCoversAccesses
PROPERTIES StackIsLifo
CHECK_DEADLOCK FALSE
