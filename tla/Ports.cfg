SPECIFICATION Spec
CONSTANTS
  TransferTime = 2
  Lines = {3}
  UiKeys = {}
  QueueMax = 2
INVARIANTS TypeOK TransferIsScheduled ButtonsFollowKeys
PROPERTIES TransferEnds
CHECK_DEADLOCK FALSE
