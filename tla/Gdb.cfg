SPECIFICATION Spec
CONSTANTS
  Addrs = {0, 1, 2}
  Isr = 1
  InFlight = 4
INVARIANTS TypeOK ClientInStep NothingIsLost HaltedByGdb BreakpointMissedOnlyByDispatch
PROPERTIES Answered
CHECK_DEADLOCK FALSE
