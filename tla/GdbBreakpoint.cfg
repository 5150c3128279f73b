SPECIFICATION Spec
CONSTANTS
  Addrs = {0, 1}
  Isr = 1
  InFlight = 3
INVARIANTS BreakpointsStop
CHECK_DEADLOCK FALSE
