SPECIFICATION Spec
CONSTANTS
  RegMax = 2
  Select = {0, 1, 2, 3}
  CyclesOf <- MCCyclesOf
  DivCycles = 3
INVARIANTS TypeOK ExactPeriod
PROPERTIES TimerWakesHalted ImplementsCountdown
