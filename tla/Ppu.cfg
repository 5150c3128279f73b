SPECIFICATION Spec
CONSTANTS
  Height = 2
  VLines = 2
  MapLines = 3
  RegMax = 5
  OamTime = 80
  TransferTime = 168
  CheckTime = 208
  VBlankTime = 456
  Garbage <- MCGarbage
INVARIANTS TypeOK LyFollowsLine StatShowsState RefreshIsPeriodic WindowLineInMap
PROPERTY LycWakesHalted
