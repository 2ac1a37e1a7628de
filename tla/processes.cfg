SPECIFICATION FairSpec
CONSTANTS
  a1 = a1
  a2 = a2
  p1 = p1
  p2 = p2
  Apps <- TwoApps
  Pids <- TwoPids
  NoApp = NoApp
  Free = Free
  Other = Other
  Alien = Alien
  MaxStarts = 2
  MaxOthers = 1
INVARIANT TypeOK
INVARIANT MarkedIsGone
PROPERTY EveryStopEnds
CHECK_DEADLOCK FALSE
