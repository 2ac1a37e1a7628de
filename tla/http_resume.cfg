SPECIFICATION ServerSpec
CONSTANTS
  r1 = r1
  r2 = r2
  Requests <- TwoRequests
  Nobody = Nobody
  CodeTTL = 1
  Cooldown = 1
  CodeWindow = 2
  MaxPerWindow = 2
  MaxAttempts = 2
  TokenTTL = 1
  LoginWindow = 1
  LoginMax = 1
  MaxServed = 5
  MaxTime = 2
  t1 = t1
  t2 = t2
  Tasks <- TwoTasks
  MaxSockets = 2
  MaxResumes = 1
  b1 = b1
  b2 = b2
  Browsers <- TwoBrowsers
  Paths <- TwoPlaces
  MaxRows = 3
  MaxSaves = 2
  w1 = w1
  w2 = w2
  Writers <- TwoWriters
  Workspaces <- TwoPlaces
  Limit = 1
  Recent = 1
INVARIANT ReportsFollowCalls
CHECK_DEADLOCK FALSE
