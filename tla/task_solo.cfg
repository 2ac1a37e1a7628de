SPECIFICATION FairSpec
CONSTANTS
  r1 = r1
  r2 = r2
  c1 = c1
  Runners <- OneRunner
  Clients <- OneRunner
  Commands = {"stop", "rollback"}
  MaxIterations = 3
  MaxRuns = 4
  MaxCommands = 1
INVARIANT TypeOK
INVARIANT ApprovalMatchesStatus
INVARIANT LoopOwnsBranch
PROPERTY FileTellsLifecycle
PROPERTY EveryProcessEnds
CHECK_DEADLOCK FALSE
