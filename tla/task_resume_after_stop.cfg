SPECIFICATION Spec
CONSTANTS
  r1 = r1
  r2 = r2
  c1 = c1
  Runners <- OneRunner
  Clients <- OneClient
  Commands = {"stop"}
  MaxIterations = 2
  MaxRuns = 2
  MaxCommands = 1
INVARIANT StoppedTaskCanBeResumed
CHECK_DEADLOCK FALSE
