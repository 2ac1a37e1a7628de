SPECIFICATION Spec
CONSTANTS
  r1 = r1
  r2 = r2
  c1 = c1
  Runners <- TwoRunners
  Clients <- OneClient
  Commands = {"stop", "rollback"}
  MaxIterations = 1
  MaxRuns = 2
  MaxCommands = 1
INVARIANT CompletedIsEarned
CHECK_DEADLOCK FALSE
