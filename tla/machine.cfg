SPECIFICATION MachineSpec
CONSTANTS
  MaxShifts = 2
  NotAsked = NotAsked
  Machines <- SomeMachines
  Languages <- Servers
  Internal <- Inside
  Constant <- Runtime
  ServerIds <- OtherIds
  Capacity = 2
  MaxOther = 2
  Paths <- TwoPaths
  Existing <- OnePath
  MaxActivities = 2
  Spellings <- Forms
  MaxChanges = 3
INVARIANT DiagnosisIsTrue
INVARIANT CallIsClean
INVARIANT AccountIsTrue
PROPERTY CallReturns
PROPERTY NothingSpins
CHECK_DEADLOCK FALSE
