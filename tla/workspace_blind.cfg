SPECIFICATION Spec
CONSTANTS
  code = code
  NoFile = NoFile
  Paths <- OneFile
  Granted <- Full
  Risks = {1, 3}
  MaxEdits = 2
  MaxRuns = 2
PROPERTY NoBlindWrite
CHECK_DEADLOCK FALSE
