SPECIFICATION FewRollbacks
CONSTANTS
  code = code
  NoFile = NoFile
  Paths <- OneFile
  Granted <- Full
  Risks = {1, 3}
  MaxEdits = 2
  MaxRuns = 2
INVARIANT HeldNeedsYes
INVARIANT UserWorkKept
PROPERTY UserBranchKept
PROPERTY CheckpointSeals
PROPERTY WarnedBeforeOverwrite
CHECK_DEADLOCK FALSE
