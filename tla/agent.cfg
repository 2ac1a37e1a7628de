SPECIFICATION AgentSpec
CONSTANTS
  s1 = s1
  Parts <- AllParts
  Symbols <- OneSymbol
  Files <- TwoFiles
  WalkOrder <- RootLast
  Queries <- SomeQueries
  Planned <- AnySpelling
  Opaque = Opaque
  NoFile = NoFile
  NoMemory = NoMemory
  MaxFiles = 1
  MaxIndexed = 1
  MaxEdits = 2
  MaxCommits = 2
  MaxTasks = 2
  Commands <- SomeCommands
  Declared <- Scripts
  Optional <- OptionalTools
  Typecheckers <- TypecheckTools
  FallbackStage <- FallbackTools
  Projects <- SmallProjects
  MaxIterations = 5
  MaxSteps = 2
  DeveloperSteps = 3
  MaxRejections = 2
  MaxAttempts = 2
  MaxMessages = 2
  MaxChanges = 2
INVARIANT MemoryIsExact
INVARIANT PlanFitsTree
INVARIANT EvidenceIsEarned
INVARIANT HandedOnAsDone
PROPERTY VerificationSettles
PROPERTY ChangesAreAgreed
CHECK_DEADLOCK FALSE
