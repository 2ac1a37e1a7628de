SPECIFICATION AgentSpec
CONSTANTS
  s1 = s1
  Parts <- ConversationAlone
  Symbols <- OneSymbol
  Files <- TwoFiles
  WalkOrder <- RootLast
  Queries <- SomeQueries
  Planned <- AnySpelling
  Opaque = Opaque
  NoFile = NoFile
  NoMemory = NoMemory
  MaxFiles = 1
  MaxIndexed = 1
  MaxEdits = 2
  MaxCommits = 2
  MaxTasks = 1
  Commands <- SomeCommands
  Declared <- Scripts
  Optional <- OptionalTools
  Typecheckers <- TypecheckTools
  FallbackStage <- FallbackTools
  Projects <- SmallProjects
  MaxIterations = 5
  MaxSteps = 2
  DeveloperSteps = 3
  MaxRejections = 2
  MaxAttempts = 2
  MaxMessages = 3
  MaxChanges = 2
PROPERTY PlanIsConsumed
CHECK_DEADLOCK FALSE
