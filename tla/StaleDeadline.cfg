SPECIFICATION Spec

CONSTANTS
  Policy <- MinimumWorkPolicy
  EagerEntry <- EntryAtOnce
  AllowOverlap = FALSE
  Filtered = FALSE
  InFlightThreshold = 1
  MinWork = 1
  RobSize = 2
  SquashWidth = 1
  CommitWidth = 2
  FetchQueueSize = 1
  Programs <- MemoryPrograms
  WrongPathKinds <- AluOrLoad
  MaxSn <- MinimumWorkBound

INVARIANTS
  ExitCauseOfPeriod
