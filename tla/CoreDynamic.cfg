SPECIFICATION FairSpec

CONSTANTS
  Policy <- DynamicPolicy
  EagerEntry <- LazyEntry
  AllowOverlap = TRUE
  Filtered = TRUE
  InFlightThreshold = 1
  MinWork = 1
  RobSize = 2
  SquashWidth = 1
  CommitWidth = 2
  FetchQueueSize = 1
  Programs <- LivePrograms
  WrongPathKinds <- AluOrLoad
  MaxSn <- DynamicBound

INVARIANTS
  OrderInv

PROPERTIES
  Progress
