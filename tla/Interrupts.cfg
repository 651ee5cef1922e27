SPECIFICATION FairSpec

CONSTANTS
  Scenarios <- AllPrograms
  FetchWidth = 2
  CommitWidth = 2
  SquashWidth = 1
  RobSize = 2
  QueueSize = 1

INVARIANTS
  FetchSound

PROPERTIES
  PreciseStates
  Settles
