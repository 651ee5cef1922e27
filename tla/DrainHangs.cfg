SPECIFICATION FairSpec

CONSTANTS
  Scenarios <- DrainPrograms
  FetchWidth = 2
  CommitWidth = 2
  SquashWidth = 1
  RobSize = 2
  QueueSize = 2

PROPERTIES
  DrainCompletes
