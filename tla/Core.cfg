SPECIFICATION Spec

CONSTANTS
  Policy <- PolicyOf
  EagerEntry <- EagerEntryOf
  AllowOverlap = FALSE
  Filtered = FALSE
  InFlightThreshold = 1
  MinWork = 1
  RobSize = 3
  SquashWidth = 1
  CommitWidth = 2
  FetchQueueSize = 1
  Programs <- CorePrograms
  WrongPathKinds <- LoadOrPageFault
  MaxSn <- BoundOf

INVARIANTS
  TypeOK
  ModeAgreement
  SquashSound
  RestoreFirst
  RegsRestored
  ExitSound
  PipelineInv
  NextLoadOfPeriod

PROPERTIES
  NoOverlap
  ArchitecturallyInOrder
