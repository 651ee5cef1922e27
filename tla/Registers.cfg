SPECIFICATION Spec

CONSTANTS
  NumArch = 2
  NumPhys = 4
  RobSize = 3
  SquashWidth = 1
  RenameWidth = 2
  FrontDelay = 1
  WbBacklog = 1
  Programs <- AllPrograms
  MaxSn = 6

INVARIANTS
  TypeOK
  RegsConserved
  HistoryChain
  RegsHeld
  SourcesTrue
  PoisonSound

PROPERTIES
  RegistersInOrder
