SPECIFICATION FairSpec

CONSTANTS
  Programs <- FrontPrograms
  FetchWidth = 2
  FetchQueueSize = 3
  DecodeWidth = 2
  RenameWidth = 2
  DispatchWidth = 1
  CommitWidth = 2
  SquashWidth = 1
  RenameToIEWDelay = 2
  NumROB = 3
  NumIQ = 2
  NumLQ = 1
  NumSQ = 1
  NumRegs = 2
  MaxSquashes <- SquashesOf

INVARIANTS
  TypeOK
  HandshakeSound
  CountsSound
  NothingLost
  SerializeAlone

PROPERTIES
  Completes
