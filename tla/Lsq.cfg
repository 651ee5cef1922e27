SPECIFICATION FairSpec

CONSTANTS
  Words <- MCWords
  Line <- MCLine
  RBlock <- MCRBlock
  Scenarios <- AllPrograms
  LQSize = 3
  SQSize = 2
  MaxSn = 6
  MaxRefusals = 1

INVARIANTS
  TypeOK
  ToCommitOnce
  WritebackSound

PROPERTIES
  InOrderMemory
  Completes
