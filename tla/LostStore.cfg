SPECIFICATION Spec

CONSTANTS
  Words <- MCWords
  Line <- MCLine
  RBlock <- MCRBlock
  Scenarios <- OnePortPrograms
  LQSize = 1
  SQSize = 3
  MaxSn = 6
  MaxRefusals = 1

INVARIANTS
  NothingPassedOver
