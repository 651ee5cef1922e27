SPECIFICATION Spec

CONSTANTS
  Words <- MCWords
  Line <- MCLine
  RBlock <- MCRBlock
  Scenarios <- RefusedPrograms
  LQSize = 2
  SQSize = 2
  MaxSn = 6
  MaxRefusals = 1

INVARIANTS
  DeletedWhenIdle
