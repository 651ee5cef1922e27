SPECIFICATION Spec

CONSTANTS
  Scenarios <- LostPrograms
  NumEntries = 3
  TotalWidth = 2
  SquashWidth = 1
  MaxDelays = 1
  SSITSize = 2
  LFSTSize = 2
  ClearPeriod = 3

INVARIANTS
  BarrierEntryFound

