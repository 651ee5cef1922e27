SPECIFICATION FairSpec

CONSTANTS
  Scenarios <- IqPrograms
  NumEntries = 3
  TotalWidth = 2
  SquashWidth = 1
  MaxDelays = 1
  SSITSize = 2
  LFSTSize = 2
  ClearPeriod = 3

INVARIANTS
  TypeOK
  EntriesConserved
  QueueSound
  EntryFound
  PredictorSquashEnds

PROPERTIES
  Completes
