SPECIFICATION KvFairSpec
CONSTANTS
  Workers <- MCWorkers
  Initial <- MCInitial
  Count = 2
  Pool = 2
  PageSize = 1
  MaxId = 3
  MaxCommands = 2
  MaxFaults = 1
INVARIANTS
  TrackedAreLive
  LeaksAreFailures
  WritesAdd
  EmptiedWhenDone
PROPERTIES
  BulkDeleteEnds
CHECK_DEADLOCK FALSE
