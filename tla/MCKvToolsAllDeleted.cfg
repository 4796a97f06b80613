SPECIFICATION KvSpec
CONSTANTS
  Workers <- MCWorkers
  Initial <- MCInitial
  Count = 2
  Pool = 2
  PageSize = 1
  MaxId = 3
  MaxCommands = 1
  MaxFaults = 1
INVARIANTS
  AllDeleted
CHECK_DEADLOCK FALSE
