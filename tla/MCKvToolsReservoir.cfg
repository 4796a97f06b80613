SPECIFICATION KvSpec
CONSTANTS
  Workers <- MCWorkers
  Initial <- MCInitial
  Count = 2
  Pool = 2
  PageSize = 1
  MaxId = 3
  MaxCommands = 1
  MaxFaults = 0
INVARIANTS
  ReservoirIsLive
CHECK_DEADLOCK FALSE
