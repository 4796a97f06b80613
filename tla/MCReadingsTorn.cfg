SPECIFICATION ReadingsSpec
CONSTANTS
  FileGroups <- MCCpuStat
  Devices = {}
  MaxCount = 1
  NoLimit = NoLimit
INVARIANTS
  ThrottledWithinPeriods
