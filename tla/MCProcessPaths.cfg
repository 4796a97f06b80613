SPECIFICATION ProcessSpec
CONSTANTS
  Files <- MCFiles
  Values <- MCValues
  Unset <- MCUnset
  Given <- MCGiven
  DefaultAddress = ":8080"
  DefaultCgroup = "host"
  DefaultProc = "host"
  DefaultLogLevel = "info"
  AnyCommand = "*"
  CommonPaths <- MCCommonPaths
  Requests <- MCRequests
INVARIANT PathsExist
CHECK_DEADLOCK FALSE
