SPECIFICATION ProcessFairSpec
CONSTANTS
  Files <- MCFiles
  Values <- MCValues
  Unset <- MCUnset
  Given <- MCGiven
  DefaultAddress = ":8080"
  DefaultCgroup = "host"
  DefaultProc = "host"
  DefaultLogLevel = "info"
  AnyCommand = "*"
  CommonPaths <- MCCommonPaths
  Requests <- MCRequests
INVARIANTS
  SocketDetected
  LoadedIsSound
  RejectedForCause
  EndExplained
PROPERTIES
  StartEnds
  SignalEndsProcess
  HealthAnswered
\* The process ends.
CHECK_DEADLOCK FALSE
