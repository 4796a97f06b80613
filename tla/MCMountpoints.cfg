SPECIFICATION MountpointsSpec
CONSTANTS
  Points <- MCPoints
  Root = "/"
  Written <- MCWritten
  FileSystems <- MCFileSystems
  Configured <- MCConfigured
  MaxMounts = 3
  MaxRemounts = 2
INVARIANTS
  LabelsOfMeasured
  PlainMountpointsExposed
