SPECIFICATION ReadingsSpec
CONSTANTS
  FileGroups <- MCFileGroups
  Devices <- MCDevices
  MaxCount = 1
  NoLimit = NoLimit
INVARIANTS
  PeakCoversCurrent
  HeldDuringScrape
  ReadTogether
  PresentIsSent
  RegistryAccepts
