SPECIFICATION WalkFairSpec
CONSTANTS
  Directories <- MCDirectories
  ScopeNames <- MCScopeNames
INVARIANTS
  FoundScopeWasThere
  StableScopesSeen
  ErrorsFromOthers
PROPERTY WalkEnds
