SPECIFICATION WalkSpec
CONSTANTS
  Directories <- MCDirectories
  ScopeNames <- MCScopeNames
INVARIANT StableScopeFound
