SPECIFICATION FileSumsSpec
CONSTANTS
  FileNames <- MCNames
  Files = {f, g, d}
  Directories = {d}
  None = None
  MaxSize = 2
  MaxChanges = 3
INVARIANTS
  SumWithinBounds
