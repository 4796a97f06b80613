SPECIFICATION FileSumsSpec
CONSTANTS
  FileNames <- MCNames
  Files = {f, g, d}
  Directories = {d}
  None = None
  MaxSize = 2
  MaxChanges = 2
INVARIANT
  NoFileTwice
