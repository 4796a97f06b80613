SPECIFICATION SmapsSpec
CONSTANTS
  MaxAddress = 3
  Names <- MCNames
  NoName <- MCNoName
  Anon <- MCAnon
  Permissions = {r, w}
INVARIANT PermsApart
