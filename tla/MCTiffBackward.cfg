CONSTANTS
  Size = 18
  Files <- MCBackward
  DirMap <- MCDirMap
  RawTypes <- MCRawTypes
  Headers <- MCHeaders
  ParseSubIfd = TRUE
  Strays <- MCStrays
  MaxCount = 90
  MaxDirs = 4
  Unset = Unset
  Nothing = Nothing
SPECIFICATION Spec
PROPERTIES
  BackwardLinksAreDealtWith
