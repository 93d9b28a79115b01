CONSTANTS
  Size = 18
  Files <- MCFiles
  DirMap <- MCDirMap
  RawTypes <- MCRawTypes
  Headers <- MCHeaders
  ParseSubIfd = TRUE
  Strays <- MCStrays
  MaxCount = 90
  MaxDirs = 4
  Unset = Unset
  Nothing = Nothing
SPECIFICATION Spec
INVARIANTS
  DirsAreTheChain
  PointersAreFollowed
  EntriesAreInPlace
PROPERTIES
  CallsReturn
