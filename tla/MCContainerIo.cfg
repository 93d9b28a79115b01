CONSTANTS
  v1 = v1
  v2 = v2
  v3 = v3
  View <- MCView
  Nobody = Nobody
  Idle = Idle
  IoLen = 3
  Given = 0
  Limit = 5
  Ask <- MCAsk
  Count <- MCCount
SPECIFICATION MCSpec
INVARIANTS
  WindowsReachTheEnd
  HolderIsInItsWindow
  PiecesAreARun
PROPERTIES
  IsWindowedFile
  PositionsAreTrue
  ThumbnailIsItsBytes
  BuffersHoldTheirBytes
CHECK_DEADLOCK FALSE
