CONSTANTS
  Mp4Files <- MCMp4Files
  CrwFilesRead <- MCCrwFiles
  U32Values = 128
  StackDepth = 4
  MaxIndex = 3
  LongTable = 2
  Pictures <- MCPictures
  Patterns <- MCPatterns
  BlockSize = 12
  WidthStep = 6
  MaxSize = 36
  Lag = 2
  Zero = Zero
  Depths = {2, 4}
  Bases = {0, 3}
  Points <- MCPoints
  LeastSlope = 1
  Around = {0, 1, 2, 3, 15}
  MinValue = 4
  RawFiles <- MCRawFiles
  TableFiles <- MCTableFiles
  RafDataTag = 8
  U32Max = 511
  Wide = 16
  Alignment = 4
  RafHeader = 4
  ChunkSize = 16
  CurveSize = 8
SPECIFICATION MCSpec
INVARIANTS
  HeadersAreAtBoxes
  TracksAreTheirBoxes
  RawIsTheThirdTracks
  CallsComeToAnEnd
  NeighboursAreDecoded
  PictureIsItsSamples
  EveryValueHasACode
  WholeFilesLoadWhole
  TableIsItsRecords
CHECK_DEADLOCK FALSE
