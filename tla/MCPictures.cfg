CONSTANTS
  TiledPictures <- MCTiled
  SlicedPictures <- MCSliced
  Packings <- MCPackings
  CodedPictures <- MCCoded
  Garbage = Garbage
  Pending = Pending
  MaxValues = 17
  PixelValues = 1024
  Block = 4
  FarApart = 3
  Chunks = 4
  Lengths1 = {0, 5, 8, 16}
  Tops = {0, 255}
  Lows = {15}
  ByteBits = 2
  WordBytes = 4
  MaxTaken = 14
  DhtSegments <- MCDht
  BitBuffers <- MCBitBuffers
  Jpegs <- MCJpegs
  ZeroDifference = 1
  SampleValues = 16
  RestartNumbers = 2
  CountTables <- MCCountTables
  NodeTables <- MCNodeTables
  Documented <- MCDocumented
  PefTables <- MCPefTables
  CacheBits = 4
  RawImages <- MCRaws
  Spot = 4
SPECIFICATION MCSpec
INVARIANTS
  PixelsAreOfTheirTile
  ValuesAreInSliceOrder
  ValuesAreWherePacked
  PixelsArePredicted
  ChunksHoldTheirPixels
  BitsAreTheData
  DifferencesAreTheirBits
  PictureIsPredicted
  CodesLeadToTheirValues
  PixelsAreInterpolated
CHECK_DEADLOCK FALSE
