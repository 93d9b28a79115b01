CONSTANTS
  Sources <- MCSources
  Asked <- MCAsked
  MaxU32 = 4
  Unset = Unset
  f1 = f1
  f2 = f2
  b1 = b1
  b2 = b2
  b3 = b3
  b4 = b4
  Files = {f1, f2}
  Boxes = {b1, b2, b3, b4}
  Unopened = Unopened
  Dirs <- MCDirs
  Entries <- MCEntries
  Provided <- MCMatrices
  BuiltIn <- MCMatrices
  Sizes = {0, 1, 2, 3, 4}
  OpenedFiles <- MCOpenedFiles
  Ways <- MCWays
SPECIFICATION MCSpec
SYMMETRY MCSymmetry
INVARIANTS
  ChoiceIsNearest
  LentPointersAreLive
  EntriesComeInOrder
  ValuesAreTheEntrys
  OpenedAsOneKind
PROPERTIES
  GivenIsTheFilesNearest
  RefusedOnlyWhenNone
CHECK_DEADLOCK FALSE
