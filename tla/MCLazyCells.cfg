CONSTANTS
  View = {"file", "stream", "decoder", "meta", "cfa"}
  Number <- MCNumber
  Lost = Lost
  Files <- MCFiles
  Size = 4
  Unset = Unset
  None = None
SPECIFICATION LazySpec
INVARIANTS
  DecoderStartsAtItsStream
  FailuresAreContained
PROPERTIES
  ListIsTheSame
