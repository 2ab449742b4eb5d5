SPECIFICATION Spec
CONSTANTS
  Strings <- MCStrings
  Numbers <- MCNumbers
  Vectors <- MCVectors
  Raw <- MCRaw
  Pieces <- MCPieces
  ChunkSizes = {27, 56}
  ReadSizes = {30, 60}
  MaxAdds = 1
  MaxCalls = 5
INVARIANT ReadsBackStream
PROPERTY BuilderSpec
CHECK_DEADLOCK FALSE
