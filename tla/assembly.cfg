SPECIFICATION AsmSpec
CONSTANTS
  Sources <- AllSources
  RowBytes = 2
  TileRows = 2
  LastAddress = 1
INVARIANTS
  WordsMeanTheirLines
  BytesLandWhereTheSourceSays
  TextReadsBack
CHECK_DEADLOCK FALSE
