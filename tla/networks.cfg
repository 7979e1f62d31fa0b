SPECIFICATION CompiledSpec
CONSTANTS
  Dim = 2
  UbRows = 20
  AccRows = 4
  HostRows = 20
  TileCount = 12
  HostBytesPerCycle = 3
  Slots = 2
  WeightBytesPerCycle = 3
  TimelineCycles = 1
  PrefetchTiles = 2
  Programs <- CompiledPrograms
  Networks <- SmallNetworks
  Convolutions <- SmallConvolutions
INVARIANT ResultsAreTheReference
PROPERTY CompiledProgramsHalt
