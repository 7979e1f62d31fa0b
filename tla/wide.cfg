SPECIFICATION Spec
CONSTANTS
  Dim = 3
  UbRows = 14
  AccRows = 12
  HostRows = 14
  TileCount = 2
  HostBytesPerCycle = 4
  Slots = 2
  WeightBytesPerCycle = 5
  TimelineCycles = 3
  Programs <- ArrayPrograms
INVARIANTS
  Wavefront
  PartialSums
  BusyCyclesExact
PROPERTY RunsInProgramOrder
