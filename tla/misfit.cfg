SPECIFICATION ReplaySpec
CONSTANTS
  Dim = 1
  UbRows = 4
  AccRows = 4
  HostRows = 4
  TileCount = 1
  HostBytesPerCycle = 1
  Slots = 1
  WeightBytesPerCycle = 1
  TimelineCycles = 2
  Programs <- AndMisfits
  Misfits <- JustTooFar
  Jumps = {3, 12}
INVARIANT BackLands
