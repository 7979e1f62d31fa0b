SPECIFICATION FairReplay
CONSTANTS
  Dim = 1
  UbRows = 4
  AccRows = 4
  HostRows = 4
  TileCount = 1
  HostBytesPerCycle = 1
  Slots = 1
  WeightBytesPerCycle = 1
  TimelineCycles = 2
  Programs <- Sound
  Misfits = {}
  Jumps = {3, 12}
PROPERTIES
  ReplayIsExact
  CallsReturn
