SPECIFICATION FairSpec
CONSTANTS
  Dim = 2
  UbRows = 3
  AccRows = 4
  HostRows = 4
  TileCount = 2
  HostBytesPerCycle = 1
  Slots = 2
  WeightBytesPerCycle = 3
  TimelineCycles = 3
  Programs <- PipelinePrograms
INVARIANTS
  TypeOK
  NoRowConflict
  ReadyTileIsMoving
  CyclesAccounted
  TimelineStartsAtIssue
  DeadlockIsReal
  ErrorsAreTheProgrammers
PROPERTIES
  RunsInProgramOrder
  Stops
