SPECIFICATION FairSpec
CONSTANTS
  Main = Main
  Accept = Accept
  Free = Free
  Clients = {c1, c2}
  Files = {f1}
  NoFile = NoFile
  NoSnapshot = NoSnapshot
  LastCycle = 2
  MaxSnapshots = 2
INVARIANTS
  TypeOK
  LatestIsTheMachine
  NoThreadOutlives
PROPERTIES
  MachineIsReadAlone
  PagesCatchUp
  PressesAreAnswered
  ShutdownEnds
CHECK_DEADLOCK FALSE
