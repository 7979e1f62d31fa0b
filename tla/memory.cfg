SPECIFICATION Spec
CONSTANTS
  Size = 12
  PageBytes = 4
  RowBytes = 2
  Width = 4
  Addresses <- SomeAddresses
  Lengths <- SomeLengths
  Writes = 2
  LeastShown = 2
INVARIANTS
  DramTypeOK
  PaintsWhatIsWritten
  RowsAreAsLabelled
PROPERTY IsFlatMemory
