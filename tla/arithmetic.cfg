SPECIFICATION Spec
CONSTANTS
  ByteHalf = 2
  IntHalf = 128
  Shifts <- SmallShifts
  Scale <- Powers
  Psums <- SmallPsums
  Sizes = {2, 3}
  MaxAdds = 2
INVARIANTS
  ColumnTypeOK
  SumsAreExact
  WindowsAreTheReference
PROPERTY ValuesAreTheReference
