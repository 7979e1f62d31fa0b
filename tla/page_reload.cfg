SPECIFICATION Spec
CONSTANTS
  Files = {f1}
  NoFile = NoFile
  LastCycle = 1
  Views <- PageViews
  ValueBytes <- PageBytes
  OfPes <- PeViews
  Paged <- PagedViews
  Extent <- PageExtent
  PieceValues = 6
  RowValues = 3
  PageRows = 2
  StatedRows <- TwoRows
  LeastRows <- PageLeast
  WindowRows = 2
  MostRows = 2
  MaxInTransit = 1
INVARIANT PageAtRestIsCurrent
CHECK_DEADLOCK FALSE
