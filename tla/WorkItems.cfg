SPECIFICATION ArchiveSpec
CONSTANTS
  i1 = i1
  i2 = i2
  i3 = i3
  j1 = j1
  p1 = p1
  p2 = p2
  NoItem = NoItem
  Nobody = Nobody
  Item <- MCItem
  Job <- MCJob
  People <- MCPeople
  Setups <- MCSetups
  Cap = 3
  MaxRev = 2
  MaxWaiting = 1
  MaxSweep = 2
CONSTRAINT MCBounds
SYMMETRY MCSymmetry
INVARIANTS
  TreeStands
  ReportStands
  ClosedMeansDone
PROPERTIES
  HistoryOnlyGrows
