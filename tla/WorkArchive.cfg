SPECIFICATION ArchiveSpec
CONSTANTS
  i1 = i1
  i2 = i2
  i3 = i3
  j1 = j1
  j2 = j2
  p1 = p1
  NoItem = NoItem
  Nobody = Nobody
  Item <- MCItem
  Job <- MCJob
  People <- MCPeople
  Setups <- MCSetups
  Cap = 2
  MaxRev = 2
  MaxWaiting = 0
  MaxSweep = 2
CONSTRAINT MCBounds
SYMMETRY MCSymmetry
INVARIANTS
  CapHolds
  InOnePlace
  TakenIsNotListed
  FamilyIsNotListed
PROPERTIES
  LeavesAsItStands
