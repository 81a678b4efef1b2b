CONSTANTS
    ann = ann
    bo = bo
    cy = cy
    di = di
    file = file
    new = new
    People <- MCPeople
    Ids <- MCIds
    Present <- MCPresent
    Lines <- MCLines
    Documents = {d1}
    WithEvidence = {d1}
    h1 = h1
    h2 = h2
    Handlers <- MCHandlers
    Drafters <- MCDrafters
    Leavers <- MCLeavers
    StandIns <- MCStandIns
    Idle = Idle
    Nobody = Nobody
SPECIFICATION Spec
CONSTRAINT MCBounds
SYMMETRY MCSymmetry
INVARIANTS
    FourEyes
    OwnSeatIsOpen
    EvidenceStands
PROPERTY DecisionsStand
