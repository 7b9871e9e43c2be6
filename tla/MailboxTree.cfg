SPECIFICATION Spec
CONSTANTS
    None = None
    m1 = m1
    Msg = {m1}
    Box <- MCBox
    Name <- MCName
    Sanitized <- MCSanitized
    Lower <- MCLower
    Collation <- MCCollation
    Position <- MCPosition
    Rank <- MCRank
    Starts <- MCStarts
    MaxVersion = 3
    MaxStops = 1
INVARIANTS TypeOK DirsDistinct DirsNested IndexRebuildable IndexedIsHeld Mirrors
PROPERTIES RefreshPrunes Resumes
CONSTRAINT Explored
CHECK_DEADLOCK FALSE
