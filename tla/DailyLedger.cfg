CONSTANTS
    m1 = m1
    m2 = m2
    plain = plain
    seen = seen
    None = None
    Msg = {m1, m2}
    Meta = {plain, seen}
    FirstDay = 2
    LastDay = 3
    MaxChanges = 3
    MaxStops = 1
SYMMETRY Symmetry
SPECIFICATION Spec
INVARIANT TypeOK
INVARIANT AtIsThatDay
INVARIANT FoundOnItsDay
INVARIANT IndexIsCommitted
PROPERTY Sealed
