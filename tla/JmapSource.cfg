CONSTANTS
    m1 = m1
    m2 = m2
    inbox = inbox
    work = work
    old = old
    new = new
    None = None
    Unfiled = Unfiled
    Msg = {m1, m2}
    Box = {inbox, work}
    Name = {old, new}
    Rank <- InboxFirst
    PageSize = 1
    ChunkSize = 1
    MaxTime = 3
SYMMETRY Symmetry
SPECIFICATION Spec
INVARIANT TypeOK
INVARIANT CursorCovers
