CONSTANTS
    m1 = m1
    m2 = m2
    inbox = inbox
    work = work
    Raw = Raw
    None = None
    Msg = {m1, m2}
    Box = {inbox, work}
    Meta <- SmallMeta
    Wanted <- SmallWanted
    Day <- TwoDays
    Today = 2
    Git = TRUE
    OmitsTransient = FALSE
    LosesAnchor = FALSE
    TornSaves = FALSE
    MaxVersion = 3
    MaxCrashes = 0
    MaxFails = 0
    MaxCancels = 1
SPECIFICATION Spec
INVARIANT TypeOK
INVARIANT CursorSound
 
PROPERTY ImplementsMirror
