CONSTANTS
    m1 = m1
    m2 = m2
    inbox = inbox
    work = work
    Raw = Raw
    None = None
    Msg = {m1, m2}
    Box = {inbox, work}
    Meta <- JustMoves
    Wanted <- JustMoves
    Day <- TwoDays
    Today = 2
    Git = TRUE
    OmitsTransient = FALSE
    LosesAnchor = FALSE
    TornSaves = FALSE
    MaxVersion = 4
    MaxCrashes = 1
    MaxFails = 0
    MaxCancels = 0
SPECIFICATION Spec
INVARIANT NoMessageLost
INVARIANT WellFiled
PROPERTY RemovalJustified
