CONSTANTS
    m1 = m1
    m2 = m2
    inbox = inbox
    work = work
    Raw = Raw
    None = None
    Msg = {m1, m2}
    Box = {inbox, work}
    Meta <- TwoPlaces
    Wanted <- TwoPlacesWanted
    Day <- TwoDays
    Today = 2
    Git = TRUE
    OmitsTransient = FALSE
    LosesAnchor = FALSE
    TornSaves = TRUE
    MaxVersion = 3
    MaxCrashes = 0
    MaxFails = 1
    MaxCancels = 0
SPECIFICATION Spec
INVARIANT BackfilledDaysHeld
