CONSTANTS
    c1 = c1
    c2 = c2
    c3 = c3
    Call = {c1, c2, c3}
    Threshold = 3
    MaxAttempts = 2
    Outcome <- AnyOutcome
    Drops = TRUE
CHECK_DEADLOCK FALSE
SPECIFICATION FairSpec
INVARIANT TypeOK
INVARIANT OpensTogether
PROPERTY CallsFinish
