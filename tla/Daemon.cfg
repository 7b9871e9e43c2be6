CONSTANTS
    c1 = c1
    Change = {c1}
    N = 3
    Supported <- FirstAndLast
    DemotionThreshold = 2
    MaxDrops = 3
    QuietPeriod = 2
    MaxBatchDelay = 3
    SafetyPoll = 5
    ReconnectMin = 2
    ReconnectMax = 3
    ScheduleIn <- AfterThePoll
    MaxFails = 1
CHECK_DEADLOCK FALSE
SPECIFICATION FairSpec
INVARIANT TypeOK
INVARIANT GivesUpOnlyWhenAllFailed
INVARIANT Prompt
INVARIANT StopsPromptly
PROPERTY CatchesUp
