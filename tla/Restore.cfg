SPECIFICATION Spec
CONSTANTS
    None = "none"
    Box <- MCBox
    Parent <- MCParent
    Name <- MCName
    Role <- MCRole
    Msg <- MCMsg
    FiledUnder <- MCFiledUnder
    DirectoryOf <- MCDirectoryOf
    MessageId <- OwnIds
    Received <- MCReceived
    Size <- MCSize
    Matching <- MCMsg
    FromGit = TRUE
    Prefixes <- AnyCase
    Dedupe = TRUE
    Lower <- MCLower
    Segments <- MCSegments
    Accounts <- MCAccounts
    Contents <- OneDamaged
    OwnerNames <- MCOwnerNames
    MaxRuns = 3
    MaxFaults = 1
    MaxOwner = 1
INVARIANTS
    TypeOK
    MappingFaithful
    NoDuplicate
    ImportedInPlace
    CleanRunSucceeds
    CompleteMeansAll
PROPERTIES
    DryRunForetells
CHECK_DEADLOCK FALSE
