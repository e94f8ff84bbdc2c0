SPECIFICATION FairSpec
CONSTANTS
    x = x
    y = y
    Ids = {x, y}
    LastRevision <- Revised
    Families = {f}
    FamilyOf <- OneFamily
    Workers = {w1, w2}
    MaxAttempts = 2
    MaxBatches = 3
CHECK_DEADLOCK FALSE
INVARIANTS
    NoLostUpdate
    DoneIsAccounted
PROPERTIES
    SettledIsFinal
    RecordsSettle
