SPECIFICATION FairSpec
CONSTANTS
    Runners = {r1, r2}
    MaxAttempts = 2
    MaxRequests = 5
    MaxStarts = 3
    None = None
INVARIANTS
    CompletedMeansBoth
    WithinApproval
    SecondAfterFirst
PROPERTIES
    StoppedStaysSilent
    StopEndsTheRun
CHECK_DEADLOCK FALSE
