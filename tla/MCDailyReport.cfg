SPECIFICATION FairSpec
CONSTANTS
    pair = pair
    single = single
    Rules <- TheRules
    Approval <- Always
    MaxAge = 2
    Trusted <- TrustedWire
    Today <- ThisDay
    Files = {pair, single}
    Sheet <- Sheets
    Line <- Lines
    Previews = {1, 2}
    Attempts = 2
    NewsIds = {1}
    LastRevision = 2
    Wording <- Corrected
    MaxClock = 2
    DueAt = 1
    MaxFailures = 1
    MaxArrivals = 2
CHECK_DEADLOCK FALSE
INVARIANTS
    FactsWereCurrent
    ChangesAreUndisputed
    ImportsAddUp
PROPERTIES
    ReportIsFinal
    DueReportAppears
