SPECIFICATION FairSpec
CONSTANTS
    m1 = m1
    m2 = m2
    Callers = {c1, c2}
    NoOne = NoOne
    Approvals = {m1, m2}
    KindOf <- Kind
    LastDay = 2
    MaxCalls = 2
    Reservation = 2
    ScopeLimit <- Scope
    DailyLimit <- Daily
    Reserve <- Urgent
    Rank <- ByDay
CHECK_DEADLOCK FALSE
INVARIANTS
    LedgerAddsUp
    WithinLimits
PROPERTIES
    BlockedForGood
    TransactionsEnd
