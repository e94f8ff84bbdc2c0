SPECIFICATION FairSpec
CONSTANTS
    Deliveries = {d1, d2}
    Workers = {w1, w2}
    MaxAttempts = 3
    None = None
INVARIANTS
    AtMostOneArrival
    RowsTellTheTruth
PROPERTIES
    KeepsPromise
    DeliverySettles
