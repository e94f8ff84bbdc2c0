SPECIFICATION Spec
CONSTANTS
    Runners = {r1, r2}
    MaxAttempts = 2
    MaxRequests = 5
    MaxStarts = 2
    None = None
INVARIANTS
    LookedUpOnce
    AcceptedIsTrue
PROPERTIES
    OnceInItsWindow
    UnknownStopsAll
SYMMETRY Symmetry
CHECK_DEADLOCK FALSE
