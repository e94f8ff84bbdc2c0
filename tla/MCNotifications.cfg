SPECIFICATION Spec
CONSTANTS
    Recipients = {r1}
    MaxRevision = 2
    Callbacks = {}
    Modes = {"dry_run", "trial"}
    Workers = {w1}
    MaxAttempts = 1
    MaxChanges = 2
    None = None
INVARIANTS
    AcksOfDelivered
    RemindedOnceAfterDelivery
PROPERTIES
    SilencedStaysSilent
    AcksStayInTheirRevision
