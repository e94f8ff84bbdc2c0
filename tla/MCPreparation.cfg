SPECIFICATION PreparationSpec
CONSTANTS
    Terminals = {t1, t2}
    Secrets = {k1, k2}
    Lost = Lost
    Starts = {s1, s2}
    Tenants = {a, b}
    Null = Null
INVARIANTS
    OpensItsDatabase
    OneStartOneTenant
PROPERTIES
    ClockStartsInstalled
SYMMETRY Symmetry
CHECK_DEADLOCK FALSE
