SPECIFICATION Spec
CONSTANTS
    u1 = u1
    p1 = p1
    p2 = p2
    Users = {u1}
    Servers = {s1, s2}
    Logins = {l1, l2}
    Challenges = {c1, c2}
    Permissions = {p1, p2}
    ApprovalOf <- OneApproval
    ListedBy <- Listed
    MaxSessions = 2
    None = None
SYMMETRY Symmetry
CHECK_DEADLOCK FALSE
INVARIANTS
    RevokedUsersAreOut
    OneSessionPerChallenge
    SessionsStayInTheirScope
