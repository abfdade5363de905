SPECIFICATION Spec
CONSTANTS
    None = None
    Takers = {t1, t2}
    Orders = {o1, o2}
    MaxSessions = 1
    MaxConnections = 2
    MaxRestarts = 1
    MaxRequests = 4
    AnnouncementsKnown = FALSE
SYMMETRY Interchangeable
CHECK_DEADLOCK FALSE
INVARIANTS
    TypeOK
    MakerSetupRuns
    VerdictsAgree
    FeedsAgree
PROPERTIES
    DecisionRefined
