SPECIFICATION FairSpec
CONSTANTS
    None = None
    Takers = {t1, t2}
    Orders = {o1}
    MaxSessions = 1
    MaxConnections = 2
    MaxRestarts = 0
    MaxRequests = 4
    AnnouncementsKnown = TRUE
CHECK_DEADLOCK FALSE
PROPERTIES
    AcceptGoesOn
