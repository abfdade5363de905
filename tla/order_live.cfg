SPECIFICATION AnswerSpec
CONSTANTS
    None = None
    Takers = {t1, t2}
    Orders = {o1, o2}
    MaxSessions = 2
    MaxConnections = 2
    MaxRestarts = 0
    MaxRequests = 2
    AnnouncementsKnown = TRUE
CHECK_DEADLOCK FALSE
PROPERTIES
    DecisionLearnt
