SPECIFICATION FairSpec
CONSTANTS
    None = None
    MaxOrders = 2
    Interval = 1
    TakerLookahead = 1
    MaxHour = 2
    MaxCrashes = 1
    Reported = {"LockFinality", "CetTimelockExpired"}
CHECK_DEADLOCK FALSE
PROPERTIES
    CfdAttested
    OrderAnnounced
