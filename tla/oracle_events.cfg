SPECIFICATION Spec
CONSTANTS
    None = None
    MaxOrders = 2
    Interval = 1
    TakerLookahead = 1
    MaxHour = 2
    MaxCrashes = 1
    Reported = {"LockFinality", "CommitFinality", "CloseFinality", "CetTimelockExpired",
                "CetFinality", "RefundTimelockExpired", "RefundFinality"}
CHECK_DEADLOCK FALSE
INVARIANTS
    NothingMissed
PROPERTIES
    StoreRefined
