SPECIFICATION FairSpec
CONSTANTS
    None = None
    MaxOrders = 2
    Margins = {1, 2}
    Events = {1, 2}
    MaxFailures = 1
CHECK_DEADLOCK FALSE
INVARIANTS
    TypeOK
    ContractsMatch
    LockIsBacked
PROPERTIES
    SetupEnds
    SetupSucceeds
