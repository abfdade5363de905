SPECIFICATION FairSpec
CONSTANTS
    None = None
    MaxProposals = 2
    MaxSessions = 2
    MaxMakerRestarts = 1
CHECK_DEADLOCK FALSE
INVARIANTS
    TypeOK
    AwaitedIsSigned
    CloseRemembered
    OneClose
    TakerWaits
PROPERTIES
    AgreedGoesThrough
