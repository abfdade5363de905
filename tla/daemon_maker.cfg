SPECIFICATION FairSpec
CONSTANTS
    None = None
    Dlcs = {d1}
    Attestations = {a1}
    Settlements = {c1}
    Cets <- MCCets
    Role = "maker"
    CetTimelock = 2
    RefundTimelock = 3
    MaxCrashes = 1
    MaxFailures = 1
    MaxFetches = 2
    MaxProposals = 1
CHECK_DEADLOCK FALSE
INVARIANTS
    TypeOK
    RecordedOnChain
    EventsCovered
PROPERTIES
    FinalStatesAreFinal
    LifecycleRefined
    NoRefundOverCetUndisturbed
    CommittedPaysOut
    LockedIsNoticed
    PublishedCetCloses
    CloseIsNoticedUnlessAttested
