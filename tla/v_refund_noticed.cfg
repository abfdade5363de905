SPECIFICATION FairSpec
CONSTANTS
    None = None
    Dlcs = {d1}
    Attestations = {a1}
    Settlements = {c1}
    Cets <- MCCets
    Role = "maker"
    CetTimelock = 2
    RefundTimelock = 3
    MaxCrashes = 0
    MaxFailures = 0
    MaxFetches = 1
    MaxProposals = 1
CHECK_DEADLOCK FALSE
PROPERTIES
    RefundIsNoticed
