SPECIFICATION Spec
CONSTANTS
    None = None
    Dlcs = {d1}
    Attestations = {a1}
    Settlements = {c1, c2}
    Cets <- MCCets
    Role = "taker"
    CetTimelock = 2
    RefundTimelock = 3
    MaxCrashes = 2
    MaxFailures = 1
    MaxFetches = 1
    MaxProposals = 2
CHECK_DEADLOCK FALSE
INVARIANTS
    EventsCovered
