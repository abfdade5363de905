SPECIFICATION Spec
CONSTANTS
    None = None
    MaxKeys = 2
    MaxRestarts = 1
    MaxTimeouts = 1
CHECK_DEADLOCK FALSE
INVARIANTS
    TypeOK
    SameHistory
    RevocationsHeld
    RollOverAgreed
    CommitIsOfItsHistory
