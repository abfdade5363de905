SPECIFICATION Spec
CONSTANTS
    None = None
    Coin = 30
    Leverage = 2
    NPayouts = 4
    Prices = {10, 13}
    Quantities = {1, 40}
    Quotes = {5, 13, 27}
    FitError = 1
    MaxCloses = 2
CHECK_DEADLOCK FALSE
INVARIANTS
    EveryPriceOnce
    LockCoversPayouts
    ShownIsPaid
