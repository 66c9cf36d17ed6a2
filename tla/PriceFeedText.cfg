SPECIFICATION Spec
CONSTANTS
    Keys = {eth, usdc}
    Calls = {q}
    Quotes = {q}
    TTL = 2
    MaxTime = 4
INVARIANT PricesAreNumbers
CHECK_DEADLOCK FALSE
