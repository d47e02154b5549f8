SPECIFICATION FairSpec
CONSTANTS
    s1 = s1
    retail = retail
    grocery = grocery
    NoEntry = NoEntry
    Callbacks = {c1, c2}
    Selects = {q1, q2}
    Subscribers = {s1}
    Domains = {retail, grocery}
    Registered <- TwoDomains
    MaxRetries = 2
    MaxVersion = 2
INVARIANTS RowDecides OneAddressForAll
PROPERTIES EveryRequestEnds
CHECK_DEADLOCK FALSE
