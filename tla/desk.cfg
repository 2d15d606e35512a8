SPECIFICATION BoardSpec
CONSTANTS
    Desks = {d1}
    Cards = {t1, c1}
    Tests = {t1}
    None = None
    Hands = {h1, h2}
    MaxActs = 2
    \* the windows rest
    Windows = {}
    Customers = {}
    Known = {}
    Items = {}
    MaxFills = 0
    MaxPresses = 0
CHECK_DEADLOCK FALSE
INVARIANTS BoardsSettle
PROPERTIES ReadingsKept
