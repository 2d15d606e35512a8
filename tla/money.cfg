SPECIFICATION Spec
CONSTANTS
    Customers = {c1, c2}
    Phones = {p1}
    Docs = {d1}
    Forms = {f1}
    Amounts = {1}
    NoOne = NoOne
    MaxPresses = 2
CHECK_DEADLOCK FALSE
INVARIANTS BalanceIsRows PhonesUnique TwiceOnlyIfLost
