SPECIFICATION ItemsSpec
CONSTANTS
    Grosses = {12345}
    TestWeights = {0, 12346}
    Purities = {0, 9167}
    Rates = {0, 6543}
    MaxRows = 3
    MaxFaults = 1
    \* nothing is printed
    Tests = {}
    Metals = {}
    Photos = {}
    Desks = {}
    MaxChanges = 0
    MaxNames = 0
CHECK_DEADLOCK FALSE
INVARIANTS
    TotalsAreSums
    WindowNeverStrands
    NumberedOnce
