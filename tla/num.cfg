SPECIFICATION Spec
CONSTANTS
    DaysPerYear = 2
    LastDay = 2
    MaxNumber = 1
    MaxCerts = 3
    ClosedWith = {TRUE}
INVARIANTS
    MintNeverRefused
    CertSeriesGrow
    BillsWithoutGap
CHECK_DEADLOCK FALSE
