SPECIFICATION Spec
CONSTANTS
    Requests = {q1}
    Sealing = TRUE
    MaxFaults = 2
CHECK_DEADLOCK FALSE
INVARIANTS ReportedIsWhole NeverWithout
PROPERTIES NoneAdmitted LockReleased
