SPECIFICATION Spec
CONSTANTS
    Tests = {t1}
    Metals = {c1}
    Photos = {p1}
    Desks = {k1}
    MaxChanges = 2
    MaxNames = 1
INVARIANTS
    CertPaperIsLive
    DonePrintable
PROPERTIES
    OneAnswer
CHECK_DEADLOCK FALSE
