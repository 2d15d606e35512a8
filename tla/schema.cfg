\* The columns an older database may lack; two customers of the old program,
\* a test and two certificates that may share a bill number.
CONSTANTS
    Gaps = {"version", "kt"}
    People = {p, q}
    OldTests = {t}
    OldCerts = {c, k}
    Bills = {b}
    NoBill = NoBill
    MaxRuns = 3
    MaxEdits = 3
SPECIFICATION DatabaseSpec
INVARIANTS Complete OnceUpAlwaysUp ImportedWhole
PROPERTIES ColumnsKept
CHECK_DEADLOCK FALSE
