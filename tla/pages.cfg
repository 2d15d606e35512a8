\* One browser or two; 'admin' and one more user; a page of three tests.
CONSTANTS
    Users = {a, c}
    Admin = a
    NoOne = NoOne
    Tabs = {t1, t2}
    Browsers = {b1, b2}
    MaxActs = 3
    Tests = {g, h, s}
    Gold = {g, h}
    NoTest = NoTest
    Rows = {1}
    MaxEntries = 6
SPECIFICATION PagesSpec
INVARIANTS
    ShownIsOwner
    PasswordAsTold
    ToldIsSaved
    TypedKept
SYMMETRY Symmetry
CHECK_DEADLOCK FALSE
