SPECIFICATION ManagerSpec
CONSTANTS
    IPs = {i1, i2}
    Slots = {p1, p2}
    None = None
    MaxActs = 3
    \* no backup is due
    Requests = {}
    Sealing = FALSE
    MaxFaults = 0
CHECK_DEADLOCK FALSE
INVARIANTS NoStrays
PROPERTIES LastPressPrevails AddressFollowed
