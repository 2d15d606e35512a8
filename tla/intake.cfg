SPECIFICATION Spec
CONSTANTS
    Windows = {"GT", "certificate"}
    Customers = {a, b}
    Known = {a}
    None = None
    Items = {i}
    MaxFills = 2
    MaxPresses = 2
CHECK_DEADLOCK FALSE
INVARIANTS CreatedOnce ToldIsCreated ForTheChosen
