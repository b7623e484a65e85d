SPECIFICATION Spec
CONSTANTS
    Orders = {1}
    Roots = {1}
    Holds = {11, 12, 13}
    Waves = {21}
    MaxSlices = 5
    Bins = {31, 32, 33, 34}
    Requests = {41}
    None = None
    MaxQty = 3
    Stock <- MCStock
    First = 1
    Others = 1
CHECK_DEADLOCK FALSE
INVARIANTS
    StopsBehindHold
