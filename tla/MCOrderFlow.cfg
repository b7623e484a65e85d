SPECIFICATION Spec
CONSTANTS
    Orders = {1, 2}
    Roots = {1}
    Holds = {11, 12, 13}
    Waves = {21, 22}
    MaxSlices = 3
    Bins = {31, 32}
    Requests = {41, 42}
    None = None
    MaxQty = 3
    Stock <- MCStock
    First = 2
    Others = 1
CHECK_DEADLOCK FALSE
INVARIANTS
    TypeOK
    LineBacked
    PlannedWithinLine
    FamilyAccounts
    UnitsAccounted
