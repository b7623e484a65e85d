SPECIFICATION Spec
CONSTANTS
    Bins = {1, 2}
    Skus = {a}
    Takes = {k1}
    MaxTasks = 3
    Requests = {r1}
    MaxQty = 1
    Stock <- MCStock
    MaxMoves = 2
    BatchSize = 1
    None = None
CHECK_DEADLOCK FALSE
INVARIANTS TypeOK OnePending FrozenIsCounted LatestOnly ClosedAccounts
PROPERTY AdjustedToCount
