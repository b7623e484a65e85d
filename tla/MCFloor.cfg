SPECIFICATION Spec
CONSTANTS
    Bins = {b1, b2}
    Receiving = Receiving
    QC = QC
    Damaged = Damaged
    Capacity = 1
    Lines = {l1}
    Holds = {h1, h2}
    Requests = {r1, r2}
    MaxReceived = 2
    MaxAdjusted = 1
    None = None
SYMMETRY MCSymmetry
CHECK_DEADLOCK FALSE
INVARIANTS TypeOK QuarantineBacked WithinCapacity RetiredEmpty HoldsReturnable LandsInOpenBin
