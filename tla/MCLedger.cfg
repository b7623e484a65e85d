SPECIFICATION Spec
CONSTANTS
    Writers = {t1}
    Workers = {w1, w2}
    Operators = {op}
    Bins = {b1, b2}
    Batches = {x}
    MaxQty = 1
    MaxSeq = 2
    FullPassEvery = 1
    Jumps = {1}
    MaxFaults = 2
    NoBin = NoBin
    Plain = Plain
    Free = Free
    Corruptions <- AnyWrites
INVARIANTS TypeOK ProjectionAgrees QuarantineIsRelapse
PROPERTY ContentsMoveEpoch
SYMMETRY BinSymmetry
