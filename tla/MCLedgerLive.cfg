SPECIFICATION LiveSpec
CONSTANTS
    Writers = {t1}
    Workers = {w1}
    Operators = {op}
    Bins = {b1, b2}
    Batches = {}
    MaxQty = 1
    MaxSeq = 3
    FullPassEvery = 2
    Jumps = {}
    MaxFaults = 2
    NoBin = NoBin
    Plain = Plain
    Free = Free
    Corruptions <- LosingWrites
PROPERTY TouchedRepaired
