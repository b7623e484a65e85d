SPECIFICATION Spec
CONSTANTS
    Clients = {c1, c2}
    Instances = {i1}
    Rows = {r1, r2}
    Owners = {o1}
    Standing = {}
    MaxQty = 2
    MaxStock = 2
    MaxBlocked = 0
    MaxFaults = 0
    NoOwner = NoOwner
SYMMETRY Symmetry
INVARIANTS TypeOK MirrorAgrees
PROPERTY NeverOversells
