SPECIFICATION FairSpec
CONSTANTS
    Clients = {c1}
    Instances = {i1}
    Rows = {r1, r2}
    Owners = {o1, o2}
    Standing = {o2}
    MaxQty = 1
    MaxStock = 1
    MaxBlocked = 1
    MaxFaults = 1
    NoOwner = NoOwner
INVARIANT MirrorAgrees
PROPERTY ParityRepairs
