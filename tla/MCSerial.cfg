SPECIFICATION SerialSpec
CONSTANTS
    Processes = {p1, p2}
    TenantBins = {b1, b2}
    Nowhere = Nowhere
    Span = 2
    MaxMs = 2
    MaxEvents = 3
    StepsBack = TRUE
INVARIANT SerialChain
