SPECIFICATION FairSpec
CONSTANTS
    a = a
    b = b
    None = None
    Messages <- Two
    TenantOf <- Tenant
    Relays = {r1, r2}
    Last = 2
    Limit = 1
    MaxAttempts = 2
    MaxFaults = 1
    MaxReplays = 1
INVARIANTS RepeatsExplained AckedSeenByAll QuarantineEarned
PROPERTIES ImplementsDelivery Settles
