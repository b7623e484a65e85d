SPECIFICATION Spec
CONSTANTS
    Events <- Two
    Endpoints = {e1}
    Senders = {p1, p2}
    MaxAttempts = 2
    MaxInFlight = 1
    MaxHeld = 1
    DisableAfter = 1
    MaxCommands = 1
    None = None
INVARIANTS TypeOK InFlightCapped PostsBounded
SYMMETRY SenderSymmetry
CHECK_DEADLOCK FALSE
