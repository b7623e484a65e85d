SPECIFICATION LiveSpec
CONSTANTS
    Events <- One
    Endpoints = {e1}
    Senders = {p1, p2}
    MaxAttempts = 2
    MaxInFlight = 1
    MaxHeld = 1
    DisableAfter = 1
    MaxCommands = 2
    None = None
PROPERTY DeliveriesSettle
CHECK_DEADLOCK FALSE
