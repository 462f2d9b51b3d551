SPECIFICATION Spec
CONSTANTS
    c1 = c1
    c2 = c2
    c3 = c3
    server = server
    ann = ann
    bob = bob
    zoe = zoe
    Child <- TwoChildren
    Parent = server
    User <- Users
    LeadingZero <- ZeroLed
    MaxEvents = 2
    Existing = 1
    FirstOwner = ann
    Capacity <- TwoSeats
    StartTime <- NeverPast
    Requests <- Waiting
    MaxListed = 1
    MaxClock = 0
    MaxActive = 2
    WritesMayFail = FALSE
    MayCrash = FALSE
CHECK_DEADLOCK FALSE
PROPERTY EveryRequestAnswered
