SPECIFICATION Spec
CONSTANTS
    c1 = c1
    c2 = c2
    c3 = c3
    server = server
    ann = ann
    bob = bob
    zoe = zoe
    Child <- OneChild
    Parent = server
    User <- Users
    LeadingZero <- ZeroLed
    MaxEvents = 1
    Existing = 1
    FirstOwner = ann
    Capacity <- TwoSeats
    StartTime <- NeverPast
    Requests <- Bookings
    MaxListed = 1
    MaxClock = 0
    MaxActive = 1
    WritesMayFail = TRUE
    MayCrash = FALSE
CHECK_DEADLOCK FALSE
PROPERTY EveryRequestAnswered
