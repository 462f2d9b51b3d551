SPECIFICATION Spec
CONSTANTS
    c1 = c1
    c2 = c2
    c3 = c3
    server = server
    ann = ann
    bob = bob
    zoe = zoe
    Child <- ThreeChildren
    Parent = server
    User <- Users
    LeadingZero <- ZeroLed
    MaxEvents = 2
    Existing = 1
    FirstOwner = ann
    Capacity <- TwoSeats
    StartTime <- NeverPast
    Requests <- Mishaps
    MaxListed = 1
    MaxClock = 0
    MaxActive = 3
    WritesMayFail = TRUE
    MayCrash = TRUE
CHECK_DEADLOCK FALSE
INVARIANT ResWithinCapacity
INVARIANT ResBacked
INVARIANT ConfirmedIsWhole
INVARIANT FreshEid
INVARIANT TypeOK
INVARIANT NoAcceptWhenOver
SYMMETRY Interchangeable
