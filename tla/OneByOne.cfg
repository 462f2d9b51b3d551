SPECIFICATION Spec
CONSTANTS
    c1 = c1
    c2 = c2
    c3 = c3
    server = server
    ann = ann
    bob = bob
    zoe = zoe
    Child <- ThreeChildren
    Parent = server
    User <- Users
    LeadingZero <- ZeroLed
    MaxEvents = 2
    Existing = 1
    FirstOwner = ann
    Capacity <- TwoSeats
    StartTime <- SoonPast
    Requests <- OneByOne
    MaxListed = 1
    MaxClock = 1
    MaxActive = 1
    WritesMayFail = FALSE
    MayCrash = FALSE
CHECK_DEADLOCK FALSE
INVARIANT RestCount
INVARIANT AcceptedIsFiled
INVARIANT AcceptedIsListed
PROPERTY ImplementsSeats
