SPECIFICATION TurnSpec
CONSTANTS
    c1 = c1
    c2 = c2
    server = server
    ann = ann
    bob = bob
    old = old
    new = new
    other = other
    NoFile = NoFile
    Blank = Blank
    Child <- TwoChildren
    Parent = server
    User = {ann, bob}
    Password <- Passwords
    Initial <- Newcomer
    Requests <- Two
    WritesMayFail = FALSE
    MayCrash = FALSE
CHECK_DEADLOCK FALSE
PROPERTY ImplementsDirectory
SYMMETRY Interchangeable
