SPECIFICATION Spec
CONSTANTS
    c1 = c1
    c2 = c2
    server = server
    ann = ann
    bob = bob
    old = old
    new = new
    other = other
    NoFile = NoFile
    Blank = Blank
    Child <- TwoChildren
    Parent = server
    User = {ann}
    Password <- Passwords
    Initial <- Newcomer
    Requests <- Everything
    WritesMayFail = TRUE
    MayCrash = TRUE
CHECK_DEADLOCK FALSE
INVARIANT LoginBacked
INVARIANT StalePasswordIsRefused
INVARIANT PasswordIsLatest
SYMMETRY Interchangeable
