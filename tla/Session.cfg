SPECIFICATION FairSpec
CONSTANTS
    c1 = c1
    NoFile = NoFile
    NoOne = NoOne
    Client = {c1}
    User <- Users
    Password <- Passwords
    Numeral <- Printed
    EventName = {"fado"}
    FileName = {"poster.pdf", "film.mp4", "huge.mp4"}
    FileSize <- Folder
    Initial <- Newcomers
    ReadsMayFail = TRUE
    Lines <- Session1
    Strays <- Calls
    Instants <- Evening
    UDP_RETRIES = 2
    SendBuffer = 100000
    MaxEvents = 2
    MaxCommands = 3
CHECK_DEADLOCK FALSE
INVARIANT SessionTypeOK
INVARIANT LoggedInAsGranted
INVARIANT InStep
INVARIANT AnswersAreUnderstood
INVARIANT RequestsAreWellFormed
 
INVARIANT OneEventPerCreate
PROPERTY EveryCommandReturns
