SPECIFICATION FairSpec
CONSTANTS
    M = M
    P = P
    NULL = NULL
    Thread <- TwoThreads
    QueueLen = 3
    MaxMail = 2
    MaxFaults = 2
INVARIANTS
    NoDownloadWhileOpen
    OneLibraryUser
    StopHolds
    NotLeftSuspended
PROPERTIES
    KeepsReceiving
    PauseHeeded
