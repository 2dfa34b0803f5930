SPECIFICATION FairReset
CONSTANTS
    M = M
    P = P
    NULL = NULL
    Thread <- TwoThreads
    QueueLen = 1
    MaxMail = 2
    MaxFaults = 1
INVARIANTS
    RemoteAtRest
    StartUpCutOnlyByRace
PROPERTIES
    RequestKept
    ResetEnds
