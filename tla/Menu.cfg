SPECIFICATION FairSpec
CONSTANTS
    Boot <- BootScenes
    MaxJobs = 1
INVARIANTS
    TypeOK
    PointersLive
    OneTakesInput
    LookupsSucceed
    ScenesOutliveJobs
    MarksAreTrue
    OneDestroyAll
PROPERTIES
    LoadedBeforeCreate
    ReservedArrives
    RequestsEnd
