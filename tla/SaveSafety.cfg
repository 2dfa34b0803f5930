SPECIFICATION Spec
CONSTANTS
    Move = {m1}
    PAGE = PAGE
    File = {f1, f2, f3}
    EDIT = EDIT
    NULL = NULL
    MaxBoots = 2
SYMMETRY Symmetry
\* The console stays off after the last start.
CHECK_DEADLOCK FALSE
INVARIANTS
    Durable
    MemoryKeepsSaved
    NoDanglingFile
PROPERTIES
    ResetWaits
