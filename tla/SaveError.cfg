SPECIFICATION FairSpec
CONSTANTS
    Move = {m1}
    PAGE = PAGE
    File = {f1, f2}
    EDIT = EDIT
    NULL = NULL
    MaxBoots = 1
\* The console stays off after the last start.
CHECK_DEADLOCK FALSE
PROPERTIES
    ErrorShown
