SPECIFICATION Spec
CONSTANTS
    main = main
    nand = nand
    task1 = task1
    task3 = task3
    j1 = j1
    j2 = j2
    j3 = j3
    j4 = j4
    NULL = NULL
    Job = {j1, j2, j3}
    Jam = {j3}
    Token = {j2}
    Requester = {main, nand}
    Worker = task1
    Prio <- OSPriority
    JobNum = 2
    EndNum = 1
\* The jobs run out.
CHECK_DEADLOCK FALSE
INVARIANTS
    NoTornJob
    FifoUnlessLost
