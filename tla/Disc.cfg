SPECIFICATION FairDisc
CONSTANT MaxFaults = 1
CHECK_DEADLOCK FALSE
INVARIANTS StoppedInside
PROPERTIES StaysOn AbortArrives
