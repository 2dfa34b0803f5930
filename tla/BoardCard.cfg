SPECIFICATION FairBoard
CONSTANT MaxFaults = 1
INVARIANTS OneMount
PROPERTIES CardMounted BoardGoes
