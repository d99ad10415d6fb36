\* Three probes with up to two failing steps; two processes write the file.
\* A remove that oopses, and the bound on probes, end the life of a driver.
SPECIFICATION Spec
CONSTANTS
    Writers = {w1, w2}
    Values = {0, 17, 34, 48, 255}
    MaxBinds = 3
    MaxFailures = 2
SYMMETRY WriterSymmetry
INVARIANTS
    TypeOK
    LeavesNothing
    EintReady
    ReadbackIsTrue
PROPERTIES
    PinsServeWrites
CHECK_DEADLOCK FALSE
