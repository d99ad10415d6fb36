\* Two callers, up to two calls of either function, before and after the
\* first measurement, every interleaving.
SPECIFICATION FairSpec
CONSTANTS
    Callers = {c1, c2}
    LastCH = 2
    ChMax = 2
    MaxCalls = 2
INVARIANTS
    FlagOfAScan
    OwnListWhenAlone
    AudibleAtRest
PROPERTY
    EverySeekEnds
CHECK_DEADLOCK FALSE
