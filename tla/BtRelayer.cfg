\* Sessions of the relayer, one after the other, with every kind of failure.
SPECIFICATION FairSpec
CONSTANTS
    BufLen = 512
    Payloads = {0, 255, 507, 508}
    MaxDebug = 1
INVARIANTS
    TypeOK
    DevicesOutliveThreads
    StoppedIsOff
    RelayedWhole
PROPERTIES
    FailureStopsBoth
    ExitReturns
