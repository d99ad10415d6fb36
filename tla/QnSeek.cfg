\* Up to two calls of either function, over every mix of signals, with the
\* noise floor, the country and the bands changing in between.
SPECIFICATION FairSpec
CONSTANTS
    CallKinds = {"all-one", "all-down", "all-clamp", "one-up", "one-low"}
    SignalKinds = {"weak", "strong", "late", "stuck"}
    FloorKinds = {"quiet", "noisy"}
    ChMax = 2
    PollMax = 3
    MaxCalls = 2
    Requests <- MCRequests
    Signals <- MCSignals
    Floors <- MCFloors
INVARIANTS
    TypeOK
    TunedAtRest
    FloorCurrent
PROPERTIES
    SeekIsScan
    SeekTerminates
