\* Any sequence of calls by one caller.
SPECIFICATION Spec
CONSTANT
    ResetFilters = {0, 40}
INVARIANT
    TypeOK
PROPERTIES
    ReceiverRestored
    RdsKept
    WakeRestores
