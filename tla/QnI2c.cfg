\* Reads and writes of two registers, any address left unanswered.
SPECIFICATION BusFairSpec
CONSTANTS
    Regs = {0, 31}
    Values = {129, 40}
INVARIANTS
    BusTypeOK
    TransfersWhole
    BusReleased
PROPERTY
    AccessReturns
