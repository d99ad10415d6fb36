\* The application and one other client of the service.
SPECIFICATION FairSpec
CONSTANTS
    Others = {other}
    OtherOps = {"POWER_ENABLE", "INIT", "SETSYS_MODE", "RDSENABLE", "RXSEEKCH",
                "TXCLEARCHSCAN", "GET_ISBUFREADY"}
INVARIANTS
    TypeOK
    AppEstablishes
PROPERTY
    AppFinishes
\* A client that waits for a group may wait for ever.
CHECK_DEADLOCK FALSE
