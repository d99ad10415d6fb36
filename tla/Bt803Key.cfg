SPECIFICATION FairSpec
CONSTANTS
    MaxChanges = 4
    MaxStores = 2
    StoreValues = {0, 1, 2, 255}
INVARIANTS
    TypeOK
    ArmedForReturn
    OneRunPerInterrupt
    CleanEventDelivered
PROPERTY
    StatusFollowsLine
\* The line may stop changing.
CHECK_DEADLOCK FALSE
