SPECIFICATION FairSpec
CONSTANTS
    MaxChanges = 2
    MaxStores = 0
    StoreValues = {}
INVARIANT
    KeyFollowsStatus
\* The line may stop changing.
CHECK_DEADLOCK FALSE
