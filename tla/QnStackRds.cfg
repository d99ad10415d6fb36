\* The RDS group the application uploads.
SPECIFICATION FairSpec
CONSTANTS
    Others = {}
    OtherOps = {}
INVARIANT
    GroupLoaded
\* Waiting for a group may last for ever.
CHECK_DEADLOCK FALSE
