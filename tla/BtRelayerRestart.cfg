\* A session after an earlier one.
SPECIFICATION FairSpec
CONSTANTS
    BufLen = 512
    Payloads = {0, 508}
    MaxDebug = 1
INVARIANT
    StartedRelays
