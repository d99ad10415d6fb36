\* Opening, closing and reopening while every reader is prompt; one thread
\* sends packets of up to two bytes and their CR LF.
SPECIFICATION FairSpec
CONSTANTS
    Readers = {r1, r2}
    Prompt = TRUE
    Senders = {s1}
    MaxPayload = 2
INVARIANTS
    TypeOK
    ReaderHasItsOwn
    SendTells
PROPERTY
    CloseReturns
