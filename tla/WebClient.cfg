SPECIFICATION FairSpec
CONSTANTS
    a1 = a1
    a2 = a2
    Attempts = {a1, a2}
    None = None
    MaxMsgs = 1
INVARIANTS
    TypeOK
    OpenSocketsAreHeld
    DroppedIsSilent
    CipherAgreed
PROPERTY
    StartsEnd
CHECK_DEADLOCK FALSE
