SPECIFICATION FairSpec
CONSTANTS
    t1 = t1
    t2 = t2
    t3 = t3
    t4 = t4
    u1 = u1
    u2 = u2
    a1 = a1
    a2 = a2
    none = none
    Tasks = {t1, t2, t3, t4}
    Uuids = {u1, u2}
    Addrs = {a1, a2}
    addr <- MCAddr
    None = none
    i1 = i1
    i2 = i2
    blank = blank
    c1 = c1
    c2 = c2
    c3 = c3
    free = free
    Ips = {i1, i2}
    Blank = blank
    Commands = {c1, c2, c3}
    Free = free
    MaxChanges = 4
INVARIANTS
    TypeOK
    OneSessionPerStream
    PairsShareUuid
    WaitersAreTimed
    UsageIsLive
    FileMatchesSet
    AnsweredIsSaved
PROPERTIES
    LoneWaiterKept
    WaitersLeave
    BlockedRelayEnds
CHECK_DEADLOCK FALSE
