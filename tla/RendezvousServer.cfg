SPECIFICATION FairSpec
CONSTANTS
    m1 = m1
    m2 = m2
    k1 = k1
    k2 = k2
    k3 = k3
    p1 = p1
    p2 = p2
    e1 = e1
    e2 = e2
    e3 = e3
    none = none
    Tasks = {1, 2, 3}
    Uuids = {m1, m2}
    Pks = {k1, k2, k3}
    Ips = {p1, p2}
    KeyOwner <- MCKeyOwner
    Entries = {e1, e2, e3}
    None = none
    s1 = s1
    s2 = s2
    s3 = s3
    s4 = s4
    s5 = s5
    c1 = c1
    c2 = c2
    Lists <- MCLists
    Configured <- MCConfigured
    Checks = {c1, c2}
    MaxCommands = 2
INVARIANTS
    TypeOK
    ForeignKeyNeedsRace
    MemoryIsTheRow
PROPERTY
    CommandTakesEffect
CHECK_DEADLOCK FALSE
