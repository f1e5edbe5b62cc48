SPECIFICATION FairSpec
CONSTANTS
    b1 = b1
    q1 = q1
    q2 = q2
    p1 = p1
    p2 = p2
    p3 = p3
    u1 = u1
    Builds = {b1}
    Slots = {q1, q2}
    Free = Free
    MaxReturns = 1
    MaxFails = 2
    Presets = {p1, p2, p3}
    PresetConfig <- MCPresetConfig
    Unreadable = {p3}
    Uploads = {u1}
    None = None
    MaxEdits = 2
INVARIANTS
    TypeOK
    OwnBuildsShown
    ErrorsMatchForm
    PresetValuesKept
PROPERTIES
    HistoryMovesForward
    HistoryCatchesUp
    UnsentEditsKept
CHECK_DEADLOCK FALSE
