SPECIFICATION Spec
CONSTANTS
    b1 = b1
    w1 = w1
    w2 = w2
    r1 = r1
    a1 = a1
    a2 = a2
    Artifacts = {a1, a2}
    ValidArtifacts = {a1}
    Runs = {r1}
    ArtifactRun <- MCArtifactRun
    None = None
    Damaged = Damaged
    Builds = {b1}
    LegacyBuilds = {b1}
    Workers = {w1, w2}
    Deleter = Deleter
    MaxFaults = 2
    MaxCrashes = 1
    MaxClearing = 1
    MaxWaiting = 1
SYMMETRY WorkerSymmetry
INVARIANTS
    TypeOK
    DoneIsProven
    OneLifecycleOwner
    PublishedOutputStays
    DeletedOutputTracked
PROPERTY
    KeepsRecord
CHECK_DEADLOCK FALSE
