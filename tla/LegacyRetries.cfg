SPECIFICATION FairSpec
CONSTANTS
    b1 = b1
    w1 = w1
    w2 = w2
    r1 = r1
    a1 = a1
    a2 = a2
    Artifacts = {a1}
    ValidArtifacts = {a1}
    Runs = {r1}
    ArtifactRun <- MCArtifactRun
    None = None
    Damaged = Damaged
    Builds = {b1}
    LegacyBuilds = {b1}
    Workers = {w1}
    Deleter = Deleter
    MaxFaults = 1
    MaxCrashes = 1
    MaxClearing = 1
    MaxWaiting = 1
PROPERTY
    RetriesEnd
CHECK_DEADLOCK FALSE
