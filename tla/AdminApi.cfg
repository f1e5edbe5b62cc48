SPECIFICATION Spec
CONSTANTS
    l1 = l1
    l2 = l2
    l3 = l3
    d1 = d1
    Logins = {l1, l2, l3}
    Ids = {d1}
    CaptchaThreshold = 1
    BanThreshold = 2
    AttemptsWindow = 2
    BanDuration = 2
    CaptchaLife = 1
    MaxTime = 5
    r1 = r1
    r2 = r2
    v1 = v1
    vd = vd
    i1 = i1
    all = all
    Requests = {r1, r2}
    Values = {v1}
    Default = vd
    Ips = {i1}
    Options = {{i1}, {all}}
    All = all
    MaxSends = 3
    Faults = TRUE
SYMMETRY ApiSymmetry
INVARIANTS
    TypeOK
    GuessesBounded
    SettingsSurvive
    ReplayReproduces
