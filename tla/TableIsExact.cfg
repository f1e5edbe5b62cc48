SPECIFICATION CommandsSpec
CONSTANTS
    Requests = {"request"}
    Values = {"v1"}
    Default = "vd"
    Ips = {"i1", "i2"}
    Options = {{"i1"}, {"i2"}}
    All = "all"
    MaxSends = 2
    Faults = FALSE
INVARIANT TableIsExact
CHECK_DEADLOCK FALSE
