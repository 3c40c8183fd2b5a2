SPECIFICATION FairSpec
CONSTANTS
    MemoryTTL = 1
    Intervals = {2}
    StatuslinePoll = 1
    BackoffBase = 1
    BackoffCap = 3
    MaxShift = 16
    FailureCap = 3
    DriftThreshold = 0
    StaleAfterIntervals = 1
    AgeCap = 3
    Readings = {u1}
    NoSnapshot = NoSnapshot
    k1 = k1
    k2 = k2
    o1 = o1
    Keys = {k1}
    NoKey = NoKey
    Orgs = {o1}
    NoOrg = NoOrg
    OrgOf <- SameAccount
    Slice = 1
    SkewBound = 1
    LateCap = 0
    Faults = {"hangs"}
    Tasks = {}
    Commands = {"tos", "source"}
INVARIANTS
    StatuslineKeepsPolling
    ExportHoldsSnapshot
PROPERTIES
    WakeIsTaken
    FollowsSource
