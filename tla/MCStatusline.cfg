SPECIFICATION FairSpec
CONSTANTS
    Sessions = {s1, s2}
    Windows = {"five_hour", "seven_day"}
    CycleLength = 3
    ResetJitter = 1
    MaxCycle = 2
    MaxUtilization = 1
    MaxTime = 1
    Responses <- MCResponses
    MaxFaults = 1
    NoWindow = NoWindow
    NoSnapshot = NoSnapshot
    Cold = Cold
    Absent = Absent
    Empty = Empty
    Torn = Torn
INVARIANTS
    StatuslineTypeOK
    OnlyOverlapTears
PROPERTIES
    NeverFallsBack
    OnlyTheNewestVouch
    SelfHeals
