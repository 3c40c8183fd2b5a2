SPECIFICATION Spec
CONSTANTS
    Windows = {w1}
    CycleLength = 3
    ResetJitter = 1
    MaxCycle = 3
    MaxUtilization = 3
    Untracked = Untracked
INVARIANTS
    NotifyTypeOK
    SpentWasTold
    WarningComesFirst
PROPERTIES
    ToldOncePerCycle
    ResetsAreReal
