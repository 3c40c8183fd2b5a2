\* The smallest instance in which a broadcast meets a settings command.
SPECIFICATION Spec
CONSTANTS
    None = None
    SessionLength = 30
    Day = 144
    Hour = 6
    ResetSoonGrace = 1
    TimeZone = 6
    Short = {}
    Long = {}
    SessionKinds = {"five_hour", "five_hour_scoped", "session", "session_scoped"}
    SonnetNames = {"Sonnet", "sonnet"}
    Meters <- MCMeters
    Options <- MCOptions
    Instants <- MCInstants
    MaxFailures = 0
INVARIANTS
    NeverBothWait
CHECK_DEADLOCK FALSE
