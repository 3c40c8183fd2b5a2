\* Three states, two options, two instants, at most one failure.  The two
\* threads may come to wait for each other, so the system may stop.
SPECIFICATION FairSpec
CONSTANTS
    None = None
    SessionLength = 30
    Day = 144
    Hour = 6
    ResetSoonGrace = 1
    TimeZone = 6
    Short = {}
    Long = {}
    SessionKinds = {"five_hour", "five_hour_scoped", "session", "session_scoped"}
    SonnetNames = {"Sonnet", "sonnet"}
    Meters <- MCMeters
    Options <- MCOptions
    Instants <- MCInstants
    MaxFailures = 1
INVARIANTS
    TrayTypeOK
    LastApplyIsShown
    SettledTrayIsCurrent
PROPERTIES
    ApplyEnds
CHECK_DEADLOCK FALSE
