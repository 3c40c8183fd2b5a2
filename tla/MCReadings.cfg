\* Six looks, about two hundred answers, two broadcasts.
SPECIFICATION Spec
CONSTANTS
    None = None
    SessionLength = 30
    Day = 144
    Hour = 6
    ResetSoonGrace = 1
    TimeZone = 6
    Short <- MCShort
    Long <- MCLong
    SessionKinds = {"five_hour", "five_hour_scoped", "session", "session_scoped"}
    SonnetNames = {"Sonnet", "sonnet"}
    Instants <- MCInstants
    Responses <- MCResponses
    Options <- MCOptions
    MaxBroadcasts = 2
INVARIANTS
    OutlookMatchesPace
    BadgeIsExplained
    HitTimeReadable
    CachedIconIsCurrent
    SurfacesAgree
    PopoverMatchesMenu
CHECK_DEADLOCK FALSE
