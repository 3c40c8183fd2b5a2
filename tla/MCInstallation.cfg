\* Two places, four releases of which the first two have no standalone bridge, two
\* failing writes, two mishaps.
SPECIFICATION Spec
CONSTANTS
    None = None
    Places = {"downloads", "applications"}
    Versions = {1, 2, 3, 4}
    Bundled = {3, 4}
    MaxFailures = 2
    MaxMishaps = 2
INVARIANTS
    RecordedCommandRuns
    LaunchSeesToIt
