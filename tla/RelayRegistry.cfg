SPECIFICATION Spec
CONSTANTS
    DeviceIds = {d1, d2}
    StaleAfter = 2
    MaxClock = 5
    MaxAge = 5
    MaxSnapshots = 2
    MaxSessions = 1
    MaxRestarts = 1
    MaxFailures = 1
    MaxCorrections = 1
SYMMETRY Symmetry
INVARIANTS
    OnlineMeansRecent
    ListedIsServed
