SPECIFICATION Spec
CONSTANTS
    Commands = {w1, w2}
    Devices = {d1, d2, d3}
    Challenges = {c1, c2, c3}
    Nobody = Nobody
    NoDevice = NoDevice
    MaxDevices = 2
    MaxCrashes = 2
SYMMETRY Symmetry
INVARIANTS
    AlwaysLoadable
    ReportedIsKept
    OneMoreUsePerCrash
PROPERTIES
    ImplementsRelayLedger
