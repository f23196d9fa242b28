SPECIFICATION Spec
CONSTANTS
    Conns = {c1, c2, c3}
    NoConn = NoConn
    Attempts = 2
    RetryBase = 1
    RetryMaximum = 2
    Pause = 1
    ConnectTimeout = 2
    FrameTimeout = 2
    MaxVersion = 2
    MaxIdentity = 1
    MaxAgentRestarts = 0
    MaxReceiverRestarts = 1
    MaxDiskFailures = 1
SYMMETRY Symmetry
INVARIANTS
    ActiveSessionsExact
    AckedWasStored
PROPERTIES
    NeverRegresses
    OnlyLoadedPublish
