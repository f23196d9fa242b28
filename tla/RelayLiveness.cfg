SPECIFICATION FairSpec
CONSTANTS
    Conns = {c1, c2}
    NoConn = NoConn
    Attempts = 2
    RetryBase = 1
    RetryMaximum = 1
    Pause = 1
    ConnectTimeout = 1
    FrameTimeout = 1
    MaxVersion = 1
    MaxIdentity = 2
    MaxAgentRestarts = 1
    MaxReceiverRestarts = 0
    MaxDiskFailures = 0
INVARIANT
    OnlyOwnKeyPublishes
PROPERTIES
    WorkerNeverHangs
    HandlersEnd
