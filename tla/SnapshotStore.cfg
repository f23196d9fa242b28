SPECIFICATION FairSpec
CONSTANTS
    Instances = {i1, i2}
    Interval = 2
    NoTask = NoTask
    MaxTime = 9
    MaxVersion = 3
    MaxFailures = 1
CHECK_DEADLOCK FALSE
INVARIANTS
    CleanMeansSaved
    DirtyIsScheduled
    TwoWritesPerInterval
PROPERTIES
    ImplementsStatusDocument
    EventuallySaved
