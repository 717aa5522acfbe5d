CONSTANTS
    MaxTime = 5
    MaxRestarts = 1
    Rewind = 1
    Window = 3
    Retention = 3
    LiveThreshold = 1
    MaxLag = 2
    DialTimeout = 1
    HealthyFor = 1
    BackoffMax = 3
    MaxShift = 2
SPECIFICATION Spec
INVARIANTS
    RestartOpensNoGap
