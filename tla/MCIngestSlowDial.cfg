CONSTANTS
    MaxTime = 6
    MaxRestarts = 0
    Rewind = 1
    Window = 1
    Retention = 1
    LiveThreshold = 1
    MaxLag = 1
    DialTimeout = 4
    HealthyFor = 0
    BackoffMax = 3
    MaxShift = 2
SPECIFICATION Spec
INVARIANTS
    NoSilentGap
