CONSTANTS
    i1 = i1
    i2 = i2
    i3 = i3
    i4 = i4
    None = None
    Inodes <- FourInodes
    Committers <- BothCommitters
    MaxTime = 2
    MaxFaults = 0
    MaxStops = 1
SPECIFICATION Spec
CHECK_DEADLOCK FALSE
INVARIANTS
    NeverTruncated
