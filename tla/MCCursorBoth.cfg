CONSTANTS
    i1 = i1
    i2 = i2
    i3 = i3
    i4 = i4
    None = None
    Inodes <- FourInodes
    Committers <- BothCommitters
    MaxTime = 3
    MaxFaults = 1
    MaxStops = 2
SPECIFICATION FairSpec
CHECK_DEADLOCK FALSE
INVARIANTS
    NeverAhead
PROPERTIES
    FileCatchesUp
