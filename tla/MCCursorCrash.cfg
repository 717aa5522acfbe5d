CONSTANTS
    i1 = i1
    i2 = i2
    i3 = i3
    i4 = i4
    None = None
    Inodes <- ThreeInodes
    Committers <- OneCommitter
    MaxTime = 4
    MaxFaults = 2
    MaxStops = 2
SPECIFICATION Spec
CHECK_DEADLOCK FALSE
SYMMETRY InodeSymmetry
INVARIANTS
    TypeOK
    CommitedIsDurable
PROPERTIES
    DurableSpec
