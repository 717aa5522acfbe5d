CONSTANTS
    a = a
    b = b
    c = c
    w1 = w1
    w2 = w2
    MaxEvents = 4
    MaxTime = 4
    MaxRewinds = 1
    MaxSheds = 1
    Subjects <- ThreeSubjects
    Workers <- TwoWorkers
    Rewind = 2
    WindowUS = 2
    DedupUS = 1
    MaxKeys = 2
    SweepEvery = 2
    Threshold = 1
SPECIFICATION Spec
CHECK_DEADLOCK FALSE
SYMMETRY Symmetry
INVARIANTS
    TypeOK
    DuplicateBeyondCap
    AlertSpacing
    CountIsExact
