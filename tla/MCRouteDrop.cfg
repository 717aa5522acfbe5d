CONSTANTS
    w1 = w1
    w2 = w2
    Workers <- TwoWorkers
    MaxEvents = 4
    Buffer = 2
    MaxAttempts = 2
    Policy = "drop"
SPECIFICATION Spec
SYMMETRY WorkerSymmetry
INVARIANTS
    TypeOK
    OnePlace
    NothingLost
    RetryBudget
    NoSendOnClosed
    DrainComplete
PROPERTIES
    LedgerSpec
