CONSTANTS
    w1 = w1
    w2 = w2
    Workers <- OneWorker
    MaxEvents = 4
    Buffer = 1
    MaxAttempts = 2
    Policy = "block"
SPECIFICATION SpecWedged
INVARIANTS
    IInv
PROPERTIES
    OfferReturns
    ShutdownCompletes
    EventsSettle
