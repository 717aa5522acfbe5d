CONSTANTS
    Routes <- ThreeRoutes
    NumEvents = 4
    Streams <- FourEvents
    Policy <- Policies
    Buffer <- OneEach
    Workers <- OneEach
    DrainTimeout = 2
    AdminTimeout = 1
    Grace = 3
SPECIFICATION FairSpec
INVARIANTS
    TypeOK
    FinalCommitReached
    CommitCoversSettled
    HealthyRouteLosesNothing
PROPERTIES
    HealthyRouteServed
    RoutesKeepLedgers
