CONSTANTS
    post = post
    like = like
    feed = feed
    Collections <- BothCollections
    Globs <- OneGlob
    Covers <- CoversBoth
    Handlers = {"content", "retraction"}
    OtherRoutes = {"archive"}
    Files <- AllFiles
    DefaultRules <- TwoRules
    DefaultFallback = "content"
    DefaultRoutes <- TwoRoutes
SPECIFICATION ConfigSpec
INVARIANTS
    TypeOK
    UnknownUnreachable
    OrderImmaterial
    DeletesDiverted
    BuiltAsAssumed
