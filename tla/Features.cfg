\* All graphs of three features with lists of two, asked for in several orders.
SPECIFICATION FairSpec
CONSTANTS
    Nil = Nil
    Feature = {1, 2, 3, 4}
    Known = {1, 2, 3}
    Commands = {"cname", "features", "platform", "ignore"}
    Includes <- AllIncludes
    Excludes <- SomeExcludes
    Types <- SomeTypes
    Ignores <- SomeIgnores
    Requests <- SomeRequests
INVARIANTS
    TypeOK
    ExpansionIsClosure
    NothingTwice
    IncludesComeFirst
    LoopsAreReal
    CnameIsCanonical
    ImagesAreWhatTheirKeysSay
PROPERTIES
    Terminates
CHECK_DEADLOCK FALSE
