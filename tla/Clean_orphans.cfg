\* One run, and the job run again and again.
SPECIFICATION FairCleaningSpec
CONSTANTS
    r1 = r1
    r2 = r2
    f1 = f1
    c1 = c1
    Nil = Nil
    Runs = {r1}
    Flavours = {f1}
    Azure = {}
    Oci = {}
    Unpublishable = {}
    Contents = {c1}
    TargetSets <- OneTargetSet
    Kinds = {"snapshot", "release"}
    MaxTime = 3
    MaxActive = 1
    MaxAge = 2
    RunTimeout = 1
    PageSize = 2
    CleanWhileRunning = FALSE
    MaxAborts = 1
PROPERTIES
    OrphansAreSwept
CHECK_DEADLOCK FALSE
