\* The job runs when no run is in flight.
SPECIFICATION CleaningSpec
CONSTANTS
    r1 = r1
    r2 = r2
    f1 = f1
    c1 = c1
    Nil = Nil
    Runs = {r1, r2}
    Flavours = {f1}
    Azure = {}
    Oci = {}
    Unpublishable = {}
    Contents = {c1}
    TargetSets <- OneTargetSet
    Kinds = {"snapshot", "release"}
    MaxTime = 2
    MaxActive = 1
    MaxAge = 1
    RunTimeout = 0
    PageSize = 2
    CleanWhileRunning = FALSE
    MaxAborts = 1
INVARIANTS
    CleaningTypeOK
    ImagesAreKept
PROPERTIES
    SetLogsAreSpared
    ReleasesStayDownloadable
SYMMETRY RunSymmetry
CHECK_DEADLOCK FALSE
