\* Three releases of two versions, published one at a time and checked at any time.
SPECIFICATION Spec
CONSTANTS
    r1 = r1
    r2 = r2
    r3 = r3
    v1 = v1
    v2 = v2
    Nil = Nil
    Releases = {r1, r2, r3}
    Versions = {v1, v2}
    VersionOf <- ThreeReleases
    Overlap = FALSE
    MaxOps = 4
INVARIANTS
    TypeOK
    RecordedOperationsCarryTheVersion
PROPERTIES
    LiveVersionsStayLive
    ReleasesAdvance
CHECK_DEADLOCK FALSE
