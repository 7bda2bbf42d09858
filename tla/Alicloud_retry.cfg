\* Attempts for one release in turn, those for another release overlap them.
SPECIFICATION FairSpec
CONSTANTS
    a1 = a1
    a2 = a2
    a3 = a3
    rel1 = rel1
    rel2 = rel2
    home = home
    east = east
    Nil = Nil
    Attempts = {a1, a2, a3}
    ReleaseOf <- ThreeAttempts
    Releases = {rel1, rel2}
    Regions = {home, east}
    Home = home
    MaxActive = 1
    MaxFaults = 3
INVARIANTS
    TypeOK
    RecordedImagesAreUsable
PROPERTIES
    
    RetrySucceeds
CHECK_DEADLOCK FALSE
