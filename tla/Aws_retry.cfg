\* Attempts of runs that do not overlap; requests, images and pods fail.
SPECIFICATION FairSpec
CONSTANTS
    a1 = a1
    a2 = a2
    home = home
    east = east
    west = west
    Nil = Nil
    Attempts = {a1, a2}
    Regions = {home, east}
    Home = home
    MaxActive = 1
    MaxFaults = 3
INVARIANTS
    TypeOK
    RecordedImagesAreUsable
PROPERTIES
    AttemptsEnd
CHECK_DEADLOCK FALSE
