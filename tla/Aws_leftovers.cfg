\* A single failure while images are copied.
SPECIFICATION Spec
CONSTANTS
    a1 = a1
    a2 = a2
    home = home
    east = east
    west = west
    south = south
    Nil = Nil
    Attempts = {a1}
    Regions = {home, east, west, south}
    Home = home
    MaxActive = 1
    MaxFaults = 1
SYMMETRY Symmetry
INVARIANTS
    FailedCopiesAreRemoved
CHECK_DEADLOCK FALSE
