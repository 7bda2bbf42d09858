\* A release is checked until it counts as released.
SPECIFICATION Spec
CONSTANTS
    r1 = r1
    r2 = r2
    r3 = r3
    v1 = v1
    v2 = v2
    Nil = Nil
    Releases = {r1, r2, r3}
    Versions = {v1, v2}
    VersionOf <- ThreeReleases
    Overlap = FALSE
    MaxOps = 4
INVARIANTS
    ReleasedIsLive
CHECK_DEADLOCK FALSE
