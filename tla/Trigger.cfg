SPECIFICATION FairSpec
CONSTANTS
    Jobs = {j1, j2}
    Commits = {c1}
    Targets = {bm}
    c1 = c1
    j1 = j1
    j2 = j2
    bm = bm
    Requests <- MCRequests
    Wrap = 2
    Keep = 1
    MaxPolls = 1
    MaxTime = 2
    Nil = Nil
INVARIANT SuccessIsOfOwnBuild
INVARIANT PackagesFollowImages
INVARIANT StatusAgreesWithRun
PROPERTY StatusSettles
PROPERTY JobsEnd
CHECK_DEADLOCK FALSE
