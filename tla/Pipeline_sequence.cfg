\* Two runs of the same commit, one after the other, on a flavour published to azure.
SPECIFICATION Spec
CONSTANTS
    r1 = r1
    r2 = r2
    f1 = f1
    c1 = c1
    Runs = {r1, r2}
    Flavours = {f1}
    Azure = {f1}
    Oci = {}
    Unpublishable = {}
    Contents = {c1}
    TargetSets <- TwoTargetSets
    Kinds = {"snapshot", "release"}
    MaxTime = 1
    MaxActive = 1
    Nil = Nil
SYMMETRY RunSymmetry
INVARIANTS
    TypeOK
    PublishedImagesAreRecorded
    BuiltManifestsAreLogged
PROPERTIES
    AttachedLogsAreComplete
    BucketIsCatalogue
CHECK_DEADLOCK FALSE
