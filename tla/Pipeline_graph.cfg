\* One run over three flavours, with every combination of targets.
SPECIFICATION FairSpec
CONSTANTS
    r1 = r1
    f1 = f1
    f2 = f2
    f3 = f3
    c1 = c1
    Runs = {r1}
    Flavours = {f1, f2, f3}
    Azure = {f3}
    Oci = {f2}
    Unpublishable = {f1}
    Contents = {c1}
    TargetSets <- AllTargetSets
    Kinds = {"release"}
    MaxTime = 0
    MaxActive = 1
    Nil = Nil
INVARIANTS
    PromotionIsComplete
    DescriptorIsComplete
    PromotedSetIsPublished
PROPERTIES
    RunsEnd
CHECK_DEADLOCK FALSE
