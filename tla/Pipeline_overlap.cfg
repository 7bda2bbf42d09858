\* Two runs of the same commit that overlap; every step may fail.
SPECIFICATION Spec
CONSTANTS
    r1 = r1
    r2 = r2
    f1 = f1
    c1 = c1
    Runs = {r1, r2}
    Flavours = {f1}
    Azure = {}
    Oci = {}
    Unpublishable = {}
    Contents = {c1}
    TargetSets <- OneTargetSet
    Kinds = {"snapshot"}
    MaxTime = 0
    MaxActive = 2
    Nil = Nil
SYMMETRY RunSymmetry
INVARIANTS
    NoDanglingReference
    PromotionIsComplete
CHECK_DEADLOCK FALSE
