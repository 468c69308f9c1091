SPECIFICATION FairCacheSpec
CONSTANTS
    Keys = {k1}
    SharedTags = {menu}
    Popular = {k1}
    Callers = {c1, c2}
    Sweepers = {s1}
    None = none
    MaxVersion = 1
    MaxFaults = 1
INVARIANTS CacheTypeOK FindableByTag
PROPERTY EventuallyFresh
