\* Expected to fail: see the property.
SPECIFICATION FairSpec
CONSTANTS
    Failovers = {f1, f2}
    Checks = {m1, m2}
    Nobody = nobody
    MaxLooks = 2
PROPERTY OneAutomaticFailover
