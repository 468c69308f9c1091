SPECIFICATION CachesSpec
CONSTANTS
    Callers = {c1, c2, c3}
    Stamps = {t1, t2}
    Free = free
    MaxTries = 1
    MaxFailures = 1
    Requests = {r1, r2}
    MaxVersion = 3
    MaxFaults = 1
INVARIANTS FillTypeOK OneHolder ReadsSeeStoredMenus OutdatedOnlyByLoss
PROPERTY EveryCallAnswered
