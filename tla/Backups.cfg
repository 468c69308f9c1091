SPECIFICATION BackupsSpec
CONSTANTS
    MaxBackups = 2
    Cleaners = {cron, endpoint}
    Daily = cron
    Verifying = TRUE
    MaxFaults = 2
INVARIANTS CatalogueIsTrue ChainsStartWithAFull
PROPERTY OldBackupsGo
CHECK_DEADLOCK FALSE
