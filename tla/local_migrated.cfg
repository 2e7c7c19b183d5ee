SPECIFICATION Spec
CONSTANTS
    d1 = d1
    d2 = d2
    None = None
    DocIds <- MCDocIds
    Migrated <- MCMigrated
    MaxRequests = 2
    MaxStamp = 2
    Allowed <- MCOffline
PROPERTIES SaveKeepsPlan
CHECK_DEADLOCK FALSE
