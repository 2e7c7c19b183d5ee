SPECIFICATION Spec
CONSTANTS
    d1 = d1
    d2 = d2
    None = None
    DocIds <- MCDocIds
    Migrated <- MCMigrated
    MaxRequests = 3
    MaxStamp = 2
    Allowed <- MCNothing
INVARIANTS TypeOK StoredWhenSettled
PROPERTIES DiskKeepsStrokes SaveKeepsPlan StrokesReachDisk
CHECK_DEADLOCK FALSE
