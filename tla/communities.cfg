CONSTANTS
    p1 = p1  b1 = b1  b2 = b2
    NoParent = NoParent  None = None
    Parents = {p1}
    Blocks = {b1, b2}
    ParentOf <- MCParentOf
    MinCommunities = 1
    MaxCommunities = 2
    MaxId = 3
    HistoryLimit = 2
    MaxClock = 6
    Allowed = {}
SPECIFICATION Spec
SYMMETRY Symmetric
INVARIANTS TypeOK NoDoubleCoverage AssignedExist CleanMeansSaved
PROPERTIES ReloadKeepsPlan BlockViewKeepsUnits
