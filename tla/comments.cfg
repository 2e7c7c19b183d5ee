SPECIFICATION Spec
CONSTANTS
    Null = Null
    Editors = {"a"}
    Zones = {1, 2}
    Texts = {0, 2}
    Forms <- MCForms
    MaxIds = 4
    MaxWrites = 2
    MaxReviews = 1
    Allowed <- MCNothing
INVARIANTS TypeOK PublicSeesClean
PROPERTIES SaveExact ScoresSettle
CHECK_DEADLOCK FALSE
