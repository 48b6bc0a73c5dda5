SPECIFICATION Spec
CONSTANTS
    Names = {"x", "y", "z"}
    MaxId = 4
    MaxIndex = 3
    NULL = NULL
INVARIANTS CacheIsTrue
PROPERTIES HeldSurvivesSameNames IsCatalogue
CHECK_DEADLOCK FALSE
