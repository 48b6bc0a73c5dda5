SPECIFICATION Spec
CONSTANTS
    Names = {"x", "y", "z"}
    MaxId = 4
    MaxIndex = 3
    NULL = NULL
INVARIANT VersionForEveryEntry
CHECK_DEADLOCK FALSE
