SPECIFICATION Spec
CONSTANTS
    MaxAttempts = 3
    NULL = NULL
INVARIANTS RequestOnItsSession  PointersLive ListingFresh
PROPERTY LentSurvivesReads
CHECK_DEADLOCK FALSE
