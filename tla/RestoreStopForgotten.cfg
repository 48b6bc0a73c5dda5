SPECIFICATION MCSpec
CONSTANTS
    Nodes <- MCNodes
    Root = "root"
    Parent <- MCParent
    Rank <- MCRank
    NULL = NULL
    Dirs <- MCDirs
    Dates <- MCDates
    Listing <- MCListing
    Gone <- MCGone
    Absent <- MCAbsent
    MaxEntries = 5
    MaxClicks = 3
    MaxSeconds = 1
PROPERTY StopAlwaysHonoured
CHECK_DEADLOCK FALSE
