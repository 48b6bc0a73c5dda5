SPECIFICATION MCSpec
CONSTANTS
    Nodes <- MCNodes
    Root = "root"
    Parent <- MCParent
    Rank <- MCRank
    NULL = NULL
    Dirs <- MCDirs
    Dates <- MCDates
    Listing <- MCListing
    Gone <- MCGone
    Absent <- MCAbsent
    MaxEntries = 5
    MaxClicks = 4
    MaxSeconds = 0
PROPERTY EveryRecordSynced
CHECK_DEADLOCK FALSE
