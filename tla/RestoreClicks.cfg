SPECIFICATION SelectionSpec
CONSTANTS
    Nodes <- MCNodes
    Root = "root"
    Parent <- MCParent
    Rank <- MCRank
    NULL = NULL
    MaxEntries = 4
INVARIANT SelectionSound
PROPERTY FreshClickIsExact
CHECK_DEADLOCK FALSE
