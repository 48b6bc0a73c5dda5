SPECIFICATION SelectionSpec
CONSTANTS
    Nodes <- MCNodes
    Root = "root"
    Parent <- MCParent
    Rank <- MCRank
    NULL = NULL
    MaxEntries = 4
PROPERTY RemovesOurs
CHECK_DEADLOCK FALSE
