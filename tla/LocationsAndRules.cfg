SPECIFICATION MCSpec
CONSTANTS
    Nodes <- MCNodes
    Root = "root"
    Parent <- MCParent
    Dirs <- MCDirs
    Special <- MCSpecial
    Patterns <- MCPatterns
    MatchedBy <- MCMatchedBy
    Texts <- MCTexts
    Names <- MCNames
    NULL = NULL
    TypedNames <- MCTypedNames
    TypedPaths <- MCTypedPaths
    TypedRules <- MCTypedRules
    MaxEntries = 12
    MaxLocations = 3
INVARIANTS TreeShowsBackup RulesNotDangling PartialTicks TestPasses
PROPERTIES ExcludeIsExact  IncludeBringsAllBelow  EditOnlyRenames
CHECK_DEADLOCK FALSE
