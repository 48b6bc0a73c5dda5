SPECIFICATION MCSpec
CONSTANTS
    Nodes <- TestNodes
    Root = "testdata"
    Parent <- TestParent
    Hidden <- MCHidden
    Late = 1000
    MaxSeconds = 1
    MaxChanges = 1
INVARIANTS GaugeIsRight AloneIsSafe TestPasses
PROPERTIES  StopIsHonoured RunReturns
CHECK_DEADLOCK FALSE
