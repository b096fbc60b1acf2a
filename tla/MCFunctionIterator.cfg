CONSTANTS
    Functions <- MCFunctions
    Graphs <- MCGraphs
SPECIFICATION FairSpec
INVARIANTS
    InOrder
PROPERTIES
    ReturnedOnce
    Regenerated
    IterationEnds
CHECK_DEADLOCK FALSE
