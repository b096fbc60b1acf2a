CONSTANTS
    e1 = e1
    e2 = e2
    e3 = e3
    MaxThreads = 2
    Entities = {e1, e2, e3}
    Broken = {e3}
    MaxCalls = 5
    Nothing = Nothing
SPECIFICATION FairSpec
INVARIANTS
    BuildsApart
    EventsTellTruth
    WaitMeansTaken
PROPERTIES
    WaitReturns
    QueuedIsBuilt
CHECK_DEADLOCK FALSE
