CONSTANTS
    e1 = e1
    e2 = e2
    e3 = e3
    MaxThreads = 2
    Entities = {e1, e2}
    Broken = {}
    MaxCalls = 1
    Nothing = Nothing
SPECIFICATION FairSpec
PROPERTIES
    StopReturns
CHECK_DEADLOCK FALSE
