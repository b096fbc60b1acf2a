CONSTANTS
    a = a
    b = b
    p = p
    MaxSize = 2
    Sizes = {1}
    Launchers = {a, b}
    Nested = {b}
    Probes = {}
    Ranges <- MCRanges
    MaxThreads = {2, 3}
    Throwers = {1, a}
    MaxUses = 1
    MaxPerforms = 1
    DefThreads = 3
    MinInt <- MCMinInt
    MaxInt <- MCMaxInt
    Owner = Owner
    Nobody = Nobody
SPECIFICATION FairSpec
INVARIANTS
    NoJobLeft
PROPERTIES
    LoopSpec
    LoopsReturn
    ReinitReturns
CHECK_DEADLOCK FALSE
