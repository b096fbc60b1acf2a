CONSTANTS
    a = a
    b = b
    p = p
    MaxSize = 2
    Sizes = {1}
    Launchers = {a, b}
    Nested = {}
    Probes = {p}
    Ranges <- MCOneRange
    MaxThreads = {3}
    Throwers = {}
    MaxUses = 1
    MaxPerforms = 1
    DefThreads = 3
    MinInt <- MCMinInt
    MaxInt <- MCMaxInt
    Owner = Owner
    Nobody = Nobody
SPECIFICATION Spec
INVARIANTS
    OneHolder
    NoStaleSignal
PROPERTIES
    LoopSpec
CHECK_DEADLOCK FALSE
