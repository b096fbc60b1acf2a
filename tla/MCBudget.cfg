CONSTANTS
    t1 = t1
    t2 = t2
    h1 = h1
    h2 = h2
    s1 = s1
    k1 = k1
    Threads = {t1, t2}
    Handles = {h1, h2}
    Counts = {s1}
    Tokens = {k1}
    Timed = {h2}
    CountOf <- MCClones
    Units <- MCOneUnit
    TokenOf <- MCTokenOf
    MaxRun = 2
    MaxDepth = 1
SPECIFICATION FairSpec
INVARIANTS
    TypeOK
    GrantedWithinUnits
    SettledCount
    WorkRefusalExact
    NoPartialResult
PROPERTIES
    CancellationLands
