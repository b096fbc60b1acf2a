CONSTANTS
    r1 = r1
    r2 = r2
    r3 = r3
    s1 = s1
    s2 = s2
    s3 = s3
    Whole = 7
    RangeSlots = {r1, r2, r3}
    ScopeSlots = {s1, s2}
    Root = Root
    Nothing = Nothing
    Maxes = {2}
    Laws = {FALSE, TRUE}
    Steps = {1, 2}
    MaxValue = 3
    MaxStarts = 2
SPECIFICATION Spec
SYMMETRY Symmetry
INVARIANTS
    PartsApart
    Conserved
CHECK_DEADLOCK FALSE
