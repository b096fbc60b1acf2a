CONSTANTS
    a = a
    b = b
    c = c
    Labels = {a, b, c}
    MaxID = 3
    Possible <- OtherPair
SPECIFICATION GraphSpec
SYMMETRY Permutable
INVARIANTS
    GraphTypeOK
    Mutual
    LinksMatch
    NoDangling
    DeletesWhole
CHECK_DEADLOCK FALSE
