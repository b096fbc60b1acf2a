CONSTANTS
    Ops = {"fuse", "cut"}
    Keys = {"pair1", "pair2", "inner"}
    Stages = {"pierce", "box", "solid"}
    Body <- MCBody
    CacheOf <- MCCacheOf
    Capacity <- MCCapacity
    Limits = {0, 2, 5, 6, 9, 12}
SPECIFICATION Spec
INVARIANTS
    KeptWhole
PROPERTIES
    CountsAlike
