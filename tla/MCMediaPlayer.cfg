CONSTANTS
    a = a
    b = b
    c = c
    Inputs = {a, b, c}
    NoVideo = {c}
    None = None
    Habits <- MCHabits
    MaxPackets = 2
    MaxCommands = 3
SPECIFICATION PlayerFairSpec
INVARIANTS
    PlayerTypeOK
    NoTearing
    OwnPictures
    ReleasedOnReturn
PROPERTIES
    CallsReturn
CHECK_DEADLOCK FALSE
