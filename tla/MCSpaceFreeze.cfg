SPECIFICATION Spec
CONSTANTS
    NameA = a
    SpaceA = d1
    Names = {a, b}
    Spaces = {d1, d2}
    Sessions = {s1, s2}
    Jobs = {j1, j2}
    Placed <- MCPlaced
    Legacy = {d1}
    MaxWrites = 1
    None = None
INVARIANTS
    FreezeSound
    FreezeHolds
CHECK_DEADLOCK FALSE
