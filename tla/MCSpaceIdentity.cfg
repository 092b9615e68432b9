SPECIFICATION LiveSpec
CONSTANTS
    NameA = a
    NameB = b
    NameC = c
    TxOut = t1
    TxBack = t2
    SpaceA = d1
    SessionA = s1
    Names = {a, b, c}
    Spaces = {d1, d2}
    Txs = {t1, t2, t3}
    Sessions = {s1, s2}
    From <- MCFrom
    To <- MCTo
    Entered <- MCEntered
    Placed <- MCPlaced
    Legacy = {d1}
    None = None
    Recoverer = Recoverer
    Upgrader = Upgrader
    Free = Free
INVARIANTS
    NamedOrMarked
    RecoverySound
    LeaseCoversSpace
PROPERTIES
    ReservedNamesReturn
