SPECIFICATION LiveSpec
CONSTANTS
    NameA = a
    NameB = b
    NameC = c
    TxOut = t1
    TxBack = t2
    SpaceA = d1
    SessionA = s1
    Names = {a, b, c}
    Spaces = {d1}
    Txs = {}
    Sessions = {}
    From <- MCFrom
    To <- MCTo
    Entered <- MCEntered
    Placed <- MCPlaced
    Legacy = {d1}
    None = None
    Recoverer = Recoverer
    Upgrader = Upgrader
    Free = Free
PROPERTIES
    UpgradeResumes
