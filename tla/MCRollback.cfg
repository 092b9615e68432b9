SPECIFICATION LiveSpec
CONSTANTS
    Name = a
    Names = {a}
    Txs = {t1, t2}
    Sessions = {s1}
    Target <- MCTarget
    Home <- MCHome
    MaxWrites = 1
    NoTree = NoTree
    Recoverer = Recoverer
    Free = Free
INVARIANTS
    RecoveryIsDetermined
    HomesSound
PROPERTIES
    DiscardsOnlySavedHomes
    ReplacesAtomically
    RefusedSpaceReturns
