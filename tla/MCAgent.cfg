SPECIFICATION LiveSpec
CONSTANTS
    Starters = {s1, s2}
    Stoppers = {k}
    Recoverers = {r}
    Procs = {p1, p2}
    TmpCleaner = TRUE
    None = None
INVARIANTS
    RecordSound
PROPERTIES
    LiveSocketsKept
    ReservationKept
    AgentSettles
