\* Two processes, 66 stores, one failed call or one death.
SPECIFICATION LiveSpec
CONSTANTS
    p1 = p1
    p2 = p2
    Procs = {p1, p2}
    Programs <- MCPrograms
    Roots <- MCRoots
    Inodes = {i1, i2}
    MaxReads = 8
    MaxMishaps = 1
INVARIANTS
    LayoutSound
    ReadersNotMisled
PROPERTIES
    ForeignUntouched
    MarkerPublished
