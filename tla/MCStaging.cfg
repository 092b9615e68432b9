SPECIFICATION LiveSpec
CONSTANTS
    User = u
    CaptureKind = "capture"
    A = A
    X = X
    Names = {A, X}
    Builders = {t, u, c}
    Kind <- MCKind
    Dest <- MCDest
    From <- MCFrom
    Published = {t}
    Mutators = {m1}
    Recoverer = Recoverer
    Free = Free
    None = None
INVARIANTS
    LiveStagingKept
    PublishedSound
    TemplateUseFaithful
PROPERTIES
    LeftoversReclaimed
