\* A preview or a copy of one of seven homes while one other process writes twice.
SPECIFICATION Spec
CONSTANTS
    Names = {1, 2, 3}
    Homes <- MCHomes
    Root = "r"
    Spare = {"s1", "s2", "s3"}
    NewData <- MCNewData
    ForeignData = {"f"}
    CacheRoots <- MCCacheRoots
    CommandLink <- MCCommandLink
    ShimLinks <- MCShimLinks
    EntryLimit = 6
    ByteLimit = 5
    FileLimit = 2
    DepthLimit = 2
    TargetLimit = 2
    RemovalDepth = 4
    PendingLimit = 6
    MaxWrites = 2
INVARIANTS
    WalkComputesSelection
    CopySound
PROPERTIES
    EntriesAtOneInstant
