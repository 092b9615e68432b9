SPECIFICATION ProfileSpec
CONSTANTS
    Nodes <- MCNodes
    Kind <- MCKind
    Device <- MCDevice
    Target <- MCTarget
    Runnable <- MCRunnable
    Layout <- MCLayout
    SpaceHome <- MCSpaceHome
    HostHome <- MCHostHome
    Runtime <- MCRuntime
    StoreRoot <- MCStoreRoot
    Quarters <- MCQuarters
    Hidden = {".ssh", ".gnupg"}
    BuiltIn <- MCBuiltIn
    Etc <- MCEtc
    Resolver <- MCResolver
    Search <- MCSearch
    Launches <- MCLaunches
    Exchanges <- MCExchanges
    Spaces <- MCSpaces
    Main = "s"
    HomeOf <- MCHomeOf
    RuntimeName <- MCRuntimeName
    Tmp <- MCTmp
    Scenarios <- MCScenarios
    None = None
INVARIANTS
    GrantsClosed
    LaunchSound
    EnvironmentSound
    OneRuntime
CHECK_DEADLOCK FALSE
